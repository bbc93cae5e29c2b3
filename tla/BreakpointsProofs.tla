------------------------- MODULE BreakpointsProofs -------------------------
(***************************************************************************)
(* Proofs about Breakpoints for every size of the table, every address and *)
(* every box and kind of target.  The argument: layoutBreakpoints() moves  *)
(* only entries that are not in the box yet, and gives each of them a slot *)
(* no other such entry and no settled one has; addBreakpoint() and         *)
(* deleteBreakpoint() leave what the table says is in the box as it was;   *)
(* so each command of an update changes the box in the one place the table *)
(* says, and when nothing is left to remove or to add the two are equal.   *)
(***************************************************************************)
EXTENDS Breakpoints, SequenceLemmas

-----------------------------------------------------------------------------
(* What holds of a table, whether or not a breakpoint was refused.         *)

Typed(t) ==
  /\ t \in [Index -> Entry]
  /\ t[MaxTotal - 1].last
  /\ ~t[MaxTotal - 1].enabled /\ ~t[MaxTotal - 1].toremove
  /\ \A i \in Index :
       /\ t[i].enabled => t[i].type # "NONE"
       /\ t[i].type = "CODE" => t[i].address \in CodeAddrs
       /\ ~(t[i].icestatus /\ t[i].toadd)

(* What a run removes by itself, and what only a box that does so is told. *)
BoxRemoves == is_xmega /\ (Box = "mkII" => FullXmega)
AutoRemoved(e) == HardCode(e) /\ BoxRemoves

(* As long as nothing was refused: an entry of the list; the entries being *)
(* entered (X) are not marked for download yet.                            *)
InIceOK(e) == e.icestatus => ~AutoRemoved(e) /\ e.type # "NONE"

MarksOK(e) ==
  /\ e.icestatus => (e.toremove <=> ~e.enabled)
  /\ e.toadd => e.enabled /\ ~e.toremove
  /\ e.toremove /\ ~e.icestatus => AutoRemoved(e)
  /\ e.enabled /\ ~e.icestatus /\ ~is_xmega => e.toadd

Idle(e) == ~e.enabled /\ ~e.toadd /\ ~e.toremove /\ ~e.icestatus

Unique(t) == \A i, j \in Listed(t) : Is(t[i], t[j].address, t[j].type) => i = j

Sound(t, X) ==
  /\ \A i \in Listed(t) : InIceOK(t[i]) /\ (i \in X \/ MarksOK(t[i]))
  /\ \A i \in Index \ Listed(t) : Idle(t[i])
  /\ Unique(t)

(* The breakpoints that are set. *)
On(t) == {Asked(t[i]) : i \in {j \in Index : t[j].enabled}}

(* The table and the box agree. *)
InBox(t) ==
  /\ \A i \in Index : t[i].icestatus => HeldByIce(t[i])
  /\ \A s \in Slots : ice[s].type # "NONE" =>
       \E i \in Index : t[i].icestatus /\ t[i].bpnum = s
  /\ \A a \in iceSoft :
       \E i \in Index : /\ t[i].icestatus /\ t[i].bpnum = Software
                        /\ Is(t[i], a, "CODE")

-----------------------------------------------------------------------------
(* The inductive invariant.                                                *)

Updating == phase \in {"clearing", "setting"}

(* A software breakpoint is one on code; with room for all, or software    *)
(* breakpoints to make room, no two entries share a slot.                  *)
LaidOut(t) ==
  \A i \in Listed(t) : Pending(t[i]) =>
    /\ t[i].bpnum \in Usable \/ (t[i].bpnum = Software /\ t[i].type = "CODE")
    /\ \A j \in Listed(t) :
         j # i /\ (Pending(t[j]) \/ Stable(t[j])) /\ t[i].bpnum = t[j].bpnum
           => t[i].bpnum = Software

PendingOK ==
  Updating =>
    /\ \A i \in Listed(bp) :
         Pending(bp[i]) /\ bp[i].bpnum = Software => bp[i].type = "CODE"
    /\ ~refused \/ ~NoSoftBp => LaidOut(bp)

(* The Xmega code breakpoints collected so far have a slot each. *)
CollectedSlots == {bp[i].bpnum : i \in {j \in Listed(bp) : bp[j].toremove}}

XmegaOK ==
  /\ phase # "too many"
  /\ ~BoxRemoves => xmega_bps = <<>>
  /\ ~is_xmega => iceXmega = {}
  /\ phase \in {"stopped", "clearing", "running"} => xmega_bps = <<>>
  /\ phase = "setting" /\ is_xmega =>
       /\ \A i \in Listed(bp) :
            Pending(bp[i]) /\ bp[i].bpnum \in CollectedSlots
              => bp[i].bpnum = Software
       /\ Len(xmega_bps) \in 0 .. 2
       /\ Len(xmega_bps) = 1 => CollectedSlots \cap Usable # {}
       /\ Len(xmega_bps) = 2 => Usable \subseteq CollectedSlots

MomentaryOK == momentary # NoAddr => phase # "stopped"

(* What is set in the table is what was asked for, where no watchpoint     *)
(* takes a mask with it.                                                   *)
OneByte == Lengths = {1}

AskedOK ==
  OneByte =>
    /\ On(bp) = Due
    /\ momentary # NoAddr =>
         [type |-> "CODE", address |-> momentary] \notin wanted

SoundOK ==
  /\ Sound(bp, {})
  /\ InBox(bp)
  /\ phase \in {"setting", "running"} =>
       \A i \in Index : ~(bp[i].icestatus /\ bp[i].toremove)
  /\ phase = "running" => \A i \in Index : ~Pending(bp[i])
  /\ AskedOK

IInv ==
  /\ TypeOK /\ Typed(bp)
  /\ PendingOK /\ XmegaOK /\ MomentaryOK
  /\ ~refused => SoundOK

-----------------------------------------------------------------------------
(* The list in the array.                                                  *)

LEMMA ListedProperties ==
  ASSUME NEW t, Typed(t)
  PROVE  /\ LastIndex(t) \in Index /\ t[LastIndex(t)].last
         /\ Listed(t) \subseteq Index \ {MaxTotal - 1}
         /\ \A i \in Index : i \in Listed(t) <=> i < LastIndex(t)
         /\ \A i \in Listed(t) : ~t[i].last
         /\ MaxTotal - 1 \in Index
<1> DEFINE S == {i \in Index : t[i].last}
<1>1. MaxTotal - 1 \in Index /\ Index \subseteq Nat
  BY TableAssumption DEF Index
<1>2. S \in SUBSET Nat /\ MaxTotal - 1 \in S
  BY <1>1 DEF Typed
<1>3. Min(S) \in S /\ \A n \in S : Min(S) <= n
  BY <1>2, MinIsLeast
<1>4. LastIndex(t) = Min(S)
  BY DEF LastIndex
<1> HIDE DEF S
<1>5. LastIndex(t) \in Index /\ t[LastIndex(t)].last
  BY <1>3, <1>4 DEF S
<1>6. \A i \in Index : i < LastIndex(t) => ~t[i].last
  <2> SUFFICES ASSUME NEW i \in Index, i < LastIndex(t), t[i].last PROVE FALSE
    OBVIOUS
  <2>1. i \in S
    BY DEF S
  <2>2. LastIndex(t) <= i
    BY <1>3, <1>4, <2>1
  <2>3. i \in Nat /\ LastIndex(t) \in Nat
    BY <1>1, <1>5
  <2>4. QED
    BY <2>2, <2>3
<1>7. /\ Listed(t) \subseteq Index
      /\ \A i \in Index : i \in Listed(t) <=> i < LastIndex(t)
  BY <1>1, <1>5 DEF Listed, Index
<1>8. QED
  BY <1>1, <1>2, <1>5, <1>6, <1>7 DEF S

(* Tables with the same end marks have the same list. *)
LEMMA SameList ==
  ASSUME NEW t, NEW u, \A i \in Index : u[i].last = t[i].last
  PROVE  LastIndex(u) = LastIndex(t) /\ Listed(u) = Listed(t)
<1>1. {i \in Index : u[i].last} = {i \in Index : t[i].last}
  OBVIOUS
<1>2. QED
  BY <1>1 DEF LastIndex, Listed

-----------------------------------------------------------------------------
(* layoutBreakpoints()                                                     *)

Layouts == [table : [Index -> Entry], free : SUBSET Slots, hadroom : BOOLEAN]

(* What the layout leaves of an entry. *)
Kept(e, d) ==
  /\ d.address = e.address /\ d.type = e.type /\ d.last = e.last
  /\ d.icestatus = e.icestatus /\ d.toremove = e.toremove
  /\ (d.enabled => e.enabled) /\ (d.toadd => e.toadd)
  /\ d.bpnum # e.bpnum => Pending(e)

(* A layout of table t in which the entries of the set done have a place.  *)
Laying(t, lay, done) ==
  /\ lay \in Layouts
  /\ \A i \in Index : Kept(t[i], lay.table[i])
  /\ lay.hadroom =>
       \A i \in Index : /\ lay.table[i].enabled = t[i].enabled
                        /\ lay.table[i].toadd = t[i].toadd
  /\ lay.free \subseteq FreeSlots(t)
  /\ \A i \in done : Pending(lay.table[i]) =>
       /\ lay.table[i].bpnum = Software => t[i].type = "CODE"
       /\ lay.hadroom \/ ~NoSoftBp =>
            /\ lay.table[i].bpnum \in FreeSlots(t) \cup {Software}
            /\ lay.table[i].bpnum \notin lay.free
            /\ \A j \in done :
                 j # i /\ Pending(lay.table[j])
                   /\ lay.table[j].bpnum = lay.table[i].bpnum
                   => lay.table[i].bpnum = Software

LEMMA SlotFacts ==
  /\ Slots \subseteq Int /\ Software \notin Slots /\ Usable \subseteq Slots
  /\ FirstData \in Slots /\ DataMask \in Slots
  /\ \A t : FreeSlots(t) \subseteq Usable
BY DEF Slots, Software, Usable, FirstData, DataMask, FreeSlots

(* An entry with no slot yet gets one, or becomes a software breakpoint. *)
LEMMA PlaceLaying ==
  ASSUME NEW t, t \in [Index -> Entry], NEW lay, NEW done \in SUBSET Index,
         Laying(t, lay, done), NEW i \in Index \ done, NEW slot,
         Pending(lay.table[i]),
         \/ slot \in lay.free
         \/ slot = Software /\ t[i].type = "CODE"
  PROVE  Laying(t, Place(lay, i, slot), done \cup {i})
<1> DEFINE new == Place(lay, i, slot)
<1>1. /\ lay.table \in [Index -> Entry] /\ lay.free \subseteq Slots
      /\ lay.hadroom \in BOOLEAN /\ lay \in Layouts
  BY DEF Laying, Layouts
<1>2. slot \in Slots \cup {Software}
  BY <1>1
<1>3. /\ new.table = [lay.table EXCEPT ![i].bpnum = slot]
      /\ new.free = lay.free \ {slot}
      /\ new.hadroom = lay.hadroom
  BY <1>1 DEF Place, Layouts
<1>6. new \in Layouts
  <2>1. [lay.table[i] EXCEPT !.bpnum = slot] \in Entry
    BY <1>1, <1>2 DEF Entry
  <2>2. [lay.table EXCEPT ![i].bpnum = slot] \in [Index -> Entry]
    BY <1>1, <2>1
  <2>3. QED
    BY <1>1, <2>2 DEF Place, Layouts
<1> HIDE DEF new
<1>4. /\ \A j \in Index : j # i => new.table[j] = lay.table[j]
      /\ new.table[i] = [lay.table[i] EXCEPT !.bpnum = slot]
  BY <1>1, <1>3
<1>5. /\ new.table[i].bpnum = slot
      /\ new.table[i].address = lay.table[i].address
      /\ new.table[i].type = lay.table[i].type
      /\ new.table[i].last = lay.table[i].last
      /\ new.table[i].enabled = lay.table[i].enabled
      /\ new.table[i].toadd = lay.table[i].toadd
      /\ new.table[i].icestatus = lay.table[i].icestatus
      /\ new.table[i].toremove = lay.table[i].toremove
  <2>1. lay.table[i] \in Entry
    BY <1>1
  <2>2. QED
    BY <1>4, <2>1 DEF Entry
<1>7. \A j \in Index : Kept(t[j], new.table[j])
  <2>1. Kept(t[i], new.table[i])
    <3>1. Kept(t[i], lay.table[i])
      BY DEF Laying
    <3>2. Pending(t[i])
      BY <3>1 DEF Kept, Pending
    <3>3. QED
      BY <1>5, <3>1, <3>2 DEF Kept
  <2>2. QED
    BY <1>4, <2>1 DEF Laying
<1>8. new.hadroom => \A j \in Index : /\ new.table[j].enabled = t[j].enabled
                                      /\ new.table[j].toadd = t[j].toadd
  BY <1>3, <1>4, <1>5 DEF Laying
<1>9. \A j \in Index : Pending(new.table[j]) = Pending(lay.table[j])
  BY <1>4, <1>5 DEF Pending
<1>10. slot # Software => slot \in lay.free /\ slot \in FreeSlots(t)
  BY DEF Laying
<1>11. Software \notin lay.free
  BY <1>1, SlotFacts
<1>12. slot \notin new.free /\ new.free \subseteq lay.free
  BY <1>3
<1>13. ASSUME NEW j \in done \cup {i}, Pending(new.table[j])
       PROVE  /\ new.table[j].bpnum = Software => t[j].type = "CODE"
              /\ new.hadroom \/ ~NoSoftBp =>
                   /\ new.table[j].bpnum \in FreeSlots(t) \cup {Software}
                   /\ new.table[j].bpnum \notin new.free
                   /\ \A h \in done \cup {i} :
                        h # j /\ Pending(new.table[h])
                          /\ new.table[h].bpnum = new.table[j].bpnum
                          => new.table[j].bpnum = Software
  <2>1. CASE j = i
    <3>1. ASSUME NEW h \in done, Pending(lay.table[h]),
                 lay.hadroom \/ ~NoSoftBp, lay.table[h].bpnum = slot
          PROVE  slot = Software
      BY <1>10, <3>1 DEF Laying
    <3>2. slot = Software => t[i].type = "CODE"
      BY <1>11
    <3>3. QED
      BY <1>3, <1>4, <1>5, <1>9, <1>10, <1>12, <2>1, <3>1, <3>2
  <2>2. CASE j # i
    <3>1. j \in done /\ j \in Index /\ new.table[j] = lay.table[j]
          /\ Pending(lay.table[j])
      BY <1>4, <1>13, <2>2
    <3>2. lay.table[j].bpnum = Software => t[j].type = "CODE"
      BY <3>1 DEF Laying
    <3>3. ASSUME new.hadroom \/ ~NoSoftBp
          PROVE  /\ new.table[j].bpnum \in FreeSlots(t) \cup {Software}
                 /\ new.table[j].bpnum \notin new.free
                 /\ \A h \in done \cup {i} :
                      h # j /\ Pending(new.table[h])
                        /\ new.table[h].bpnum = new.table[j].bpnum
                        => new.table[j].bpnum = Software
      <4>1. /\ lay.table[j].bpnum \in FreeSlots(t) \cup {Software}
            /\ lay.table[j].bpnum \notin lay.free
            /\ \A h \in done :
                 h # j /\ Pending(lay.table[h])
                   /\ lay.table[h].bpnum = lay.table[j].bpnum
                   => lay.table[j].bpnum = Software
        BY <1>3, <3>1, <3>3 DEF Laying
      <4>2. lay.table[j].bpnum = slot => slot = Software
        BY <1>10, <4>1
      <4>3. \A h \in done : new.table[h] = lay.table[h] /\ h \in Index
        BY <1>4
      <4>4. QED
        BY <1>5, <1>9, <1>12, <3>1, <4>1, <4>2, <4>3
    <3>4. QED
      BY <3>1, <3>2, <3>3
  <2>3. QED
    BY <2>1, <2>2
<1>14. new.free \subseteq FreeSlots(t)
  BY <1>12 DEF Laying
<1>15. Laying(t, new, done \cup {i})
  BY <1>6, <1>7, <1>8, <1>13, <1>14 DEF Laying
<1>16. QED
  BY <1>15 DEF new

LEMMA DisableProperties ==
  ASSUME NEW t \in [Index -> Entry], NEW i \in Index
  PROVE  /\ Disable(t, i) \in [Index -> Entry]
         /\ \A j \in Index : j # i => Disable(t, i)[j] = t[j]
         /\ \A j \in Index :
              LET d == Disable(t, i)[j] IN
              /\ d.address = t[j].address /\ d.type = t[j].type
              /\ d.last = t[j].last /\ d.bpnum = t[j].bpnum
              /\ d.icestatus = t[j].icestatus /\ d.toremove = t[j].toremove
              /\ d.has_mask = t[j].has_mask
              /\ d.mask_pointer = t[j].mask_pointer
              /\ (d.enabled => t[j].enabled) /\ (d.toadd => t[j].toadd)
         /\ ~Disable(t, i)[i].enabled /\ ~Disable(t, i)[i].toadd
<1> DEFINE e == [t[i] EXCEPT !.enabled = FALSE, !.toadd = FALSE]
<1>1. t[i] \in Entry
  OBVIOUS
<1>2. e \in Entry
  BY <1>1 DEF Entry
<1>3. /\ e.address = t[i].address /\ e.type = t[i].type /\ e.last = t[i].last
      /\ e.bpnum = t[i].bpnum /\ e.icestatus = t[i].icestatus
      /\ e.toremove = t[i].toremove /\ e.has_mask = t[i].has_mask
      /\ e.mask_pointer = t[i].mask_pointer
      /\ e.enabled = FALSE /\ e.toadd = FALSE
  BY <1>1 DEF Entry
<1>4. /\ DOMAIN Disable(t, i) = Index
      /\ \A j \in Index : j # i => Disable(t, i)[j] = t[j]
      /\ Disable(t, i)[i] = e
  BY DEF Disable
<1> HIDE DEF e
<1>5. Disable(t, i) = [j \in Index |-> IF j = i THEN e ELSE t[j]]
  BY <1>4 DEF Disable
<1>6. Disable(t, i) \in [Index -> Entry]
  BY <1>2, <1>5
<1>7. QED
  BY <1>3, <1>4, <1>6

(* An entry that is not to be downloaded needs no place. *)
LEMMA SkipLaying ==
  ASSUME NEW t, NEW lay, NEW done, Laying(t, lay, done), NEW i,
         ~Pending(lay.table[i])
  PROVE  Laying(t, lay, done \cup {i})
BY DEF Laying

(* An entry there is no room for is disabled. *)
LEMMA DisableLaying ==
  ASSUME NEW t, NEW lay, NEW done \in SUBSET Index, Laying(t, lay, done),
         NEW i \in Index
  PROVE  Laying(t, [lay EXCEPT !.table = Disable(@, i), !.hadroom = FALSE],
                done \cup {i})
<1> DEFINE new == [lay EXCEPT !.table = Disable(@, i), !.hadroom = FALSE]
<1>1. lay.table \in [Index -> Entry] /\ lay \in Layouts
  BY DEF Laying, Layouts
<1>2. Disable(lay.table, i) \in [Index -> Entry]
  BY <1>1, DisableProperties
<1>3. /\ new.table = Disable(lay.table, i) /\ new.free = lay.free
      /\ new.hadroom = FALSE /\ new \in Layouts
  BY <1>1, <1>2 DEF Layouts
<1> HIDE DEF new
<1>4. \A j \in Index :
        /\ new.table[j].address = lay.table[j].address
        /\ new.table[j].type = lay.table[j].type
        /\ new.table[j].last = lay.table[j].last
        /\ new.table[j].bpnum = lay.table[j].bpnum
        /\ new.table[j].icestatus = lay.table[j].icestatus
        /\ new.table[j].toremove = lay.table[j].toremove
        /\ new.table[j].enabled => lay.table[j].enabled
        /\ new.table[j].toadd => lay.table[j].toadd
  BY <1>1, <1>3, DisableProperties
<1>5. \A j \in Index : Kept(t[j], new.table[j])
  BY <1>4 DEF Laying, Kept
<1>6. /\ \A j \in Index : Pending(new.table[j]) => Pending(lay.table[j])
      /\ ~Pending(new.table[i])
  BY <1>1, <1>3, <1>4, DisableProperties DEF Pending
<1>7. ASSUME NEW j \in done, Pending(new.table[j])
      PROVE  /\ new.table[j].bpnum = Software => t[j].type = "CODE"
             /\ new.hadroom \/ ~NoSoftBp =>
                  /\ new.table[j].bpnum \in FreeSlots(t) \cup {Software}
                  /\ new.table[j].bpnum \notin new.free
                  /\ \A h \in done \cup {i} :
                       h # j /\ Pending(new.table[h])
                         /\ new.table[h].bpnum = new.table[j].bpnum
                         => new.table[j].bpnum = Software
  <2>1. j \in Index /\ Pending(lay.table[j])
        /\ new.table[j].bpnum = lay.table[j].bpnum
    BY <1>4, <1>6, <1>7
  <2>2. /\ lay.table[j].bpnum = Software => t[j].type = "CODE"
        /\ ~NoSoftBp =>
             /\ lay.table[j].bpnum \in FreeSlots(t) \cup {Software}
             /\ lay.table[j].bpnum \notin lay.free
             /\ \A h \in done :
                  h # j /\ Pending(lay.table[h])
                    /\ lay.table[h].bpnum = lay.table[j].bpnum
                    => lay.table[j].bpnum = Software
    BY <1>7, <2>1 DEF Laying
  <2>3. \A h \in done : new.table[h].bpnum = lay.table[h].bpnum
                        /\ (Pending(new.table[h]) => Pending(lay.table[h]))
    BY <1>4, <1>6
  <2>4. QED
    BY <1>3, <1>6, <2>1, <2>2, <2>3
<1>8. Laying(t, new, done \cup {i})
  BY <1>3, <1>5, <1>6, <1>7 DEF Laying
<1>9. QED
  BY <1>8 DEF new

Watches(t) == {i \in Index : t[i].type \in WatchTypes \cup {"DATA_MASK"}}
Codes(t) == {i \in Index : t[i].type = "CODE"}

(* The two loops, one entry on. *)
LEMMA LayDataStep ==
  ASSUME NEW t, t \in [Index -> Entry], NEW lay, NEW done \in SUBSET Index,
         Laying(t, lay, done), NEW i \in Index \ done
  PROVE  Laying(t, LayData(lay, i), done \cup ({i} \cap Watches(t)))
<1>1. /\ lay.table \in [Index -> Entry] /\ lay \in Layouts
      /\ lay.free \subseteq Slots /\ lay.table[i] \in Entry
      /\ lay.table[i].type = t[i].type
  BY DEF Laying, Layouts, Kept
<1>2. CASE ~Pending(lay.table[i])
  <2>1. LayData(lay, i) = lay
    BY <1>2 DEF LayData
  <2>2. QED
    BY <1>2, <2>1, SkipLaying
<1>3. CASE Pending(lay.table[i]) /\ t[i].type = "DATA_MASK"
  <2>1. {i} \cap Watches(t) = {i} /\ LayData(lay, i) = LayMask(lay, i)
    BY <1>1, <1>3 DEF Watches, LayData
  <2>2. CASE DataMask \in lay.free
    BY <1>3, <2>1, <2>2, PlaceLaying DEF LayMask
  <2>3. CASE DataMask \notin lay.free
    <3> DEFINE p == lay.table[i].mask_pointer
               mid == [lay EXCEPT !.table = Disable(@, p), !.hadroom = FALSE]
    <3>1. p \in Index
      BY <1>1 DEF Entry
    <3>2. Laying(t, mid, done \cup {p})
      BY <3>1, DisableLaying
    <3>3. Laying(t, mid, done)
      BY <3>2 DEF Laying
    <3>4. Laying(t, [mid EXCEPT !.table = Disable(@, i), !.hadroom = FALSE],
                 done \cup {i})
      BY <3>3, DisableLaying
    <3>5. LayMask(lay, i)
            = [mid EXCEPT !.table = Disable(@, i), !.hadroom = FALSE]
      BY <1>1, <2>3 DEF LayMask, Layouts
    <3>6. QED
      BY <2>1, <3>4, <3>5
  <2>4. QED
    BY <2>2, <2>3
<1>4. CASE Pending(lay.table[i]) /\ t[i].type \in WatchTypes
  <2>1. {i} \cap Watches(t) = {i} /\ LayData(lay, i) = LayWatch(lay, i)
    BY <1>1, <1>4 DEF Watches, LayData, WatchTypes
  <2> DEFINE room == lay.free \cap {FirstData, DataMask}
  <2>2. CASE room # {}
    <3>1. room \in SUBSET Nat
      BY DEF FirstData, DataMask
    <3>2. Min(room) \in lay.free
      BY <2>2, <3>1, MinIsLeast
    <3>3. LayWatch(lay, i) = Place(lay, i, Min(room))
      BY <2>2 DEF LayWatch
    <3>4. QED
      BY <1>4, <2>1, <3>2, <3>3, PlaceLaying
  <2>3. CASE room = {}
    <3>1. LayWatch(lay, i)
            = [lay EXCEPT !.table = Disable(@, i), !.hadroom = FALSE]
      BY <2>3 DEF LayWatch
    <3>2. Laying(t, [lay EXCEPT !.table = Disable(@, i), !.hadroom = FALSE],
                 done \cup {i})
      BY DisableLaying
    <3>3. QED
      BY <2>1, <3>1, <3>2
  <2>4. QED
    BY <2>2, <2>3
<1>5. CASE Pending(lay.table[i])
           /\ t[i].type \notin WatchTypes \cup {"DATA_MASK"}
  BY <1>1, <1>5 DEF LayData, Watches
<1>6. QED
  BY <1>2, <1>3, <1>4, <1>5

LEMMA LayCodeStep ==
  ASSUME NEW t, t \in [Index -> Entry], NEW lay, NEW done \in SUBSET Index,
         Laying(t, lay, done), NEW i \in Index, t[i].type = "CODE" => i \notin done
  PROVE  Laying(t, LayCode(lay, i), done \cup ({i} \cap Codes(t)))
<1>1. /\ lay.table \in [Index -> Entry] /\ lay \in Layouts
      /\ lay.free \subseteq Slots /\ lay.free \in SUBSET Nat
      /\ lay.table[i].type = t[i].type
  BY DEF Laying, Layouts, Kept, Slots
<1>2. CASE t[i].type # "CODE"
  BY <1>1, <1>2 DEF LayCode, Codes
<1>3. CASE t[i].type = "CODE" /\ ~Pending(lay.table[i])
  BY <1>1, <1>3, SkipLaying DEF LayCode, Codes
<1>4. CASE t[i].type = "CODE" /\ Pending(lay.table[i])
  <2>1. {i} \cap Codes(t) = {i} /\ i \in Index \ done
    BY <1>4 DEF Codes
  <2>2. CASE lay.free # {}
    <3>1. Min(lay.free) \in lay.free
      BY <1>1, <2>2, MinIsLeast
    <3>2. LayCode(lay, i) = Place(lay, i, Min(lay.free))
      BY <1>1, <1>4, <2>2 DEF LayCode
    <3>3. QED
      BY <1>4, <2>1, <3>1, <3>2, PlaceLaying
  <2>3. CASE lay.free = {} /\ ~NoSoftBp
    <3>1. LayCode(lay, i) = Place(lay, i, Software)
      BY <1>1, <1>4, <2>3 DEF LayCode
    <3>2. QED
      BY <1>4, <2>1, <3>1, PlaceLaying
  <2>4. CASE lay.free = {} /\ NoSoftBp
    <3> DEFINE new == [lay EXCEPT !.hadroom = FALSE]
    <3>1. LayCode(lay, i) = new
      BY <1>1, <1>4, <2>4 DEF LayCode
    <3>2. /\ new.table = lay.table /\ new.free = lay.free
          /\ new.hadroom = FALSE /\ new \in Layouts
      BY <1>1 DEF Layouts
    <3> HIDE DEF new
    <3>3. Laying(t, new, done \cup {i})
      BY <1>4, <2>4, <3>2 DEF Laying
    <3>4. QED
      BY <2>1, <3>1, <3>3
  <2>5. QED
    BY <2>2, <2>3, <2>4
<1>5. QED
  BY <1>2, <1>3, <1>4

(* The two loops over the list. *)
LEMMA PassesLaying ==
  ASSUME NEW t, Typed(t)
  PROVE  LET n == LastIndex(t) IN
         Laying(t, layoutBreakpoints(t),
                {i \in Watches(t) \cup Codes(t) : i < n})
<1> DEFINE n == LastIndex(t)
           start == [table |-> t, free |-> FreeSlots(t), hadroom |-> TRUE]
           Next1(lay, k) == LayNext(lay, k, n)
           g == [k \in Nat |-> [lay \in Layouts |->
                   IF Next1(lay, k) \in Layouts THEN Next1(lay, k) ELSE lay]]
<1>1. /\ n \in Nat /\ 2 * n \in Nat /\ t \in [Index -> Entry]
      /\ \A k \in Nat : k < n => k \in Index
      /\ Watches(t) \subseteq Index /\ Codes(t) \subseteq Index
      /\ \A i \in Watches(t) \cup Codes(t) : i \in Nat
      /\ \A i \in Codes(t) : i \notin Watches(t)
  <2>1. n \in Index
    BY ListedProperties
  <2>2. /\ n \in Nat /\ 2 * n \in Nat /\ t \in [Index -> Entry]
        /\ \A k \in Nat : k < n => k \in Index
        /\ \A i \in Index : i \in Nat
    BY <2>1, TableAssumption DEF Index, Typed
  <2>3. QED
    BY <2>2 DEF Watches, Codes, WatchTypes
<1>2. start \in Layouts
  BY <1>1, SlotFacts DEF Layouts
<1>3. Laying(t, start, {})
  BY <1>2 DEF Laying, Kept
<1> HIDE DEF start, n, Next1
<1>4. g \in [Nat -> [Layouts -> Layouts]]
  OBVIOUS
<1>5. \A k \in Nat, lay \in Layouts :
        Next1(lay, k) \in Layouts => g[k][lay] = Next1(lay, k)
  OBVIOUS
<1> HIDE DEF g
<1>6. PICK f \in [0 .. 2 * n -> Layouts] : Recursion(f, start, g, 2 * n)
  BY <1>1, <1>2, <1>4, RecursiveFunction
<1>7. f[0] = start /\ \A k \in 1 .. 2 * n : f[k] = g[k - 1][f[k - 1]]
  BY <1>6 DEF Recursion
<1> DEFINE Done(k) == {i \in Watches(t) : i < k /\ i < n}
                        \cup {i \in Codes(t) : i < k - n}
           Rec(h) == h = [k \in 0 .. 2 * n |->
                            IF k = 0 THEN start ELSE Next1(h[k - 1], k - 1)]
<1>8. ASSUME NEW k \in Nat, k < 2 * n, NEW lay, Laying(t, lay, Done(k))
      PROVE  Laying(t, Next1(lay, k), Done(k + 1))
  <2>1. Done(k) \in SUBSET Index
    BY <1>1
  <2>3. CASE k < n
    <3>1. k \in Index
      BY <1>1, <2>3
    <3>2. k \notin Done(k)
      BY <1>1, <2>3
    <3>3. Done(k + 1) = Done(k) \cup ({k} \cap Watches(t))
      BY <1>1, <2>3
    <3> HIDE DEF Done
    <3>4. Next1(lay, k) = LayData(lay, k)
      BY <2>3 DEF Next1, LayNext
    <3>5. QED
      BY <1>1, <1>8, <2>1, <3>1, <3>2, <3>3, <3>4, LayDataStep
  <2>4. CASE ~(k < n)
    <3>1. k - n \in Index
      BY <1>1, <1>8, <2>4
    <3>2. t[k - n].type = "CODE" => k - n \notin Done(k)
      BY <1>1, <2>4 DEF Codes
    <3>3. Done(k + 1) = Done(k) \cup ({k - n} \cap Codes(t))
      BY <1>1, <2>4
    <3> HIDE DEF Done
    <3>4. Next1(lay, k) = LayCode(lay, k - n)
      BY <2>4 DEF Next1, LayNext
    <3>5. QED
      BY <1>1, <1>8, <2>1, <3>1, <3>2, <3>3, <3>4, LayCodeStep
  <2>5. QED
    BY <2>3, <2>4
<1>9. Laying(t, f[0], Done(0))
  <2>1. Done(0) = {}
    BY <1>1
  <2>2. QED
    BY <1>3, <1>7, <2>1
<1> HIDE DEF Done
<1>10. ASSUME NEW k \in Nat, k < 2 * n, Laying(t, f[k], Done(k))
       PROVE  /\ f[k + 1] = Next1(f[k], k)
              /\ Laying(t, f[k + 1], Done(k + 1))
  <2>1. Laying(t, Next1(f[k], k), Done(k + 1))
    BY <1>8, <1>10
  <2>2. Next1(f[k], k) \in Layouts /\ f[k] \in Layouts
    BY <1>10, <2>1 DEF Laying
  <2>3. k + 1 \in 1 .. 2 * n /\ (k + 1) - 1 = k
    BY <1>1, <1>10
  <2>4. f[k + 1] = Next1(f[k], k)
    BY <1>5, <1>7, <2>2, <2>3
  <2>5. QED
    BY <2>1, <2>4
<1> DEFINE S == {k \in Nat : k <= 2 * n => Laying(t, f[k], Done(k))}
<1>11. \A k \in S : k <= 2 * n => Laying(t, f[k], Done(k))
  OBVIOUS
<1>12. S = Nat
  <2>1. 0 \in S
    BY <1>9
  <2>2. ASSUME NEW k \in S PROVE k + 1 \in S
    <3> SUFFICES ASSUME k + 1 <= 2 * n PROVE Laying(t, f[k + 1], Done(k + 1))
      OBVIOUS
    <3>1. k < 2 * n /\ k <= 2 * n /\ k \in Nat
      BY <1>1
    <3>2. QED
      BY <1>10, <1>11, <3>1
  <2>3. S \in SUBSET Nat
    OBVIOUS
  <2> HIDE DEF S
  <2>4. QED
    BY <2>1, <2>2, <2>3, AllNumbers
<1> HIDE DEF S
<1>13. \A k \in 0 .. 2 * n : Laying(t, f[k], Done(k))
  BY <1>11, <1>12
<1>14. \A k \in 1 .. 2 * n : f[k] = Next1(f[k - 1], k - 1)
  <2>1. \A k \in 1 .. 2 * n :
          k - 1 \in Nat /\ k - 1 < 2 * n /\ k - 1 \in 0 .. 2 * n
            /\ (k - 1) + 1 = k
    BY <1>1
  <2>2. QED
    BY <1>10, <1>13, <2>1
<1>15. Rec(f)
  <2>1. \A k \in 0 .. 2 * n : k # 0 => k \in 1 .. 2 * n
    BY <1>1
  <2>2. \A k \in 0 .. 2 * n : f[k] = IF k = 0 THEN start
                                     ELSE Next1(f[k - 1], k - 1)
    BY <1>7, <1>14, <2>1
  <2>3. QED
    BY <2>2
<1>16. Rec(Passes(t))
  <2>1. Passes(t) = CHOOSE h : Rec(h)
    BY DEF Passes, start, n, Next1
  <2> HIDE DEF Rec
  <2>2. QED
    BY <1>15, <2>1
<1>17. Passes(t)[2 * n] = f[2 * n]
  <2> DEFINE h == Passes(t)
  <2> HIDE DEF h
  <2>1. h[0] = start
    BY <1>1, <1>16 DEF h
  <2>2. \A k \in 1 .. 2 * n : h[k] = Next1(h[k - 1], k - 1)
    BY <1>1, <1>16 DEF h
  <2>3. InStep(f, h, 2 * n)
    BY <1>7, <1>14, <2>1, <2>2 DEF InStep
  <2>4. f[2 * n] = h[2 * n]
    BY <1>1, <2>3, SameRecursion
  <2>5. QED
    BY <2>4 DEF h
<1>18. Laying(t, f[2 * n], Done(2 * n))
  BY <1>1, <1>13
<1>19. Done(2 * n) = {i \in Watches(t) \cup Codes(t) : i < n}
  BY <1>1 DEF Done
<1>20. QED
  BY <1>17, <1>18, <1>19 DEF layoutBreakpoints, n

(* What a layout does to a table. *)
LEMMA LayoutProperties ==
  ASSUME NEW t, Typed(t)
  PROVE  LET lay == layoutBreakpoints(t) IN
         /\ lay.hadroom \in BOOLEAN
         /\ Typed(lay.table)
         /\ LastIndex(lay.table) = LastIndex(t)
         /\ Listed(lay.table) = Listed(t)
         /\ \A i \in Index : Kept(t[i], lay.table[i])
         /\ lay.hadroom =>
              \A i \in Index : /\ lay.table[i].enabled = t[i].enabled
                               /\ lay.table[i].toadd = t[i].toadd
         /\ \A i \in Listed(t) :
              Pending(lay.table[i]) /\ lay.table[i].bpnum = Software
                => lay.table[i].type = "CODE"
         /\ lay.hadroom \/ ~NoSoftBp => LaidOut(lay.table)
<1> DEFINE lay == layoutBreakpoints(t)
           n == LastIndex(t)
           u == lay.table
           done == {i \in Watches(t) \cup Codes(t) : i < n}
<1>1. Laying(t, lay, done)
  BY PassesLaying
<1> HIDE DEF lay, n
<1>2. /\ u \in [Index -> Entry] /\ lay.hadroom \in BOOLEAN
      /\ \A i \in Index : Kept(t[i], u[i])
      /\ lay.hadroom => \A i \in Index : /\ u[i].enabled = t[i].enabled
                                         /\ u[i].toadd = t[i].toadd
  BY <1>1 DEF Laying, Layouts
<1>3. MaxTotal - 1 \in Index /\ t \in [Index -> Entry] /\ Listed(t) \subseteq Index
  BY ListedProperties DEF Typed
<1>4. Typed(u)
  BY <1>2, <1>3 DEF Typed, Kept
<1>5. LastIndex(u) = LastIndex(t) /\ Listed(u) = Listed(t)
  BY <1>2, SameList DEF Kept
<1>6. \A i \in Listed(t) : Pending(u[i]) => i \in done
  <2> SUFFICES ASSUME NEW i \in Listed(t), Pending(u[i]) PROVE i \in done
    OBVIOUS
  <2>1. t[i].enabled /\ i \in Index
    BY <1>2, <1>3 DEF Kept, Pending
  <2>2. t[i] \in Entry /\ t[i].type # "NONE"
    BY <1>3, <2>1 DEF Typed
  <2>3. i \in Watches(t) \cup Codes(t)
    BY <2>1, <2>2 DEF Entry, Watches, Codes
  <2>4. i < n
    BY <2>1, ListedProperties DEF n
  <2>5. QED
    BY <2>3, <2>4
<1>7. \A i \in Listed(t) : Pending(u[i]) /\ u[i].bpnum = Software
        => u[i].type = "CODE"
  BY <1>1, <1>2, <1>3, <1>6 DEF Laying, Kept
<1>8. ASSUME lay.hadroom \/ ~NoSoftBp
      PROVE  LaidOut(u)
  <2> SUFFICES ASSUME NEW i \in Listed(u), Pending(u[i])
               PROVE  /\ \/ u[i].bpnum \in Usable
                         \/ u[i].bpnum = Software /\ u[i].type = "CODE"
                      /\ \A j \in Listed(u) :
                           j # i /\ (Pending(u[j]) \/ Stable(u[j]))
                             /\ u[i].bpnum = u[j].bpnum
                             => u[i].bpnum = Software
    BY DEF LaidOut
  <2>1. /\ i \in done
        /\ u[i].bpnum \in FreeSlots(t) \cup {Software}
        /\ \A j \in done : j # i /\ Pending(u[j]) /\ u[j].bpnum = u[i].bpnum
             => u[i].bpnum = Software
    BY <1>1, <1>5, <1>6, <1>8 DEF Laying
  <2>2. \/ u[i].bpnum \in Usable
        \/ u[i].bpnum = Software /\ u[i].type = "CODE"
    BY <1>5, <1>7, <2>1, SlotFacts
  <2>3. ASSUME NEW j \in Listed(u), Stable(u[j]), u[i].bpnum = u[j].bpnum
        PROVE  u[i].bpnum = Software
    <3>1. Kept(t[j], u[j]) /\ ~(t[j].icestatus /\ t[j].toadd) /\ j \in Listed(t)
      BY <1>2, <1>3, <1>5 DEF Typed
    <3>2. Stable(t[j]) /\ t[j].bpnum = u[j].bpnum
      BY <2>3, <3>1 DEF Kept, Stable, Pending
    <3>3. u[i].bpnum \notin FreeSlots(t)
      BY <2>3, <3>1, <3>2 DEF FreeSlots
    <3>4. QED
      BY <2>1, <3>3
  <2>4. QED
    BY <1>5, <1>6, <2>1, <2>2, <2>3
<1>9. QED
  BY <1>2, <1>4, <1>5, <1>7, <1>8 DEF lay

-----------------------------------------------------------------------------
(* addBreakpoint() and deleteBreakpoint(): finding the entry.              *)

(* The end of the list is the first end mark. *)
LEMMA LastIndexIs ==
  ASSUME NEW t, Typed(t), NEW m \in Index, t[m].last,
         \A j \in Index : j < m => ~t[j].last
  PROVE  LastIndex(t) = m
<1>1. /\ LastIndex(t) \in Index /\ t[LastIndex(t)].last
      /\ \A i \in Listed(t) : ~t[i].last
      /\ \A i \in Index : i \in Listed(t) <=> i < LastIndex(t)
  BY ListedProperties
<1>2. \A i \in Index : i \in Nat
  BY DEF Index
<1>3. ~(LastIndex(t) < m) /\ ~(m < LastIndex(t))
  BY <1>1
<1>4. QED
  BY <1>1, <1>2, <1>3

LEMMA FindProperties ==
  ASSUME NEW t, Typed(t), NEW address, NEW type
  PROVE  LET i == Find(t, address, type) IN
         /\ i \in Index
         /\ \/ i \in Listed(t) /\ Is(t[i], address, type)
            \/ /\ i = LastIndex(t)
               /\ \A j \in Listed(t) : ~Is(t[j], address, type)
<1> DEFINE S == {i \in Index :
                   t[i].last \/ (i \in Listed(t) /\ Is(t[i], address, type))}
           L == LastIndex(t)
<1>1. /\ L \in Index /\ t[L].last /\ Listed(t) \subseteq Index
      /\ \A i \in Index : i \in Listed(t) <=> i < L
      /\ \A i \in Listed(t) : ~t[i].last
      /\ \A i \in Index : i \in Nat
  BY ListedProperties DEF Index
<1> HIDE DEF L
<1>2. S \in SUBSET Nat /\ L \in S
  BY <1>1
<1>3. Min(S) \in S /\ \A n \in S : Min(S) <= n
  BY <1>2, MinIsLeast
<1>4. Find(t, address, type) = Min(S)
  BY DEF Find
<1>5. CASE Min(S) \in Listed(t)
  BY <1>1, <1>3, <1>4, <1>5
<1>6. CASE Min(S) \notin Listed(t)
  <2>1. Min(S) = L
    BY <1>1, <1>2, <1>3, <1>6
  <2>2. \A j \in Listed(t) : j \in Index /\ j < L
    BY <1>1
  <2>3. \A j \in Listed(t) : j \notin S
    BY <1>1, <1>3, <2>1, <2>2
  <2>4. QED
    BY <1>1, <1>4, <2>1, <2>2, <2>3 DEF L
<1>7. QED
  BY <1>5, <1>6

LEMMA EntryForProperties ==
  ASSUME NEW t, Typed(t), NEW address, NEW type
  PROVE  LET i == EntryFor(t, address, type) IN
         /\ i \in Index
         /\ i + 1 # MaxTotal =>
              \/ i \in Listed(t) /\ Is(t[i], address, type)
              \/ /\ \A j \in Listed(t) : ~Is(t[j], address, type)
                 /\ \/ i = LastIndex(t)
                    \/ i \in Listed(t) /\ ~t[i].enabled /\ ~t[i].toremove
<1> DEFINE f == Find(t, address, type)
           S == {k \in Index : ~t[k].enabled /\ ~t[k].toremove}
<1>1. /\ f \in Index
      /\ \/ f \in Listed(t) /\ Is(t[f], address, type)
         \/ /\ f = LastIndex(t)
            /\ \A j \in Listed(t) : ~Is(t[j], address, type)
  BY FindProperties
<1>2. EntryFor(t, address, type) = IF f + 1 # MaxTotal THEN f ELSE Min(S)
  BY DEF EntryFor
<1> HIDE DEF f
<1>3. CASE f + 1 # MaxTotal
  BY <1>1, <1>2, <1>3
<1>4. CASE f + 1 = MaxTotal
  <2>1. /\ MaxTotal - 1 \in Index /\ MaxTotal - 1 \notin Listed(t)
        /\ \A i \in Index : i \in Listed(t) <=> i < LastIndex(t)
        /\ \A i \in Index : i \in Nat /\ i <= MaxTotal - 1
        /\ MaxTotal \in Nat
    BY ListedProperties, TableAssumption DEF Index
  <2>2. f = MaxTotal - 1 /\ LastIndex(t) = MaxTotal - 1
        /\ \A j \in Listed(t) : ~Is(t[j], address, type)
    BY <1>1, <1>4, <2>1
  <2>3. S \in SUBSET Nat /\ MaxTotal - 1 \in S
    BY <2>1 DEF Typed
  <2>4. Min(S) \in S
    BY <2>3, MinIsLeast
  <2>5. Min(S) + 1 # MaxTotal => Min(S) \in Listed(t)
    BY <2>1, <2>2, <2>4
  <2>6. QED
    BY <1>2, <1>4, <2>2, <2>4, <2>5
<1>5. QED
  BY <1>3, <1>4

(* An address GDB, or the single-step code, may ask a breakpoint at. *)
Askable(address, type) ==
  /\ type \in WatchTypes \cup {"CODE", "DATA_MASK"}
  /\ address \in Int \cup CodeAddrs \cup DataAddrs
  /\ type = "CODE" => address \in CodeAddrs

(* The entry a breakpoint is written to, the others as they were but for   *)
(* a new end mark.                                                         *)
LEMMA EnterProperties ==
  ASSUME NEW t, Typed(t), NEW address, NEW type, Askable(address, type),
         NEW i \in Listed(t) \cup {LastIndex(t)}, i + 1 # MaxTotal
  PROVE  LET u == Enter(t, i, address, type) IN
         /\ Typed(u) /\ i \in Index
         /\ Listed(u) = Listed(t) \cup {i}
         /\ u[i].address = address /\ u[i].type = type /\ u[i].enabled
         /\ \A j \in Index :
              /\ u[j].icestatus = t[j].icestatus /\ u[j].toadd = t[j].toadd
              /\ u[j].toremove = t[j].toremove /\ u[j].bpnum = t[j].bpnum
         /\ \A j \in Index \ {i} :
              \/ u[j] = t[j]
              \/ j = i + 1 /\ i = LastIndex(t) /\ j \notin Listed(u)
                 /\ ~u[j].enabled
<1> DEFINE u == Enter(t, i, address, type)
           e(j) == [t[j] EXCEPT !.last = FALSE, !.enabled = TRUE,
                                !.address = address, !.type = type]
           mark(j) == [t[j] EXCEPT !.last = TRUE, !.enabled = FALSE,
                                   !.address = 0, !.type = "NONE"]
<1>0. type # "NONE" /\ (type = "CODE" => address \in CodeAddrs)
  BY DEF Askable, WatchTypes
<1>1. /\ t \in [Index -> Entry]
      /\ i \in Index /\ i + 1 \in Index /\ i \in Nat /\ i + 1 # i
      /\ LastIndex(t) \in Index /\ t[LastIndex(t)].last
      /\ \A j \in Index : j \in Listed(t) <=> j < LastIndex(t)
      /\ \A j \in Listed(t) : ~t[j].last
      /\ MaxTotal - 1 \in Index /\ i # MaxTotal - 1
      /\ \A j \in Index : j \in Nat /\ t[j].last \in BOOLEAN
      /\ Listed(t) \subseteq Index
      /\ t[MaxTotal - 1].last
      /\ ~t[MaxTotal - 1].enabled /\ ~t[MaxTotal - 1].toremove
      /\ \A j \in Index : /\ (t[j].enabled => t[j].type # "NONE")
                          /\ (t[j].type = "CODE" => t[j].address \in CodeAddrs)
                          /\ ~(t[j].icestatus /\ t[j].toadd)
  <2>1. /\ LastIndex(t) \in Index /\ t[LastIndex(t)].last
        /\ \A j \in Index : j \in Listed(t) <=> j < LastIndex(t)
        /\ \A j \in Listed(t) : ~t[j].last
        /\ Listed(t) \subseteq Index
        /\ MaxTotal - 1 \in Index
    BY ListedProperties
  <2>2. i \in Index
    BY <2>1
  <2>3. \A j \in Index : j \in Nat /\ j <= MaxTotal - 1
    BY TableAssumption DEF Index
  <2>4. i + 1 \in Index /\ i \in Nat /\ i + 1 # i /\ i # MaxTotal - 1
    BY <2>2, TableAssumption DEF Index
  <2>5. t \in [Index -> Entry]
    BY DEF Typed
  <2>6. \A j \in Index : t[j].last \in BOOLEAN
    BY <2>5 DEF Entry
  <2>7. QED
    BY <2>1, <2>2, <2>3, <2>4, <2>5, <2>6 DEF Typed
<1>2. \A j \in Index :
        /\ e(j) \in Entry /\ mark(j) \in Entry
        /\ e(j).address = address /\ e(j).type = type
        /\ e(j).enabled = TRUE /\ e(j).last = FALSE
        /\ mark(j).last = TRUE /\ mark(j).enabled = FALSE
        /\ mark(j).address = 0 /\ mark(j).type = "NONE"
        /\ e(j).icestatus = t[j].icestatus /\ e(j).toadd = t[j].toadd
        /\ e(j).toremove = t[j].toremove /\ e(j).bpnum = t[j].bpnum
        /\ mark(j).icestatus = t[j].icestatus /\ mark(j).toadd = t[j].toadd
        /\ mark(j).toremove = t[j].toremove /\ mark(j).bpnum = t[j].bpnum
  <2> SUFFICES ASSUME NEW j \in Index
               PROVE  /\ e(j) \in Entry /\ mark(j) \in Entry
                      /\ e(j).address = address /\ e(j).type = type
                      /\ e(j).enabled = TRUE /\ e(j).last = FALSE
                      /\ mark(j).last = TRUE /\ mark(j).enabled = FALSE
                      /\ mark(j).address = 0 /\ mark(j).type = "NONE"
                      /\ e(j).icestatus = t[j].icestatus
                      /\ e(j).toadd = t[j].toadd
                      /\ e(j).toremove = t[j].toremove
                      /\ e(j).bpnum = t[j].bpnum
                      /\ mark(j).icestatus = t[j].icestatus
                      /\ mark(j).toadd = t[j].toadd
                      /\ mark(j).toremove = t[j].toremove
                      /\ mark(j).bpnum = t[j].bpnum
    OBVIOUS
  <2>1. t[j] \in Entry
    BY <1>1
  <2>2. e(j) \in Entry
    BY <2>1 DEF Entry, Askable
  <2>3. mark(j) \in Entry
    <3>1. 0 \in Int \cup CodeAddrs \cup DataAddrs
      OBVIOUS
    <3>2. "NONE" \in WatchTypes \cup {"NONE", "CODE", "DATA_MASK"}
      OBVIOUS
    <3>3. QED
      BY <2>1, <3>1, <3>2 DEF Entry
  <2>4. /\ e(j).address = address /\ e(j).type = type
        /\ e(j).enabled = TRUE /\ e(j).last = FALSE
        /\ e(j).icestatus = t[j].icestatus /\ e(j).toadd = t[j].toadd
        /\ e(j).toremove = t[j].toremove /\ e(j).bpnum = t[j].bpnum
    BY <2>1 DEF Entry
  <2>5. /\ mark(j).last = TRUE /\ mark(j).enabled = FALSE
        /\ mark(j).address = 0 /\ mark(j).type = "NONE"
        /\ mark(j).icestatus = t[j].icestatus /\ mark(j).toadd = t[j].toadd
        /\ mark(j).toremove = t[j].toremove /\ mark(j).bpnum = t[j].bpnum
    BY <2>1 DEF Entry
  <2>6. QED
    BY <2>2, <2>3, <2>4, <2>5
<1> HIDE DEF e, mark
<1>3. CASE i \in Listed(t)
  <2>1. u = [j \in Index |-> IF j = i THEN e(i) ELSE t[j]]
    BY <1>1, <1>3 DEF Enter, e
  <2> HIDE DEF u
  <2>2. u \in [Index -> Entry] /\ u[i] = e(i)
        /\ \A j \in Index \ {i} : u[j] = t[j]
    BY <1>1, <1>2, <2>1
  <2>3. \A j \in Index : u[j].last = t[j].last
    <3>1. t[i].last = FALSE /\ u[i].last = FALSE
      BY <1>1, <1>2, <1>3, <2>2
    <3>2. QED
      BY <2>2, <3>1
  <2>4. Listed(u) = Listed(t) \cup {i}
    BY <1>3, <2>3, SameList
  <2>5. Typed(u)
    <3>1. /\ u[MaxTotal - 1].last
          /\ ~u[MaxTotal - 1].enabled /\ ~u[MaxTotal - 1].toremove
      BY <1>1, <2>2
    <3>2. ASSUME NEW j \in Index
          PROVE  /\ u[j].enabled => u[j].type # "NONE"
                 /\ u[j].type = "CODE" => u[j].address \in CodeAddrs
                 /\ ~(u[j].icestatus /\ u[j].toadd)
      <4>1. CASE j = i
        BY <1>1, <1>2, <2>2, <4>1, <1>0
      <4>2. CASE j # i
        BY <1>1, <2>2, <4>2
      <4>3. QED
        BY <4>1, <4>2
    <3>3. QED
      BY <2>2, <3>1, <3>2 DEF Typed
  <2>6. QED
    BY <1>1, <1>2, <2>2, <2>4, <2>5 DEF u
<1>4. CASE i = LastIndex(t)
  <2>1. u = [j \in Index |-> IF j = i THEN e(i)
                             ELSE IF j = i + 1 THEN mark(i + 1) ELSE t[j]]
    <3>1. t[i].last
      BY <1>1, <1>4
    <3>2. QED
      BY <1>1, <3>1 DEF Enter, e, mark
  <2> HIDE DEF u
  <2>2. /\ u \in [Index -> Entry] /\ u[i] = e(i) /\ u[i + 1] = mark(i + 1)
        /\ \A j \in Index \ {i, i + 1} : u[j] = t[j]
    BY <1>1, <1>2, <2>1
  <2>3. \A j \in Index : /\ u[j].icestatus = t[j].icestatus
                         /\ u[j].toadd = t[j].toadd
                         /\ u[j].toremove = t[j].toremove
                         /\ u[j].bpnum = t[j].bpnum
    BY <1>1, <1>2, <2>2
  <2>4. /\ u[MaxTotal - 1].last
        /\ ~u[MaxTotal - 1].enabled /\ ~u[MaxTotal - 1].toremove
    <3>1. CASE MaxTotal - 1 = i + 1
      BY <1>1, <1>2, <2>2, <2>3, <3>1
    <3>2. CASE MaxTotal - 1 # i + 1
      BY <1>1, <2>2, <3>2
    <3>3. QED
      BY <3>1, <3>2
  <2>5. ASSUME NEW j \in Index
        PROVE  /\ u[j].enabled => u[j].type # "NONE"
               /\ u[j].type = "CODE" => u[j].address \in CodeAddrs
               /\ ~(u[j].icestatus /\ u[j].toadd)
    <3>1. CASE j = i
      BY <1>1, <1>2, <2>2, <3>1, <1>0
    <3>2. CASE j = i + 1
      BY <1>1, <1>2, <2>2, <3>2
    <3>3. CASE j \notin {i, i + 1}
      BY <1>1, <2>2, <3>3
    <3>4. QED
      BY <3>1, <3>2, <3>3
  <2>6. Typed(u)
    BY <2>2, <2>4, <2>5 DEF Typed
  <2>7. LastIndex(u) = i + 1
    <3>1. u[i + 1].last
      BY <1>1, <1>2, <2>2
    <3>2. \A j \in Index : j < i + 1 => ~u[j].last
      BY <1>1, <1>2, <1>4, <2>2
    <3>3. QED
      BY <1>1, <2>6, <3>1, <3>2, LastIndexIs
  <2>8. \A j \in Index : j \in Listed(u) <=> j < i + 1
    BY <2>6, <2>7, ListedProperties
  <2>9. Listed(u) = Listed(t) \cup {i}
    <3>1. Listed(u) \subseteq Index
      BY <2>6, ListedProperties
    <3>2. \A j \in Index : j < i + 1 <=> j < i \/ j = i
      BY <1>1
    <3>3. QED
      BY <1>1, <1>4, <2>8, <3>1, <3>2
  <2>10. ~u[i + 1].enabled /\ i + 1 \notin Listed(u)
    BY <1>1, <1>2, <2>2, <2>8
  <2>11. QED
    BY <1>1, <1>2, <1>4, <2>2, <2>3, <2>6, <2>9, <2>10 DEF u
<1>5. QED
  BY <1>3, <1>4

-----------------------------------------------------------------------------
(* addBreakpoint() and deleteBreakpoint(): what they leave typed.          *)

LEMMA DisableTyped ==
  ASSUME NEW t, Typed(t), NEW i \in Index
  PROVE  Typed(Disable(t, i)) /\ Listed(Disable(t, i)) = Listed(t)
<1> DEFINE u == Disable(t, i)
<1>1. t \in [Index -> Entry] /\ MaxTotal - 1 \in Index
  BY ListedProperties DEF Typed
<1>2. /\ u \in [Index -> Entry]
      /\ \A j \in Index :
           /\ u[j].address = t[j].address /\ u[j].type = t[j].type
           /\ u[j].last = t[j].last /\ u[j].icestatus = t[j].icestatus
           /\ u[j].toremove = t[j].toremove
           /\ (u[j].enabled => t[j].enabled) /\ (u[j].toadd => t[j].toadd)
  BY <1>1, DisableProperties
<1> HIDE DEF u
<1>3. Typed(u)
  BY <1>1, <1>2 DEF Typed
<1>4. Listed(u) = Listed(t)
  BY <1>2, SameList
<1>5. QED
  BY <1>3, <1>4 DEF u

(* The table before the layout. *)
LEMMA MarkProperties ==
  ASSUME NEW t, Typed(t), NEW i \in Listed(t)
  PROVE  LET m == MarkForDownload(t, i) IN
         /\ Typed(m) /\ Listed(m) = Listed(t)
         /\ \A j \in Index \ {i} : m[j] = t[j]
         /\ m[i].address = t[i].address /\ m[i].type = t[i].type
         /\ m[i].enabled = t[i].enabled /\ m[i].icestatus = t[i].icestatus
         /\ m[i].bpnum = t[i].bpnum
         /\ m[i].toadd = ~t[i].icestatus /\ m[i].toremove = FALSE
<1> DEFINE m == MarkForDownload(t, i)
           e == [t[i] EXCEPT !.toadd = ~t[i].icestatus, !.toremove = FALSE]
<1>1. /\ t \in [Index -> Entry] /\ i \in Index /\ MaxTotal - 1 \in Index
      /\ i # MaxTotal - 1
  BY ListedProperties DEF Typed
<1>2. t[i] \in Entry
  BY <1>1
<1>3. e \in Entry
  BY <1>2 DEF Entry
<1>4. /\ e.address = t[i].address /\ e.type = t[i].type /\ e.last = t[i].last
      /\ e.enabled = t[i].enabled /\ e.icestatus = t[i].icestatus
      /\ e.bpnum = t[i].bpnum
      /\ e.toadd = ~t[i].icestatus /\ e.toremove = FALSE
  BY <1>2 DEF Entry
<1>5. m = [j \in Index |-> IF j = i THEN e ELSE t[j]]
  BY <1>1 DEF MarkForDownload
<1> HIDE DEF e, m
<1>6. m \in [Index -> Entry] /\ m[i] = e /\ \A j \in Index \ {i} : m[j] = t[j]
  BY <1>1, <1>3, <1>5
<1>7. Typed(m)
  BY <1>1, <1>4, <1>6 DEF Typed
<1>8. Listed(m) = Listed(t)
  BY <1>4, <1>6, SameList
<1>9. QED
  BY <1>4, <1>6, <1>7, <1>8 DEF m

LEMMA FitTyped ==
  ASSUME NEW t, Typed(t), NEW i \in Listed(t)
  PROVE  /\ Typed(Fit(t, i).table) /\ Fit(t, i).ok \in BOOLEAN
         /\ Listed(Fit(t, i).table) = Listed(t)
         /\ Fit(t, i).ok =>
              /\ layoutBreakpoints(MarkForDownload(t, i)).hadroom
              /\ Fit(t, i).table
                   = layoutBreakpoints(MarkForDownload(t, i)).table
<1> DEFINE m == MarkForDownload(t, i)
           lay == layoutBreakpoints(m)
           off == Disable(lay.table, i)
<1>1. Typed(m) /\ Listed(m) = Listed(t) /\ i \in Index
  BY MarkProperties, ListedProperties
<1> HIDE DEF m
<1>2. /\ lay.hadroom \in BOOLEAN /\ Typed(lay.table)
      /\ Listed(lay.table) = Listed(t)
  BY <1>1, LayoutProperties
<1> HIDE DEF lay
<1>3. Typed(off) /\ Listed(off) = Listed(t)
  BY <1>1, <1>2, DisableTyped
<1>4. off[i].mask_pointer \in Index
  <2>1. off[i] \in Entry
    BY <1>1, <1>3 DEF Typed
  <2>2. QED
    BY <2>1 DEF Entry
<1>5. Fit(t, i) =
        IF lay.hadroom THEN Result(lay.table, TRUE)
        ELSE Result(IF off[i].has_mask THEN Disable(off, off[i].mask_pointer)
                    ELSE off, FALSE)
  BY DEF Fit, lay, m
<1> HIDE DEF off
<1>6. /\ Typed(Disable(off, off[i].mask_pointer))
      /\ Listed(Disable(off, off[i].mask_pointer)) = Listed(t)
  BY <1>3, <1>4, DisableTyped
<1>7. CASE lay.hadroom
  <2>1. Fit(t, i).table = lay.table /\ Fit(t, i).ok = TRUE
    BY <1>5, <1>7 DEF Result
  <2>2. QED
    BY <1>2, <1>7, <2>1 DEF lay, m
<1>8. CASE ~lay.hadroom
  <2>1. /\ Fit(t, i).table \in {off, Disable(off, off[i].mask_pointer)}
        /\ Fit(t, i).ok = FALSE
    BY <1>5, <1>8 DEF Result
  <2>2. QED
    BY <1>3, <1>6, <2>1
<1>9. QED
  BY <1>7, <1>8

-----------------------------------------------------------------------------
(* What stays as it was.                                                   *)

(* What the table says is in the box. *)
SameHeld(t, u) ==
  \A j \in Index :
    /\ u[j].icestatus = t[j].icestatus
    /\ t[j].icestatus => /\ u[j].address = t[j].address
                         /\ u[j].type = t[j].type
                         /\ u[j].bpnum = t[j].bpnum

LEMMA SameHeldInBox ==
  ASSUME NEW t, NEW u, SameHeld(t, u), InBox(t)
  PROVE  InBox(u)
<1>1. \A i \in Index : u[i].icestatus => HeldByIce(u[i])
  BY DEF SameHeld, InBox, HeldByIce, Asked
<1>2. \A s \in Slots : ice[s].type # "NONE" =>
        \E i \in Index : u[i].icestatus /\ u[i].bpnum = s
  BY DEF SameHeld, InBox
<1>3. \A a \in iceSoft :
        \E i \in Index : /\ u[i].icestatus /\ u[i].bpnum = Software
                         /\ Is(u[i], a, "CODE")
  BY DEF SameHeld, InBox, Is
<1>4. QED
  BY <1>1, <1>2, <1>3 DEF InBox

LEMMA SameHeldTwice ==
  ASSUME NEW t, NEW u, NEW v, SameHeld(t, u), SameHeld(u, v)
  PROVE  SameHeld(t, v)
BY DEF SameHeld

(* Entries set alike are the same breakpoints. *)
LEMMA SameOn ==
  ASSUME NEW t, NEW u,
         \A j \in Index : /\ u[j].enabled <=> t[j].enabled
                          /\ u[j].address = t[j].address
                          /\ u[j].type = t[j].type
  PROVE  On(u) = On(t)
<1>1. {j \in Index : u[j].enabled} = {j \in Index : t[j].enabled}
  OBVIOUS
<1>2. \A j \in Index : Asked(u[j]) = Asked(t[j])
  BY DEF Asked
<1>3. QED
  BY <1>1, <1>2 DEF On

(* A layout that had room for all moves only what is not in the box. *)
LEMMA LayoutSound ==
  ASSUME NEW t, Typed(t), NEW X, Sound(t, X), layoutBreakpoints(t).hadroom
  PROVE  LET u == layoutBreakpoints(t).table IN
         Sound(u, X) /\ SameHeld(t, u) /\ On(u) = On(t)
<1> DEFINE u == layoutBreakpoints(t).table
<1>1. /\ Typed(u) /\ Listed(u) = Listed(t) /\ Listed(t) \subseteq Index
      /\ \A i \in Index : Kept(t[i], u[i])
      /\ \A i \in Index : u[i].enabled = t[i].enabled /\ u[i].toadd = t[i].toadd
  BY LayoutProperties, ListedProperties
<1> HIDE DEF u
<1>2. \A i \in Index :
        /\ u[i].address = t[i].address /\ u[i].type = t[i].type
        /\ u[i].icestatus = t[i].icestatus /\ u[i].toremove = t[i].toremove
        /\ u[i].bpnum # t[i].bpnum => t[i].enabled /\ t[i].toadd
  BY <1>1 DEF Kept, Pending
<1>3. \A i \in Index : ~(t[i].icestatus /\ t[i].toadd)
  BY DEF Typed
<1>4. SameHeld(t, u)
  BY <1>2, <1>3 DEF SameHeld
<1>5. On(u) = On(t)
  BY <1>1, <1>2, SameOn
<1>6. ASSUME NEW i \in Listed(u)
      PROVE  InIceOK(u[i]) /\ (i \in X \/ MarksOK(u[i]))
  <2>1. i \in Index /\ i \in Listed(t)
    BY <1>1
  <2>2. InIceOK(t[i]) /\ (i \in X \/ MarksOK(t[i]))
    BY <2>1 DEF Sound
  <2>3. InIceOK(u[i])
    BY <1>2, <1>3, <2>1, <2>2 DEF InIceOK, AutoRemoved, HardCode
  <2>4. CASE MarksOK(t[i])
    <3>1. u[i].toremove => u[i].bpnum = t[i].bpnum
      BY <1>2, <2>1, <2>4 DEF MarksOK
    <3>2. MarksOK(u[i])
      BY <1>1, <1>2, <2>1, <2>4, <3>1 DEF MarksOK, AutoRemoved, HardCode
    <3>3. QED
      BY <2>3, <3>2
  <2>5. QED
    BY <2>2, <2>3, <2>4
<1>7. \A i \in Index \ Listed(u) : Idle(u[i])
  BY <1>1, <1>2 DEF Sound, Idle
<1>8. Unique(u)
  BY <1>1, <1>2 DEF Sound, Unique, Is
<1>9. QED
  BY <1>4, <1>5, <1>6, <1>7, <1>8 DEF Sound, u

(* Marking an entry for download makes its marks right, and a fit keeps    *)
(* all that is in the box where it is.                                     *)
LEMMA FitSound ==
  ASSUME NEW t, Typed(t), NEW X, Sound(t, X), NEW i \in Listed(t),
         t[i].enabled, Fit(t, i).ok
  PROVE  LET u == Fit(t, i).table IN
         /\ Sound(u, X \ {i}) /\ SameHeld(t, u) /\ On(u) = On(t)
         /\ \A j \in Index : u[j].enabled = t[j].enabled
<1> DEFINE m == MarkForDownload(t, i)
           lay == layoutBreakpoints(m)
<1>1. /\ Typed(m) /\ Listed(m) = Listed(t)
      /\ \A j \in Index \ {i} : m[j] = t[j]
      /\ m[i].address = t[i].address /\ m[i].type = t[i].type
      /\ m[i].enabled = t[i].enabled /\ m[i].icestatus = t[i].icestatus
      /\ m[i].bpnum = t[i].bpnum
      /\ m[i].toadd = ~t[i].icestatus /\ m[i].toremove = FALSE
  BY MarkProperties
<1>0. Listed(t) \subseteq Index
  BY ListedProperties
<1>2. lay.hadroom /\ Fit(t, i).table = lay.table
  BY FitTyped
<1> HIDE DEF m
<1>3. Sound(m, X \ {i})
  <2>1. ASSUME NEW j \in Listed(m)
        PROVE  InIceOK(m[j]) /\ (j \in X \ {i} \/ MarksOK(m[j]))
    <3>1. InIceOK(t[j]) /\ (j \in X \/ MarksOK(t[j])) /\ j \in Index
      BY <1>0, <1>1 DEF Sound
    <3>2. CASE j = i
      BY <1>0, <1>1, <3>1, <3>2 DEF InIceOK, MarksOK, AutoRemoved, HardCode
    <3>3. CASE j # i
      BY <1>0, <1>1, <3>1, <3>3
    <3>4. QED
      BY <3>2, <3>3
  <2>2. \A j \in Index \ Listed(m) : Idle(m[j])
    BY <1>0, <1>1 DEF Sound
  <2>3. Unique(m)
    BY <1>0, <1>1 DEF Sound, Unique, Is
  <2>4. QED
    BY <2>1, <2>2, <2>3 DEF Sound
<1>4. SameHeld(t, m)
  BY <1>0, <1>1 DEF SameHeld
<1>5. On(m) = On(t)
  BY <1>0, <1>1, SameOn
<1>6. /\ Sound(lay.table, X \ {i}) /\ SameHeld(m, lay.table)
      /\ On(lay.table) = On(m)
  BY <1>0, <1>1, <1>2, <1>3, LayoutSound
<1>7. \A j \in Index : lay.table[j].enabled = m[j].enabled
  BY <1>0, <1>1, <1>2, LayoutProperties
<1> HIDE DEF lay
<1>8. QED
  BY <1>0, <1>1, <1>2, <1>4, <1>5, <1>6, <1>7, SameHeldTwice

(* Entering a breakpoint leaves what is in the box alone. *)
LEMMA EnterSound ==
  ASSUME NEW t, Typed(t), NEW X, Sound(t, X),
         \A x \in X : x \in Index => t[x].enabled,
         NEW address, NEW type, Askable(address, type),
         NEW i, i = EntryFor(t, address, type), i + 1 # MaxTotal
  PROVE  LET u == Enter(t, i, address, type) IN
         /\ Typed(u) /\ i \in Listed(u) /\ Listed(t) \subseteq Listed(u)
         /\ Sound(u, X \cup {i}) /\ SameHeld(t, u)
         /\ On(u) = On(t) \cup {[type |-> type, address |-> address]}
         /\ \A j \in Index : t[j].enabled => u[j].enabled
         /\ u[i].enabled
<1> DEFINE u == Enter(t, i, address, type)
           L == LastIndex(t)
<1>1. /\ L \in Index /\ Listed(t) \subseteq Index /\ L \notin Listed(t)
      /\ \A j \in Index : j \in Listed(t) <=> j < L
      /\ \A j \in Index : j \in Nat
  BY ListedProperties DEF Index
<1>2. /\ i \in Index
      /\ \/ i \in Listed(t) /\ Is(t[i], address, type)
         \/ /\ \A j \in Listed(t) : ~Is(t[j], address, type)
            /\ i = L \/ (i \in Listed(t) /\ ~t[i].enabled /\ ~t[i].toremove)
  BY EntryForProperties
<1>3. i \in Listed(t) \cup {LastIndex(t)}
  BY <1>2
<1> HIDE DEF L
<1>4. /\ Typed(u) /\ Listed(u) = Listed(t) \cup {i}
      /\ u[i].address = address /\ u[i].type = type /\ u[i].enabled
      /\ \A j \in Index :
           /\ u[j].icestatus = t[j].icestatus /\ u[j].toadd = t[j].toadd
           /\ u[j].toremove = t[j].toremove /\ u[j].bpnum = t[j].bpnum
      /\ \A j \in Index \ {i} :
           \/ u[j] = t[j]
           \/ /\ j = i + 1 /\ i = LastIndex(t) /\ j \notin Listed(u)
              /\ ~u[j].enabled
  BY <1>2, <1>3, EnterProperties
<1> HIDE DEF u
<1>5. \A j \in Index \ Listed(t) : Idle(t[j])
  BY DEF Sound
<1>6. \A j \in Index \ {i} :
        \/ u[j] = t[j]
        \/ j \notin Listed(t) /\ j \notin Listed(u) /\ ~u[j].enabled
  BY <1>1, <1>4 DEF L
(* Either the breakpoint's own entry, or one that is not set nor in the box. *)
<1>7. \/ Is(t[i], address, type) /\ i \in Listed(t)
      \/ /\ ~t[i].enabled /\ ~t[i].icestatus
         /\ \A j \in Listed(t) : ~Is(t[j], address, type)
  <2>1. CASE i = L
    BY <1>1, <1>2, <1>5, <2>1 DEF Idle
  <2>2. CASE i \in Listed(t) /\ ~t[i].enabled /\ ~t[i].toremove
    <3>1. MarksOK(t[i])
      BY <1>1, <2>2 DEF Sound
    <3>2. ~t[i].icestatus
      BY <2>2, <3>1 DEF MarksOK
    <3>3. QED
      BY <1>2, <2>2, <3>2
  <2>3. QED
    BY <1>2, <2>1, <2>2
<1>8. SameHeld(t, u)
  <2> SUFFICES ASSUME NEW j \in Index
               PROVE  /\ u[j].icestatus = t[j].icestatus
                      /\ t[j].icestatus => /\ u[j].address = t[j].address
                                           /\ u[j].type = t[j].type
                                           /\ u[j].bpnum = t[j].bpnum
    BY DEF SameHeld
  <2>1. CASE j = i
    BY <1>4, <1>7, <2>1 DEF Is
  <2>2. CASE j # i
    BY <1>4, <1>5, <1>6, <2>2 DEF Idle
  <2>3. QED
    BY <2>1, <2>2
<1>9. \A j \in Index : u[j].enabled <=> t[j].enabled \/ j = i
  <2> SUFFICES ASSUME NEW j \in Index, j # i
               PROVE  u[j].enabled <=> t[j].enabled
    BY <1>4
  <2>1. QED
    BY <1>5, <1>6 DEF Idle
<1>10. On(u) = On(t) \cup {[type |-> type, address |-> address]}
  <2>1. Asked(u[i]) = [type |-> type, address |-> address]
    BY <1>4 DEF Asked
  <2>2. \A j \in Index : t[j].enabled => Asked(u[j]) = Asked(t[j])
    BY <1>4, <1>5, <1>6, <1>7 DEF Asked, Is, Idle
  <2>3. \A b \in On(u) : b \in On(t) \cup {[type |-> type, address |-> address]}
    BY <1>9, <2>1, <2>2 DEF On
  <2>4. \A b \in On(t) : b \in On(u)
    BY <1>9, <2>2 DEF On
  <2>5. [type |-> type, address |-> address] \in On(u)
    BY <1>2, <1>9, <2>1 DEF On
  <2>6. QED
    BY <2>3, <2>4, <2>5
<1>11. Sound(u, X \cup {i})
  <2>1. ASSUME NEW j \in Listed(u)
        PROVE  InIceOK(u[j]) /\ (j \in X \cup {i} \/ MarksOK(u[j]))
    <3>1. CASE j = i
      <4>1. u[i].icestatus => InIceOK(t[i]) /\ t[i].icestatus
        BY <1>1, <1>2, <1>4, <1>7 DEF Sound
      <4>2. u[i].icestatus => /\ u[i].address = t[i].address
                              /\ u[i].type = t[i].type
                              /\ u[i].bpnum = t[i].bpnum
        BY <1>2, <1>4, <1>8 DEF SameHeld
      <4>3. InIceOK(u[i])
        BY <4>1, <4>2 DEF InIceOK, AutoRemoved, HardCode
      <4>4. QED
        BY <3>1, <4>3
    <3>2. CASE j # i
      <4>1. j \in Listed(t) /\ u[j] = t[j]
        BY <1>1, <1>4, <1>6, <3>2
      <4>2. QED
        BY <4>1 DEF Sound
    <3>3. QED
      BY <3>1, <3>2
  <2>2. ASSUME NEW j \in Index \ Listed(u)
        PROVE  Idle(u[j])
    <3>1. j # i /\ j \in Index \ Listed(t)
      BY <1>4
    <3>2. Idle(t[j])
      BY <1>5, <3>1
    <3>3. QED
      BY <1>4, <1>6, <3>1, <3>2 DEF Idle
  <2>3. Unique(u)
    <3> SUFFICES ASSUME NEW j \in Listed(u), NEW k \in Listed(u),
                        Is(u[j], u[k].address, u[k].type)
                 PROVE  j = k
      BY DEF Unique
    <3>1. \A h \in Listed(u) : h # i => h \in Listed(t) /\ u[h] = t[h]
      BY <1>1, <1>4, <1>6
    <3>2. CASE Is(t[i], address, type) /\ i \in Listed(t)
      <4>1. \A h \in Listed(u) : /\ h \in Listed(t)
                                 /\ u[h].address = t[h].address
                                 /\ u[h].type = t[h].type
        BY <1>4, <3>1, <3>2 DEF Is
      <4>2. QED
        BY <4>1 DEF Sound, Unique, Is
    <3>3. CASE \A h \in Listed(t) : ~Is(t[h], address, type)
      BY <1>4, <3>1, <3>3 DEF Sound, Unique, Is
    <3>4. QED
      BY <1>7, <3>2, <3>3
  <2>4. QED
    BY <2>1, <2>2, <2>3 DEF Sound
<1>12. QED
  BY <1>4, <1>8, <1>9, <1>10, <1>11 DEF u

LEMMA EnterTyped ==
  ASSUME NEW t, Typed(t), NEW address, NEW type, Askable(address, type),
         NEW i, i = EntryFor(t, address, type), i + 1 # MaxTotal
  PROVE  LET u == Enter(t, i, address, type) IN
         /\ Typed(u) /\ i \in Listed(u) /\ Listed(t) \subseteq Listed(u)
         /\ i \in Index
<1>1. i \in Listed(t) \cup {LastIndex(t)}
  BY EntryForProperties
<1>2. QED
  BY <1>1, EnterProperties

(* addBreakpoint() of one entry. *)
LEMMA AddPlainTyped ==
  ASSUME NEW t, Typed(t), NEW address, NEW type, Askable(address, type)
  PROVE  LET r == AddPlain(t, address, type) IN
         /\ Typed(r.table) /\ r.ok \in BOOLEAN
         /\ Listed(t) \subseteq Listed(r.table)
<1> DEFINE i == EntryFor(t, address, type)
           u == Enter(t, i, address, type)
<1>1. CASE i + 1 = MaxTotal
  BY <1>1 DEF AddPlain, Result
<1>2. CASE i + 1 # MaxTotal
  <2>1. Typed(u) /\ i \in Listed(u) /\ Listed(t) \subseteq Listed(u)
    BY <1>2, EnterTyped
  <2>2. AddPlain(t, address, type) = Fit(u, i)
    BY <1>2 DEF AddPlain
  <2> HIDE DEF u, i
  <2>3. QED
    BY <2>1, <2>2, FitTyped
<1>3. QED
  BY <1>1, <1>2

LEMMA AddPlainSound ==
  ASSUME NEW t, Typed(t), NEW X, Sound(t, X),
         \A x \in X : x \in Index => t[x].enabled,
         NEW address, NEW type, Askable(address, type),
         AddPlain(t, address, type).ok
  PROVE  LET u == AddPlain(t, address, type).table IN
         /\ Sound(u, X) /\ SameHeld(t, u)
         /\ On(u) = On(t) \cup {[type |-> type, address |-> address]}
         /\ \A j \in Index : t[j].enabled => u[j].enabled
<1> DEFINE i == EntryFor(t, address, type)
           in == Enter(t, i, address, type)
           u == Fit(in, i).table
<1>1. i + 1 # MaxTotal /\ AddPlain(t, address, type) = Fit(in, i)
  BY DEF AddPlain, Result
<1>2. /\ Typed(in) /\ i \in Listed(in)
      /\ Sound(in, X \cup {i}) /\ SameHeld(t, in)
      /\ On(in) = On(t) \cup {[type |-> type, address |-> address]}
      /\ \A j \in Index : t[j].enabled => in[j].enabled
      /\ in[i].enabled
  BY <1>1, EnterSound
<1> HIDE DEF in, i
<1>3. /\ Sound(u, (X \cup {i}) \ {i}) /\ SameHeld(in, u) /\ On(u) = On(in)
      /\ \A j \in Index : u[j].enabled = in[j].enabled
  BY <1>1, <1>2, FitSound
<1> HIDE DEF u
<1>4. Sound(u, X)
  BY <1>3 DEF Sound
<1>5. SameHeld(t, u)
  BY <1>2, <1>3, SameHeldTwice
<1>6. QED
  BY <1>1, <1>2, <1>3, <1>4, <1>5 DEF u

(* An entry given up becomes the end mark. *)
LEMMA AbandonTyped ==
  ASSUME NEW t, Typed(t), NEW i \in Index
  PROVE  /\ Typed(Abandon(t, i))
         /\ Typed([Abandon(t, i) EXCEPT ![i].has_mask = TRUE])
<1> DEFINE u == Abandon(t, i)
           v == [u EXCEPT ![i].has_mask = TRUE]
           e == [t[i] EXCEPT !.last = TRUE, !.enabled = FALSE]
           d == [e EXCEPT !.has_mask = TRUE]
<1>1. t \in [Index -> Entry] /\ MaxTotal - 1 \in Index
  BY ListedProperties DEF Typed
<1>2. t[i] \in Entry
  BY <1>1
<1>3. e \in Entry
  BY <1>2 DEF Entry
<1>4. d \in Entry
  BY <1>3 DEF Entry
<1>5. /\ e.address = t[i].address /\ e.type = t[i].type /\ e.last = TRUE
      /\ e.enabled = FALSE /\ e.icestatus = t[i].icestatus
      /\ e.toadd = t[i].toadd /\ e.toremove = t[i].toremove
  BY <1>2 DEF Entry
<1>6. /\ d.address = t[i].address /\ d.type = t[i].type /\ d.last = TRUE
      /\ d.enabled = FALSE /\ d.icestatus = t[i].icestatus
      /\ d.toadd = t[i].toadd /\ d.toremove = t[i].toremove
  BY <1>3, <1>5 DEF Entry
<1>7. u = [j \in Index |-> IF j = i THEN e ELSE t[j]]
  BY <1>1 DEF Abandon
<1> HIDE DEF e, u
<1>8. v = [j \in Index |-> IF j = i THEN d ELSE t[j]]
  BY <1>1, <1>7
<1> HIDE DEF d, v
<1>9. /\ u \in [Index -> Entry] /\ u[i] = e /\ \A j \in Index \ {i} : u[j] = t[j]
      /\ v \in [Index -> Entry] /\ v[i] = d /\ \A j \in Index \ {i} : v[j] = t[j]
  BY <1>1, <1>3, <1>4, <1>7, <1>8
<1>10. Typed(u)
  BY <1>1, <1>5, <1>9 DEF Typed
<1>11. Typed(v)
  BY <1>1, <1>6, <1>9 DEF Typed
<1>12. QED
  BY <1>10, <1>11 DEF u, v

(* The pointer to the mask changes nothing else. *)
LEMMA PointTyped ==
  ASSUME NEW t, Typed(t), NEW i \in Index, NEW p \in Index
  PROVE  LET u == [t EXCEPT ![i].mask_pointer = p] IN
         /\ Typed(u) /\ Listed(u) = Listed(t)
         /\ \A j \in Index :
              /\ u[j].address = t[j].address /\ u[j].type = t[j].type
              /\ u[j].enabled = t[j].enabled /\ u[j].icestatus = t[j].icestatus
              /\ u[j].bpnum = t[j].bpnum /\ u[j].toadd = t[j].toadd
              /\ u[j].toremove = t[j].toremove
<1> DEFINE u == [t EXCEPT ![i].mask_pointer = p]
           e == [t[i] EXCEPT !.mask_pointer = p]
<1>1. t \in [Index -> Entry] /\ MaxTotal - 1 \in Index
  BY ListedProperties DEF Typed
<1>2. t[i] \in Entry
  BY <1>1
<1>3. e \in Entry
  BY <1>2 DEF Entry
<1>4. /\ e.address = t[i].address /\ e.type = t[i].type /\ e.last = t[i].last
      /\ e.enabled = t[i].enabled /\ e.icestatus = t[i].icestatus
      /\ e.bpnum = t[i].bpnum
      /\ e.toadd = t[i].toadd /\ e.toremove = t[i].toremove
  BY <1>2 DEF Entry
<1>5. u = [j \in Index |-> IF j = i THEN e ELSE t[j]]
  BY <1>1
<1> HIDE DEF e, u
<1>6. u \in [Index -> Entry] /\ u[i] = e /\ \A j \in Index \ {i} : u[j] = t[j]
  BY <1>1, <1>3, <1>5
<1>7. \A j \in Index :
        /\ u[j].address = t[j].address /\ u[j].type = t[j].type
        /\ u[j].enabled = t[j].enabled /\ u[j].icestatus = t[j].icestatus
        /\ u[j].bpnum = t[j].bpnum /\ u[j].toadd = t[j].toadd
        /\ u[j].toremove = t[j].toremove /\ u[j].last = t[j].last
  BY <1>4, <1>6
<1>8. Typed(u)
  BY <1>1, <1>6, <1>7 DEF Typed
<1>9. Listed(u) = Listed(t)
  BY <1>7, SameList
<1>10. QED
  BY <1>7, <1>8, <1>9 DEF u

LEMMA MaskIndexIs ==
  ASSUME NEW t, Typed(t), NEW i, NEW mask
  PROVE  MaskIndex(t, i, mask) \in Index
<1> DEFINE S == {j \in Index :
                   \/ t[j].last
                   \/ t[j].type = "DATA_MASK" /\ t[i].address = mask}
<1>0. Index \subseteq Nat
  BY DEF Index
<1>1. MaxTotal - 1 \in Index /\ t[MaxTotal - 1].last
  BY ListedProperties DEF Typed
<1>2. S \in SUBSET Nat /\ S # {}
  BY <1>0, <1>1
<1>3. Min(S) \in S
  BY <1>2, MinIsLeast
<1>4. MaskIndex(t, i, mask) = Min(S)
  BY DEF MaskIndex
<1>5. QED
  BY <1>3, <1>4

(* addBreakpoint() of a range watchpoint: its entry, that of its mask, and *)
(* the layout of both.                                                     *)
LEMMA AddRangeProperties ==
  ASSUME NEW t, Typed(t), NEW address, NEW type, Askable(address, type),
         NEW length \in Nat
  PROVE  LET r == AddRange(t, address, type, length) IN
         /\ Typed(r.table) /\ r.ok \in BOOLEAN
         /\ r.ok /\ Sound(t, {}) => Sound(r.table, {}) /\ SameHeld(t, r.table)
<1> DEFINE i == EntryFor(t, address, type)
           in == Enter(t, i, address, type)
           masked == AddPlain(in, -length, "DATA_MASK")
           p == MaskIndex(masked.table, i, -length)
           to == [masked.table EXCEPT ![i].mask_pointer = p]
           aligned == PowerOf2(length) /\ address % length = 0
           r == AddRange(t, address, type, length)
<1>1. CASE i + 1 = MaxTotal
  <2>1. r = Result(t, FALSE)
    BY <1>1 DEF AddRange
  <2>2. QED
    BY <2>1 DEF Result
<1>2. CASE i + 1 # MaxTotal
  <2>1. Typed(in) /\ i \in Listed(in) /\ i \in Index
    BY <1>2, EnterTyped
  <2>2. Askable(-length, "DATA_MASK")
    BY DEF Askable
  <2>3. CASE ~aligned
    <3>1. r = Result(Abandon(in, i), FALSE)
      BY <1>2, <2>3 DEF AddRange
    <3>2. Typed(Abandon(in, i))
      BY <2>1, AbandonTyped
    <3>3. QED
      BY <3>1, <3>2 DEF Result
  <2>4. CASE aligned
    <3>1. r = IF ~masked.ok
              THEN Result([Abandon(masked.table, i) EXCEPT ![i].has_mask = TRUE],
                          FALSE)
              ELSE Fit(to, i)
      BY <1>2, <2>4 DEF AddRange
    <3> DEFINE entered == Sound(t, {}) =>
                 Sound(in, {i}) /\ SameHeld(t, in) /\ in[i].enabled
    <3>2. entered
      <4>1. ASSUME Sound(t, {})
            PROVE  Sound(in, {} \cup {i}) /\ SameHeld(t, in) /\ in[i].enabled
        BY <1>2, <4>1, EnterSound
      <4>2. {} \cup {i} = {i}
        OBVIOUS
      <4>3. QED
        BY <4>1, <4>2
    <3> HIDE DEF in, i, r
    <3>3. /\ Typed(masked.table) /\ masked.ok \in BOOLEAN
          /\ i \in Listed(masked.table)
      BY <2>1, <2>2, AddPlainTyped
    <3>4. ASSUME masked.ok, Sound(t, {})
          PROVE  /\ Sound(masked.table, {i}) /\ SameHeld(t, masked.table)
                 /\ masked.table[i].enabled
      <4>1. \A x \in {i} : x \in Index => in[x].enabled
        BY <3>2, <3>4
      <4>2. /\ Sound(masked.table, {i}) /\ SameHeld(in, masked.table)
            /\ \A j \in Index : in[j].enabled => masked.table[j].enabled
        BY <2>1, <2>2, <3>2, <3>4, <4>1, AddPlainSound
      <4>3. QED
        BY <2>1, <3>2, <3>4, <4>2, SameHeldTwice
    <3> HIDE DEF masked
    <3>5. p \in Index
      BY <3>3, MaskIndexIs
    <3> HIDE DEF p
    <3>6. /\ Typed(to) /\ i \in Listed(to)
          /\ Listed(to) = Listed(masked.table)
          /\ \A j \in Index :
               /\ to[j].address = masked.table[j].address
               /\ to[j].type = masked.table[j].type
               /\ to[j].enabled = masked.table[j].enabled
               /\ to[j].icestatus = masked.table[j].icestatus
               /\ to[j].bpnum = masked.table[j].bpnum
               /\ to[j].toadd = masked.table[j].toadd
               /\ to[j].toremove = masked.table[j].toremove
      BY <2>1, <3>3, <3>5, PointTyped
    <3> HIDE DEF to
    <3>7. CASE ~masked.ok
      <4>1. Typed([Abandon(masked.table, i) EXCEPT ![i].has_mask = TRUE])
        BY <2>1, <3>3, AbandonTyped
      <4>2. QED
        BY <3>1, <3>7, <4>1 DEF Result, r
    <3>8. CASE masked.ok
      <4>1. r = Fit(to, i) /\ Typed(r.table) /\ r.ok \in BOOLEAN
        BY <3>1, <3>6, <3>8, FitTyped
      <4>2. ASSUME Sound(t, {}), r.ok
            PROVE  Sound(r.table, {}) /\ SameHeld(t, r.table)
        <5>1. /\ Sound(masked.table, {i}) /\ SameHeld(t, masked.table)
              /\ masked.table[i].enabled
          BY <3>4, <3>8, <4>2
        <5>2. SameHeld(t, to)
          BY <3>6, <5>1 DEF SameHeld
        <5>3. Sound(to, {i})
          <6>1. Listed(masked.table) \subseteq Index
            BY <3>3, ListedProperties
          <6>2. \A j \in Index :
                  /\ InIceOK(masked.table[j]) => InIceOK(to[j])
                  /\ MarksOK(masked.table[j]) => MarksOK(to[j])
                  /\ Idle(masked.table[j]) => Idle(to[j])
            BY <3>6 DEF InIceOK, MarksOK, Idle, AutoRemoved, HardCode
          <6>3. Unique(to)
            BY <3>6, <5>1, <6>1 DEF Sound, Unique, Is
          <6>4. QED
            BY <3>6, <5>1, <6>1, <6>2, <6>3 DEF Sound
        <5>4. to[i].enabled
          BY <2>1, <3>6, <5>1
        <5>5. Sound(r.table, {i} \ {i}) /\ SameHeld(to, r.table)
          BY <3>6, <4>1, <4>2, <5>3, <5>4, FitSound
        <5>6. {i} \ {i} = {}
          OBVIOUS
        <5>7. QED
          BY <5>2, <5>5, <5>6, SameHeldTwice
      <4>3. QED
        BY <4>1, <4>2 DEF r
    <3>9. QED
      BY <3>3, <3>7, <3>8 DEF r
  <2>5. QED
    BY <2>3, <2>4
<1>3. QED
  BY <1>1, <1>2

(* What GDB asks for. *)
LEMMA RequestProperties ==
  ASSUME NEW r \in Requests
  PROVE  /\ Askable(r.address, r.type)
         /\ r = [type |-> r.type, address |-> r.address]
         /\ LengthsOf(r) \subseteq Nat
         /\ OneByte => \A length \in LengthsOf(r) :
                         ~(length > 1 /\ r.type \in WatchTypes)
<1>1. CASE r \in [type : {"CODE"}, address : CodeAddrs]
  BY <1>1 DEF Askable, LengthsOf, WatchTypes
<1>2. CASE r \in [type : DataTypes, address : DataAddrs]
  <2>1. r.type \in WatchTypes /\ r.address \in DataAddrs /\ r.type # "CODE"
    BY <1>2, TableAssumption DEF WatchTypes
  <2>2. LengthsOf(r) = Lengths
    BY <2>1 DEF LengthsOf
  <2>3. r = [type |-> r.type, address |-> r.address]
    BY <1>2
  <2>4. Lengths \subseteq Nat
    BY TableAssumption
  <2>5. OneByte => \A length \in Lengths : ~(length > 1)
    BY DEF OneByte
  <2>6. QED
    BY <2>1, <2>2, <2>3, <2>4, <2>5 DEF Askable
<1>3. QED
  BY <1>1, <1>2 DEF Requests

LEMMA AddProperties ==
  ASSUME NEW t, Typed(t), NEW r \in Requests, NEW length \in LengthsOf(r)
  PROVE  LET added == addBreakpoint(t, r.address, r.type, length) IN
         /\ Typed(added.table) /\ added.ok \in BOOLEAN
         /\ added.ok /\ Sound(t, {}) =>
              /\ Sound(added.table, {}) /\ SameHeld(t, added.table)
              /\ OneByte => On(added.table) = On(t) \cup {r}
<1>1. /\ Askable(r.address, r.type) /\ length \in Nat
      /\ r = [type |-> r.type, address |-> r.address]
      /\ OneByte => ~(length > 1 /\ r.type \in WatchTypes)
  BY RequestProperties
<1> DEFINE added == addBreakpoint(t, r.address, r.type, length)
<1>2. CASE length > 1 /\ r.type \in WatchTypes
  <2>1. added = AddRange(t, r.address, r.type, length)
    BY <1>2 DEF addBreakpoint
  <2> HIDE DEF added
  <2>2. QED
    BY <1>1, <1>2, <2>1, AddRangeProperties DEF added
<1>3. CASE ~(length > 1 /\ r.type \in WatchTypes)
  <2>1. added = AddPlain(t, r.address, r.type)
    BY <1>3 DEF addBreakpoint
  <2>2. Typed(added.table) /\ added.ok \in BOOLEAN
    BY <1>1, <2>1, AddPlainTyped
  <2>3. ASSUME added.ok, Sound(t, {})
        PROVE  /\ Sound(added.table, {}) /\ SameHeld(t, added.table)
               /\ On(added.table) = On(t) \cup {r}
    <3>1. \A x \in {} : x \in Index => t[x].enabled
      OBVIOUS
    <3>2. AddPlain(t, r.address, r.type).ok
      BY <2>1, <2>3
    <3>3. /\ Sound(added.table, {}) /\ SameHeld(t, added.table)
          /\ On(added.table)
               = On(t) \cup {[type |-> r.type, address |-> r.address]}
      BY <1>1, <2>1, <2>3, <3>1, <3>2, AddPlainSound
    <3>4. QED
      BY <1>1, <3>3
  <2>4. QED
    BY <2>2, <2>3
<1>4. QED
  BY <1>2, <1>3

(* deleteBreakpoint() *)
LEMMA DeleteProperties ==
  ASSUME NEW t, Typed(t), NEW address, NEW type
  PROVE  LET u == deleteBreakpoint(t, address, type) IN
         /\ Typed(u)
         /\ \A j \in Index : /\ u[j].icestatus = t[j].icestatus
                             /\ u[j].bpnum = t[j].bpnum
         /\ Sound(t, {}) =>
              /\ Sound(u, {}) /\ SameHeld(t, u)
              /\ On(u) = On(t) \ {[type |-> type, address |-> address]}
<1> DEFINE i == Find(t, address, type)
           u == deleteBreakpoint(t, address, type)
           e == [t[i] EXCEPT !.enabled = FALSE, !.toadd = FALSE,
                             !.toremove = t[i].icestatus]
           b == [type |-> type, address |-> address]
<1>1. /\ i \in Index /\ Listed(t) \subseteq Index
      /\ t \in [Index -> Entry] /\ MaxTotal - 1 \in Index
      /\ MaxTotal - 1 \notin Listed(t)
      /\ \/ i \in Listed(t) /\ Is(t[i], address, type)
         \/ /\ i = LastIndex(t) /\ i \notin Listed(t)
            /\ \A j \in Listed(t) : ~Is(t[j], address, type)
  <2>1. /\ i \in Index
        /\ \/ i \in Listed(t) /\ Is(t[i], address, type)
           \/ /\ i = LastIndex(t)
              /\ \A j \in Listed(t) : ~Is(t[j], address, type)
    BY FindProperties
  <2>2. /\ Listed(t) \subseteq Index /\ t \in [Index -> Entry]
        /\ MaxTotal - 1 \in Index /\ MaxTotal - 1 \notin Listed(t)
    BY ListedProperties DEF Typed
  <2>3. LastIndex(t) \notin Listed(t)
    BY ListedProperties
  <2>4. QED
    BY <2>1, <2>2, <2>3
<1> HIDE DEF i
<1>2. ASSUME Sound(t, {})
      PROVE  \A j \in Index : t[j].enabled => j \in Listed(t)
  BY <1>2 DEF Sound, Idle
<1>3. CASE i \notin Listed(t)
  <2>1. u = t
    BY <1>3 DEF deleteBreakpoint, i
  <2>2. ASSUME Sound(t, {})
        PROVE  b \notin On(t)
    <3>1. \A j \in Index : t[j].enabled => ~Is(t[j], address, type)
      BY <1>1, <1>2, <1>3, <2>2
    <3>2. QED
      BY <3>1 DEF On, Asked, Is
  <2>3. SameHeld(t, t)
    BY DEF SameHeld
  <2>4. QED
    BY <2>1, <2>2, <2>3
<1>4. CASE i \in Listed(t)
  <2>1. t[i] \in Entry /\ Is(t[i], address, type)
    BY <1>1, <1>4
  <2>2. e \in Entry
    BY <2>1 DEF Entry
  <2>3. /\ e.address = t[i].address /\ e.type = t[i].type
        /\ e.last = t[i].last /\ e.icestatus = t[i].icestatus
        /\ e.bpnum = t[i].bpnum /\ e.enabled = FALSE /\ e.toadd = FALSE
        /\ e.toremove = t[i].icestatus
    BY <2>1 DEF Entry
  <2>4. u = [j \in Index |-> IF j = i THEN e ELSE t[j]]
    BY <1>1, <1>4 DEF deleteBreakpoint, i
  <2> HIDE DEF e, u
  <2>5. u \in [Index -> Entry] /\ u[i] = e /\ \A j \in Index \ {i} : u[j] = t[j]
    BY <1>1, <2>2, <2>4
  <2>6. /\ \A j \in Index :
             /\ u[j].address = t[j].address /\ u[j].type = t[j].type
             /\ u[j].last = t[j].last /\ u[j].icestatus = t[j].icestatus
             /\ u[j].bpnum = t[j].bpnum
        /\ \A j \in Index : u[j].enabled <=> t[j].enabled /\ j # i
    BY <2>3, <2>5
  <2>7. Typed(u)
    BY <1>1, <1>4, <2>3, <2>5 DEF Typed
  <2>8. Listed(u) = Listed(t)
    BY <2>6, SameList
  <2>9. ASSUME Sound(t, {})
        PROVE  Sound(u, {})
    <3>1. ASSUME NEW j \in Listed(u)
          PROVE  InIceOK(u[j]) /\ MarksOK(u[j])
      <4>1. InIceOK(t[j]) /\ MarksOK(t[j]) /\ j \in Index
        BY <1>1, <2>8, <2>9 DEF Sound
      <4>2. CASE j = i
        BY <2>3, <2>5, <4>1, <4>2
           DEF InIceOK, MarksOK, AutoRemoved, HardCode
      <4>3. CASE j # i
        BY <2>5, <4>1, <4>3
      <4>4. QED
        BY <4>2, <4>3
    <3>2. \A j \in Index \ Listed(u) : Idle(u[j])
      BY <1>4, <2>5, <2>8, <2>9 DEF Sound
    <3>3. Unique(u)
      BY <1>1, <2>6, <2>8, <2>9 DEF Sound, Unique, Is
    <3>4. QED
      BY <3>1, <3>2, <3>3 DEF Sound
  <2>10. SameHeld(t, u)
    BY <2>6 DEF SameHeld
  <2>11. ASSUME Sound(t, {})
         PROVE  On(u) = On(t) \ {b}
    <3>1. \A j \in Index : Asked(u[j]) = Asked(t[j])
      BY <2>6 DEF Asked
    <3>2. \A j \in Index : t[j].enabled => (Asked(t[j]) = b <=> j = i)
      BY <1>2, <1>4, <2>1, <2>11 DEF Sound, Unique, Is, Asked
    <3>3. \A c \in On(u) : c \in On(t) \ {b}
      BY <2>6, <3>1, <3>2 DEF On
    <3>4. \A c \in On(t) \ {b} : c \in On(u)
      BY <2>6, <3>1, <3>2 DEF On
    <3>5. QED
      BY <3>3, <3>4
  <2>12. QED
    BY <2>6, <2>7, <2>9, <2>10, <2>11 DEF u
<1>5. QED
  BY <1>3, <1>4

-----------------------------------------------------------------------------
(* The inductive invariant holds: the steps that are not an update.        *)

(* The table after a step. *)
LEMMA TableNext ==
  ASSUME UNCHANGED setting, NEW u, bp' = u
  PROVE  /\ Typed(u) => Typed(bp)'
         /\ Sound(u, {}) => Sound(bp, {})'
         /\ LaidOut(u) => LaidOut(bp)'
         /\ On(bp)' = On(u)
         /\ InBox(bp) /\ SameHeld(bp, u) /\ UNCHANGED <<ice, iceSoft>>
              => InBox(bp)'
<1>1. Typed(u) => Typed(bp)'
  BY DEF Typed
<1>2. Sound(u, {}) => Sound(bp, {})'
  BY DEF Sound, InIceOK, MarksOK, Idle, Unique, AutoRemoved, HardCode,
         BoxRemoves, is_xmega, Box, FullXmega, Listed, LastIndex
<1>3. LaidOut(u) => LaidOut(bp)'
  BY DEF LaidOut, Usable, softbp_only, is_xmega, Listed, LastIndex
<1>4. On(bp)' = On(u)
  BY DEF On
<1>5. ASSUME InBox(bp), SameHeld(bp, u), UNCHANGED <<ice, iceSoft>>
      PROVE  InBox(bp)'
  <2>1. InBox(u)
    BY <1>5, SameHeldInBox
  <2>2. QED
    BY <1>5, <2>1 DEF InBox, HeldByIce
<1>6. QED
  BY <1>1, <1>2, <1>3, <1>4, <1>5

LEMMA DefaultEntry == default_bp \in Entry
<1>1. 0 \in Index
  BY TableAssumption DEF Index
<1>2. QED
  BY <1>1 DEF default_bp, Entry, Software

LEMMA InitInv ==
  ASSUME Init
  PROVE  IInv
<1>1. MaxTotal \in Nat /\ 0 \in Index /\ MaxTotal - 1 \in Index
  BY TableAssumption DEF Index
<1>2. default_bp \in Entry
  BY DefaultEntry
<1>3. /\ default_bp.type = "NONE" /\ default_bp.enabled = FALSE
      /\ default_bp.last = TRUE /\ default_bp.icestatus = FALSE
      /\ default_bp.toremove = FALSE /\ default_bp.toadd = FALSE
  BY DEF default_bp
<1> HIDE DEF default_bp
<1>4. bp \in [Index -> Entry] /\ \A i \in Index : bp[i] = default_bp
  BY <1>2 DEF Init
<1>5. ice \in [Slots -> Entry] /\ \A s \in Slots : ice[s] = default_bp
  BY <1>2 DEF Init
<1>6. Typed(bp)
  BY <1>1, <1>3, <1>4 DEF Typed
<1>7. LastIndex(bp) = 0 /\ Listed(bp) = {}
  <2>1. \A j \in Index : ~(j < 0)
    BY DEF Index
  <2>2. LastIndex(bp) = 0
    BY <1>1, <1>3, <1>4, <1>6, <2>1, LastIndexIs
  <2>3. QED
    BY <2>2 DEF Listed
<1>8. TypeOK
  <2>1. bp \in [Index -> Entry] /\ ice \in [Slots -> Entry]
    BY <1>4, <1>5
  <2>2. \E i \in Index : bp[i].last
    BY <1>1, <1>3, <1>4
  <2>3. /\ setting \in Settings /\ phase = "stopped" /\ momentary = NoAddr
        /\ iceSoft = {} /\ iceXmega = {} /\ wanted = {} /\ refused = FALSE
        /\ xmega_bps = <<>>
    BY DEF Init
  <2>4. xmega_bps \in Seq(CodeAddrs)
    BY <2>3
  <2>5. QED
    BY <2>1, <2>2, <2>3, <2>4 DEF TypeOK
<1>9. Sound(bp, {})
  BY <1>3, <1>4, <1>7 DEF Sound, Idle, Unique
<1>10. InBox(bp)
  BY <1>3, <1>4, <1>5 DEF InBox, Init
<1>11. On(bp) = {} /\ Due = {}
  BY <1>3, <1>4 DEF On, Due, Init
<1>12. PendingOK /\ XmegaOK /\ MomentaryOK
  BY DEF PendingOK, XmegaOK, MomentaryOK, Updating, Init
<1>13. SoundOK
  BY <1>9, <1>10, <1>11 DEF SoundOK, AskedOK, Init
<1>14. QED
  BY <1>6, <1>8, <1>12, <1>13 DEF IInv

(* The target is stopped, or stays so. *)
LEMMA StoppedInv ==
  ASSUME TypeOK, XmegaOK, phase \in {"stopped", "running"},
         Typed(bp'), phase' = "stopped", momentary' = NoAddr,
         refused' \in BOOLEAN, wanted' \subseteq Requests,
         iceXmega' \in {iceXmega, {}},
         UNCHANGED <<setting, xmega_bps, ice, iceSoft>>,
         ~refused' => /\ Sound(bp', {}) /\ SameHeld(bp, bp') /\ InBox(bp)
                      /\ OneByte => On(bp') = wanted'
  PROVE  IInv'
<1>1. /\ Typed(bp)' /\ On(bp)' = On(bp')
      /\ Sound(bp', {}) => Sound(bp, {})'
      /\ InBox(bp) /\ SameHeld(bp, bp') => InBox(bp)'
  BY TableNext
<1>2. bp' \in [Index -> Entry] /\ \E i \in Index : bp'[i].last
  BY ListedProperties DEF Typed
<1>3. TypeOK'
  BY <1>2 DEF TypeOK
<1>4. PendingOK' /\ MomentaryOK'
  BY DEF PendingOK, MomentaryOK, Updating
<1>5. XmegaOK'
  BY DEF XmegaOK, BoxRemoves, is_xmega, Box, FullXmega
<1>6. ASSUME ~refused'
      PROVE  SoundOK'
  <2>1. Sound(bp, {})' /\ InBox(bp)' /\ (OneByte => On(bp)' = wanted')
    BY <1>1, <1>6
  <2>2. Due' = wanted'
    BY DEF Due
  <2>3. AskedOK'
    BY <2>1, <2>2 DEF AskedOK, OneByte
  <2>4. QED
    BY <2>1, <2>3 DEF SoundOK
<1>7. QED
  BY <1>1, <1>3, <1>4, <1>5, <1>6 DEF IInv

(* The target is to be run. *)
LEMMA StartUpdateInv ==
  ASSUME TypeOK, XmegaOK, phase \in {"stopped", "running"},
         NEW t, Typed(t), StartUpdate(t),
         momentary' \in CodeAddrs \cup {NoAddr},
         iceXmega' \in {iceXmega, {}},
         UNCHANGED <<setting, xmega_bps, ice, iceSoft, wanted>>,
         ~refused =>
           /\ Sound(t, {}) /\ SameHeld(bp, t) /\ InBox(bp)
           /\ OneByte =>
                /\ On(t) = Due'
                /\ momentary' # NoAddr =>
                     [type |-> "CODE", address |-> momentary'] \notin wanted
  PROVE  IInv'
<1> DEFINE lay == layoutBreakpoints(t)
<1>1. /\ bp' = lay.table /\ phase' = "clearing"
      /\ refused' = (refused \/ ~lay.hadroom)
  BY DEF StartUpdate
<1>2. /\ lay.hadroom \in BOOLEAN /\ Typed(lay.table)
      /\ Listed(lay.table) = Listed(t)
      /\ \A i \in Listed(t) :
           Pending(lay.table[i]) /\ lay.table[i].bpnum = Software
             => lay.table[i].type = "CODE"
      /\ lay.hadroom \/ ~NoSoftBp => LaidOut(lay.table)
  BY LayoutProperties
<1>3. ASSUME lay.hadroom, Sound(t, {})
      PROVE  /\ Sound(lay.table, {}) /\ SameHeld(t, lay.table)
             /\ On(lay.table) = On(t)
  BY <1>3, LayoutSound
<1> HIDE DEF lay
<1>4. /\ Typed(bp)' /\ On(bp)' = On(lay.table)
      /\ Sound(lay.table, {}) => Sound(bp, {})'
      /\ LaidOut(lay.table) => LaidOut(bp)'
      /\ InBox(bp) /\ SameHeld(bp, lay.table) => InBox(bp)'
  BY <1>1, <1>2, TableNext
<1>5. bp' \in [Index -> Entry] /\ \E i \in Index : bp'[i].last
  BY <1>1, <1>2, ListedProperties DEF Typed
<1>6. TypeOK'
  BY <1>1, <1>2, <1>5 DEF TypeOK
<1>7. PendingOK'
  <2>1. \A i \in Listed(bp') :
          Pending(bp'[i]) /\ bp'[i].bpnum = Software => bp'[i].type = "CODE"
    BY <1>1, <1>2
  <2>2. ~refused' \/ ~NoSoftBp => LaidOut(bp)'
    BY <1>1, <1>2, <1>4
  <2>3. NoSoftBp' = NoSoftBp
    BY DEF NoSoftBp
  <2>4. QED
    BY <2>1, <2>2, <2>3 DEF PendingOK
<1>8. XmegaOK' /\ MomentaryOK'
  BY <1>1 DEF XmegaOK, MomentaryOK, BoxRemoves, is_xmega, Box, FullXmega
<1>9. ASSUME ~refused'
      PROVE  SoundOK'
  <2>1. ~refused /\ lay.hadroom
    BY <1>1, <1>2, <1>9 DEF TypeOK
  <2>2. Sound(bp, {})' /\ On(bp)' = On(t)
    BY <1>3, <1>4, <2>1
  <2>3. InBox(bp)'
    BY <1>3, <1>4, <2>1, SameHeldTwice
  <2>4. AskedOK'
    BY <2>1, <2>2 DEF AskedOK, OneByte
  <2>5. QED
    BY <1>1, <2>2, <2>3, <2>4 DEF SoundOK
<1>10. QED
  BY <1>4, <1>6, <1>7, <1>8, <1>9 DEF IInv

LEMMA InsertBreakpointInv ==
  ASSUME IInv, InsertBreakpoint
  PROVE  IInv'
<1>1. PICK r \in Requests : \E length \in LengthsOf(r) :
        LET added == addBreakpoint(bp, r.address, r.type, length) IN
        /\ bp' = added.table
        /\ refused' = (refused \/ ~added.ok)
        /\ wanted' = wanted \cup {r}
  BY DEF InsertBreakpoint
<1>2. PICK length \in LengthsOf(r) :
        LET added == addBreakpoint(bp, r.address, r.type, length) IN
        /\ bp' = added.table
        /\ refused' = (refused \/ ~added.ok)
        /\ wanted' = wanted \cup {r}
  BY <1>1
<1> DEFINE added == addBreakpoint(bp, r.address, r.type, length)
<1>3. /\ Typed(added.table) /\ added.ok \in BOOLEAN
      /\ added.ok /\ Sound(bp, {}) =>
           /\ Sound(added.table, {}) /\ SameHeld(bp, added.table)
           /\ OneByte => On(added.table) = On(bp) \cup {r}
  BY AddProperties DEF IInv
<1>4. /\ bp' = added.table /\ wanted' = wanted \cup {r}
      /\ refused' = (refused \/ ~added.ok)
  BY <1>2
<1> HIDE DEF added
<1>5. /\ TypeOK /\ XmegaOK /\ phase = "stopped" /\ momentary = NoAddr
      /\ refused \in BOOLEAN /\ wanted \subseteq Requests
      /\ phase' = phase /\ momentary' = momentary
      /\ UNCHANGED <<setting, xmega_bps, ice, iceSoft, iceXmega>>
  BY DEF IInv, MomentaryOK, InsertBreakpoint, TypeOK, iceVars
<1>6. ASSUME ~refused'
      PROVE  /\ Sound(bp', {}) /\ SameHeld(bp, bp') /\ InBox(bp)
             /\ OneByte => On(bp') = wanted'
  <2>1. added.ok /\ SoundOK
    BY <1>3, <1>4, <1>5, <1>6 DEF IInv
  <2>2. OneByte => On(bp) = wanted
    BY <1>5, <2>1 DEF SoundOK, AskedOK, Due
  <2>3. QED
    BY <1>3, <1>4, <2>1, <2>2 DEF SoundOK
<1>7. QED
  BY <1>3, <1>4, <1>5, <1>6, StoppedInv

LEMMA RemoveBreakpointInv ==
  ASSUME IInv, RemoveBreakpoint
  PROVE  IInv'
<1>1. PICK r \in Requests : /\ bp' = deleteBreakpoint(bp, r.address, r.type)
                            /\ wanted' = wanted \ {r}
  BY DEF RemoveBreakpoint
<1>2. r = [type |-> r.type, address |-> r.address]
  BY RequestProperties
<1>3. /\ Typed(bp')
      /\ Sound(bp, {}) => /\ Sound(bp', {}) /\ SameHeld(bp, bp')
                          /\ On(bp') = On(bp) \ {r}
  BY <1>1, <1>2, DeleteProperties DEF IInv
<1>4. /\ TypeOK /\ XmegaOK /\ phase = "stopped" /\ momentary = NoAddr
      /\ refused \in BOOLEAN /\ wanted \subseteq Requests
      /\ phase' = phase /\ momentary' = momentary /\ refused' = refused
      /\ UNCHANGED <<setting, xmega_bps, ice, iceSoft, iceXmega>>
  BY DEF IInv, MomentaryOK, RemoveBreakpoint, TypeOK, iceVars
<1>5. ASSUME ~refused'
      PROVE  /\ Sound(bp', {}) /\ SameHeld(bp, bp') /\ InBox(bp)
             /\ OneByte => On(bp') = wanted'
  <2>1. SoundOK
    BY <1>4, <1>5 DEF IInv
  <2>2. OneByte => On(bp) = wanted
    BY <1>4, <2>1 DEF SoundOK, AskedOK, Due
  <2>3. QED
    BY <1>1, <1>3, <2>1, <2>2 DEF SoundOK
<1>6. wanted' \subseteq Requests
  BY <1>1, <1>4
<1>7. QED
  BY <1>3, <1>4, <1>5, <1>6, StoppedInv

LEMMA jtagContinueInv ==
  ASSUME IInv, jtagContinue
  PROVE  IInv'
<1>1. /\ TypeOK /\ XmegaOK /\ Typed(bp) /\ StartUpdate(bp)
      /\ phase = "stopped" /\ momentary = NoAddr /\ momentary' = momentary
      /\ UNCHANGED <<setting, xmega_bps, ice, iceSoft, iceXmega, wanted>>
  BY DEF IInv, MomentaryOK, jtagContinue, iceVars
<1>2. SameHeld(bp, bp)
  BY DEF SameHeld
<1>3. ~refused => /\ Sound(bp, {}) /\ InBox(bp)
                  /\ OneByte => On(bp) = Due'
  BY <1>1 DEF IInv, SoundOK, AskedOK, Due
<1>4. QED
  BY <1>1, <1>2, <1>3, StartUpdateInv

(* A breakpoint on the return address, which nobody has asked for. *)
LEMMA RunToReturnInv ==
  ASSUME TypeOK, XmegaOK, phase \in {"stopped", "running"},
         NEW t, Typed(t), NEW retPC \in CodeAddrs, RunToReturn(t, retPC),
         iceXmega' \in {iceXmega, {}},
         UNCHANGED <<setting, xmega_bps, ice, iceSoft, wanted>>,
         ~refused =>
           /\ Sound(t, {}) /\ SameHeld(bp, t) /\ InBox(bp)
           /\ OneByte =>
                /\ On(t) = wanted
                /\ [type |-> "CODE", address |-> retPC] \notin wanted
  PROVE  IInv'
<1> DEFINE added == AddPlain(t, retPC, "CODE")
<1>1. Askable(retPC, "CODE")
  BY DEF Askable
<1>2. Typed(added.table) /\ added.ok \in BOOLEAN
  BY <1>1, AddPlainTyped
<1>3. ASSUME added.ok, Sound(t, {})
      PROVE  /\ Sound(added.table, {}) /\ SameHeld(t, added.table)
             /\ On(added.table)
                  = On(t) \cup {[type |-> "CODE", address |-> retPC]}
  <2>1. \A x \in {} : x \in Index => t[x].enabled
    OBVIOUS
  <2>2. QED
    BY <1>1, <1>3, <2>1, AddPlainSound
<1>4. \/ added.ok /\ StartUpdate(added.table) /\ momentary' = retPC
      \/ /\ ~added.ok /\ bp' = added.table /\ refused' = TRUE
         /\ phase' = "stopped" /\ momentary' = NoAddr
  BY DEF RunToReturn
<1> HIDE DEF added
<1>5. CASE added.ok /\ StartUpdate(added.table) /\ momentary' = retPC
  <2>1. retPC # NoAddr
    BY TableAssumption DEF NoAddr
  <2>2. Due' = wanted \cup {[type |-> "CODE", address |-> retPC]}
    BY <1>5, <2>1 DEF Due
  <2>3. ~refused =>
          /\ Sound(added.table, {}) /\ SameHeld(bp, added.table) /\ InBox(bp)
          /\ OneByte =>
               /\ On(added.table) = Due'
               /\ momentary' # NoAddr =>
                    [type |-> "CODE", address |-> momentary'] \notin wanted
    BY <1>3, <1>5, <2>2, SameHeldTwice
  <2>4. momentary' \in CodeAddrs \cup {NoAddr}
    BY <1>5
  <2>5. QED
    BY <1>2, <1>5, <2>3, <2>4, StartUpdateInv
<1>6. CASE /\ bp' = added.table /\ refused' = TRUE
           /\ phase' = "stopped" /\ momentary' = NoAddr
  <2>1. wanted' \subseteq Requests
    BY DEF TypeOK
  <2>2. QED
    BY <1>2, <1>6, <2>1, StoppedInv
<1>7. QED
  BY <1>4, <1>5, <1>6

LEMMA StepIntoInterruptInv ==
  ASSUME IInv, StepIntoInterrupt
  PROVE  IInv'
<1>1. /\ TypeOK /\ XmegaOK /\ Typed(bp)
      /\ phase = "stopped" /\ momentary = NoAddr
      /\ UNCHANGED <<setting, xmega_bps, ice, iceSoft, iceXmega, wanted>>
  BY DEF IInv, MomentaryOK, StepIntoInterrupt, iceVars
<1>2. SameHeld(bp, bp)
  BY DEF SameHeld
<1>3. ~refused => /\ Sound(bp, {}) /\ InBox(bp)
                  /\ OneByte => On(bp) = wanted
  BY <1>1 DEF IInv, SoundOK, AskedOK, Due
<1>4. PICK retPC \in CodeAddrs :
        IF codeBreakpointAt(bp, retPC)
        THEN StartUpdate(bp) /\ UNCHANGED momentary
        ELSE RunToReturn(bp, retPC)
  BY DEF StepIntoInterrupt
<1>5. CASE codeBreakpointAt(bp, retPC)
  <2>1. StartUpdate(bp) /\ momentary' = NoAddr
    BY <1>1, <1>4, <1>5
  <2>2. Due' = wanted
    BY <1>1, <2>1 DEF Due
  <2>3. QED
    BY <1>1, <1>2, <1>3, <2>1, <2>2, StartUpdateInv
<1>6. CASE ~codeBreakpointAt(bp, retPC)
  <2>1. RunToReturn(bp, retPC)
    BY <1>4, <1>6
  <2>2. ASSUME Sound(bp, {})
        PROVE  [type |-> "CODE", address |-> retPC] \notin On(bp)
    <3>1. \A i \in Index : bp[i].enabled => i \in Listed(bp)
      BY <2>2 DEF Sound, Idle
    <3>2. \A i \in Index : bp[i].enabled => ~Is(bp[i], retPC, "CODE")
      BY <1>6, <3>1 DEF codeBreakpointAt
    <3>3. QED
      BY <3>2 DEF On, Asked, Is
  <2>3. ~refused => /\ Sound(bp, {}) /\ SameHeld(bp, bp) /\ InBox(bp)
                    /\ OneByte =>
                         /\ On(bp) = wanted
                         /\ [type |-> "CODE", address |-> retPC] \notin wanted
    BY <1>2, <1>3, <2>2
  <2>4. QED
    BY <1>1, <2>1, <2>3, RunToReturnInv
<1>7. QED
  BY <1>5, <1>6

LEMMA TargetStopsInv ==
  ASSUME IInv, TargetStops
  PROVE  IInv'
<1>1. /\ TypeOK /\ XmegaOK /\ Typed(bp)
      /\ phase = "running" /\ iceXmega' = {}
      /\ UNCHANGED <<setting, xmega_bps, ice, iceSoft, wanted>>
      /\ refused \in BOOLEAN /\ wanted' \subseteq Requests
      /\ momentary \in CodeAddrs \cup {NoAddr}
  BY DEF IInv, TargetStops, TypeOK
<1>2. CASE momentary = NoAddr
  <2>1. bp' = bp /\ momentary' = NoAddr /\ refused' = refused
        /\ phase' = "stopped"
    BY <1>2 DEF TargetStops
  <2>2. SameHeld(bp, bp)
    BY DEF SameHeld
  <2>3. ~refused' => /\ Sound(bp, {}) /\ InBox(bp)
                     /\ OneByte => On(bp) = wanted
    BY <1>2, <2>1 DEF IInv, SoundOK, AskedOK, Due
  <2>4. QED
    BY <1>1, <2>1, <2>2, <2>3, StoppedInv
<1>3. CASE momentary # NoAddr
  <2> DEFINE gone == deleteBreakpoint(bp, momentary, "CODE")
             b == [type |-> "CODE", address |-> momentary]
  <2>1. /\ Typed(gone)
        /\ Sound(bp, {}) => /\ Sound(gone, {}) /\ SameHeld(bp, gone)
                            /\ On(gone) = On(bp) \ {b}
    BY <1>1, DeleteProperties
  <2>2. \/ /\ bp' = gone /\ phase' = "stopped"
           /\ momentary' = NoAddr /\ refused' = refused
        \/ RunToReturn(gone, momentary)
    BY <1>3 DEF TargetStops
  <2> HIDE DEF gone
  <2>3. ~refused => /\ Sound(gone, {}) /\ SameHeld(bp, gone) /\ InBox(bp)
                    /\ OneByte => On(gone) = wanted /\ b \notin wanted
    <3>1. ASSUME ~refused
          PROVE  /\ Sound(bp, {}) /\ InBox(bp)
                 /\ OneByte => On(bp) = wanted \cup {b} /\ b \notin wanted
      BY <1>3, <3>1 DEF IInv, SoundOK, AskedOK, Due
    <3>2. QED
      BY <2>1, <3>1
  <2>4. CASE /\ bp' = gone /\ phase' = "stopped"
             /\ momentary' = NoAddr /\ refused' = refused
    BY <1>1, <2>1, <2>3, <2>4, StoppedInv
  <2>5. CASE RunToReturn(gone, momentary)
    BY <1>1, <1>3, <2>1, <2>3, <2>5, RunToReturnInv
  <2>6. QED
    BY <2>2, <2>4, <2>5
<1>4. QED
  BY <1>2, <1>3

-----------------------------------------------------------------------------
(* The inductive invariant holds: the steps of an update.                  *)

(* What is set or in the box is in the list, and no breakpoint is twice.   *)
LEMMA SoundEntries ==
  ASSUME NEW t, Typed(t), Sound(t, {})
  PROVE  /\ \A j \in Index : t[j].icestatus \/ t[j].enabled => j \in Listed(t)
         /\ \A j \in Index : t[j].icestatus => t[j].type # "NONE"
         /\ \A j, k \in Index :
              t[j].icestatus /\ t[k].icestatus /\ Asked(t[j]) = Asked(t[k])
                => j = k
<1>1. \A j \in Index : t[j].icestatus \/ t[j].enabled => j \in Listed(t)
  BY DEF Sound, Idle
<1>2. \A j \in Listed(t) : t[j].icestatus => t[j].type # "NONE"
  BY DEF Sound, InIceOK
<1>3. \A j, k \in Listed(t) : Asked(t[j]) = Asked(t[k]) => j = k
  BY DEF Sound, Unique, Is, Asked
<1>4. QED
  BY <1>1, <1>2, <1>3

(* A breakpoint is taken out of the box. *)
LEMMA IceClearInBox ==
  ASSUME TypeOK, Typed(bp), Sound(bp, {}), InBox(bp),
         NEW i \in Index, bp[i].icestatus, IceClear(bp[i]),
         \A j \in Index \ {i} : bp'[j] = bp[j], ~bp'[i].icestatus
  PROVE  InBox(bp)'
<1>1. /\ \A j \in Index : bp[j].icestatus => HeldByIce(bp[j])
      /\ \A j, k \in Index :
           bp[j].icestatus /\ bp[k].icestatus /\ Asked(bp[j]) = Asked(bp[k])
             => j = k
  BY SoundEntries DEF InBox
<1>2. ice \in [Slots -> Entry] /\ Software \notin Slots
  BY SlotFacts DEF TypeOK
<1>3. CASE bp[i].bpnum = Software
  <2>1. /\ iceSoft' = iceSoft \ {bp[i].address} /\ ice' = ice
        /\ bp[i].type = "CODE"
    BY <1>1, <1>3 DEF IceClear, HeldByIce
  <2>2. ASSUME NEW j \in Index, bp'[j].icestatus
        PROVE  HeldByIce(bp[j])'
    <3>1. j # i /\ bp'[j] = bp[j] /\ HeldByIce(bp[j])
      BY <1>1, <2>2
    <3>2. CASE bp[j].bpnum = Software
      <4>0. bp[j].icestatus /\ Asked(bp[j]) # Asked(bp[i])
        BY <1>1, <2>2, <3>1
      <4>1. bp[j].address # bp[i].address
        <5>1. bp[j].type = "CODE"
          BY <3>1, <3>2 DEF HeldByIce
        <5>2. QED
          BY <2>1, <4>0, <5>1 DEF Asked
      <4>2. QED
        BY <2>1, <3>1, <3>2, <4>1 DEF HeldByIce
    <3>3. CASE bp[j].bpnum # Software
      BY <2>1, <3>1, <3>3 DEF HeldByIce
    <3>4. QED
      BY <3>2, <3>3
  <2>3. ASSUME NEW s \in Slots, ice'[s].type # "NONE"
        PROVE  \E k \in Index : bp'[k].icestatus /\ bp'[k].bpnum = s
    <3>1. PICK k \in Index : bp[k].icestatus /\ bp[k].bpnum = s
      BY <2>1, <2>3 DEF InBox
    <3>2. k # i
      BY <1>2, <1>3, <3>1
    <3>3. QED
      BY <3>1, <3>2
  <2>4. ASSUME NEW a \in iceSoft'
        PROVE  \E k \in Index : /\ bp'[k].icestatus /\ bp'[k].bpnum = Software
                                /\ Is(bp'[k], a, "CODE")
    <3>1. PICK k \in Index : /\ bp[k].icestatus /\ bp[k].bpnum = Software
                             /\ Is(bp[k], a, "CODE")
      BY <2>1, <2>4 DEF InBox
    <3>2. k # i
      BY <2>1, <2>4, <3>1 DEF Is
    <3>3. QED
      BY <3>1, <3>2
  <2>5. QED
    BY <2>2, <2>3, <2>4 DEF InBox
<1>4. CASE bp[i].bpnum # Software
  <2>1. /\ ice' = [ice EXCEPT ![bp[i].bpnum] = default_bp]
        /\ iceSoft' = iceSoft /\ Asked(ice[bp[i].bpnum]) = Asked(bp[i])
    BY <1>1, <1>4 DEF IceClear, HeldByIce
  <2>2. default_bp.type = "NONE"
    BY DEF default_bp
  <2>3. \A s \in Slots : ice'[s] = IF s = bp[i].bpnum THEN default_bp ELSE ice[s]
    BY <1>2, <2>1
  <2>4. ASSUME NEW j \in Index, bp'[j].icestatus
        PROVE  HeldByIce(bp[j])'
    <3>1. j # i /\ bp'[j] = bp[j] /\ HeldByIce(bp[j])
      BY <1>1, <2>4
    <3>2. CASE bp[j].bpnum = Software
      BY <2>1, <3>1, <3>2 DEF HeldByIce
    <3>3. CASE bp[j].bpnum # Software
      <4>0. bp[j].icestatus /\ Asked(bp[j]) # Asked(bp[i])
        BY <1>1, <2>4, <3>1
      <4>1. bp[j].bpnum # bp[i].bpnum
        <5>1. Asked(ice[bp[j].bpnum]) = Asked(bp[j])
          BY <3>1, <3>3 DEF HeldByIce
        <5>2. QED
          BY <2>1, <4>0, <5>1
      <4>2. bp[j].bpnum \in Slots
        BY <3>3 DEF Typed, Entry
      <4>3. ice'[bp[j].bpnum] = ice[bp[j].bpnum]
        BY <2>3, <4>1, <4>2
      <4>4. QED
        BY <3>1, <3>3, <4>3 DEF HeldByIce, Asked
    <3>4. QED
      BY <3>2, <3>3
  <2>5. ASSUME NEW s \in Slots, ice'[s].type # "NONE"
        PROVE  \E k \in Index : bp'[k].icestatus /\ bp'[k].bpnum = s
    <3>1. s # bp[i].bpnum /\ ice[s].type # "NONE"
      BY <2>2, <2>3, <2>5
    <3>2. PICK k \in Index : bp[k].icestatus /\ bp[k].bpnum = s
      BY <3>1 DEF InBox
    <3>3. QED
      BY <3>1, <3>2
  <2>6. ASSUME NEW a \in iceSoft'
        PROVE  \E k \in Index : /\ bp'[k].icestatus /\ bp'[k].bpnum = Software
                                /\ Is(bp'[k], a, "CODE")
    <3>1. PICK k \in Index : /\ bp[k].icestatus /\ bp[k].bpnum = Software
                             /\ Is(bp[k], a, "CODE")
      BY <2>1, <2>6 DEF InBox
    <3>2. k # i
      BY <1>4, <3>1
    <3>3. QED
      BY <3>1, <3>2
  <2>7. QED
    BY <2>4, <2>5, <2>6 DEF InBox
<1>5. QED
  BY <1>3, <1>4

(* A breakpoint is put into the box, in a place where none is. *)
LEMMA IceSetInBox ==
  ASSUME TypeOK, Typed(bp), InBox(bp),
         NEW i \in Index, ~bp[i].icestatus, IceSet(bp[i]),
         bp[i].bpnum = Software => bp[i].type = "CODE",
         \A j \in Index : bp[j].icestatus /\ bp[j].bpnum = bp[i].bpnum
                            => bp[i].bpnum = Software,
         \A j \in Index \ {i} : bp'[j] = bp[j],
         bp'[i].icestatus, bp'[i].bpnum = bp[i].bpnum,
         Asked(bp'[i]) = Asked(bp[i])
  PROVE  InBox(bp)'
<1>1. /\ \A j \in Index : bp[j].icestatus => HeldByIce(bp[j])
      /\ bp'[i].address = bp[i].address /\ bp'[i].type = bp[i].type
  BY DEF InBox, Asked
<1>2. ice \in [Slots -> Entry] /\ Software \notin Slots
      /\ bp[i].bpnum \in Slots \cup {Software}
  BY SlotFacts DEF TypeOK, Typed, Entry
<1>3. /\ \A s \in Slots : ice[s].type # "NONE" =>
           \E k \in Index : k # i /\ bp'[k].icestatus /\ bp'[k].bpnum = s
      /\ \A a \in iceSoft :
           \E k \in Index : /\ bp'[k].icestatus /\ bp'[k].bpnum = Software
                            /\ Is(bp'[k], a, "CODE")
  <2>1. ASSUME NEW s \in Slots, ice[s].type # "NONE"
        PROVE  \E k \in Index : k # i /\ bp'[k].icestatus /\ bp'[k].bpnum = s
    <3>1. PICK k \in Index : bp[k].icestatus /\ bp[k].bpnum = s
      BY <2>1 DEF InBox
    <3>2. k # i /\ bp'[k] = bp[k]
      BY <3>1
    <3>3. QED
      BY <3>1, <3>2
  <2>2. ASSUME NEW a \in iceSoft
        PROVE  \E k \in Index : /\ bp'[k].icestatus /\ bp'[k].bpnum = Software
                                /\ Is(bp'[k], a, "CODE")
    <3>1. PICK k \in Index : /\ bp[k].icestatus /\ bp[k].bpnum = Software
                             /\ Is(bp[k], a, "CODE")
      BY <2>2 DEF InBox
    <3>2. k # i /\ bp'[k] = bp[k]
      BY <3>1
    <3>3. QED
      BY <3>1, <3>2
  <2>3. QED
    BY <2>1, <2>2
<1>4. CASE bp[i].bpnum = Software
  <2>1. iceSoft' = iceSoft \cup {bp[i].address} /\ ice' = ice
    BY <1>4 DEF IceSet
  <2>2. ASSUME NEW j \in Index, bp'[j].icestatus
        PROVE  HeldByIce(bp[j])'
    <3>1. CASE j = i
      BY <1>1, <1>4, <2>1, <3>1 DEF HeldByIce
    <3>2. CASE j # i
      BY <1>1, <2>1, <2>2, <3>2 DEF HeldByIce
    <3>3. QED
      BY <3>1, <3>2
  <2>3. ASSUME NEW a \in iceSoft'
        PROVE  \E k \in Index : /\ bp'[k].icestatus /\ bp'[k].bpnum = Software
                                /\ Is(bp'[k], a, "CODE")
    <3>1. CASE a \in iceSoft
      BY <1>3, <3>1
    <3>2. CASE a = bp[i].address
      BY <1>1, <1>4, <3>2 DEF Is
    <3>3. QED
      BY <2>1, <2>3, <3>1, <3>2
  <2>4. QED
    BY <1>3, <2>1, <2>2, <2>3 DEF InBox
<1>5. CASE bp[i].bpnum # Software
  <2> DEFINE e == [default_bp EXCEPT !.type = bp[i].type,
                                     !.address = bp[i].address]
  <2>1. ice' = [ice EXCEPT ![bp[i].bpnum] = e] /\ iceSoft' = iceSoft
    BY <1>5 DEF IceSet
  <2>2. Asked(e) = Asked(bp[i])
    BY DEF Asked, default_bp
  <2> HIDE DEF e
  <2>3. \A s \in Slots : ice'[s] = IF s = bp[i].bpnum THEN e ELSE ice[s]
    BY <1>2, <2>1
  <2>4. ASSUME NEW j \in Index, bp'[j].icestatus
        PROVE  HeldByIce(bp[j])'
    <3>1. CASE j = i
      <4>1. Asked(ice'[bp'[i].bpnum]) = Asked(bp'[i])
        BY <1>2, <1>5, <2>2, <2>3
      <4>2. QED
        BY <1>5, <3>1, <4>1 DEF HeldByIce, Asked
    <3>2. CASE j # i /\ bp[j].bpnum = Software
      BY <1>1, <2>1, <2>4, <3>2 DEF HeldByIce
    <3>3. CASE j # i /\ bp[j].bpnum # Software
      <4>1. bp'[j] = bp[j] /\ bp[j].icestatus /\ HeldByIce(bp[j])
        BY <1>1, <2>4, <3>3
      <4>2. bp[j].bpnum # bp[i].bpnum
        BY <1>5, <4>1
      <4>3. bp[j].bpnum \in Slots
        BY <3>3 DEF Typed, Entry
      <4>4. ice'[bp[j].bpnum] = ice[bp[j].bpnum]
        BY <2>3, <4>2, <4>3
      <4>5. QED
        BY <3>3, <4>1, <4>4 DEF HeldByIce, Asked
    <3>4. QED
      BY <3>1, <3>2, <3>3
  <2>5. ASSUME NEW s \in Slots, ice'[s].type # "NONE"
        PROVE  \E k \in Index : bp'[k].icestatus /\ bp'[k].bpnum = s
    <3>1. CASE s = bp[i].bpnum
      BY <3>1
    <3>2. CASE s # bp[i].bpnum
      BY <1>3, <2>3, <2>5, <3>2
    <3>3. QED
      BY <3>1, <3>2
  <2>6. QED
    BY <1>3, <2>1, <2>4, <2>5 DEF InBox
<1>6. QED
  BY <1>2, <1>4, <1>5

(* The entry an update is at gets other marks. *)
LEMMA EntryChanged ==
  ASSUME NEW t, Typed(t), NEW i \in Listed(t), NEW e \in Entry,
         e.address = t[i].address, e.type = t[i].type,
         e.last = t[i].last, e.enabled = t[i].enabled,
         e.bpnum = t[i].bpnum, ~(e.icestatus /\ e.toadd),
         NEW u, u = [j \in Index |-> IF j = i THEN e ELSE t[j]]
  PROVE  /\ Typed(u) /\ Listed(u) = Listed(t) /\ On(u) = On(t)
         /\ u[i] = e /\ i \in Index /\ \A j \in Index \ {i} : u[j] = t[j]
         /\ \A j \in Index : u[j].bpnum = t[j].bpnum /\ u[j].type = t[j].type
         /\ Sound(t, {}) /\ InIceOK(e) /\ MarksOK(e) => Sound(u, {})
<1>1. /\ t \in [Index -> Entry] /\ MaxTotal - 1 \in Index
      /\ i \in Index /\ i # MaxTotal - 1 /\ Listed(t) \subseteq Index
  BY ListedProperties DEF Typed
<1>2. u \in [Index -> Entry] /\ u[i] = e /\ \A j \in Index \ {i} : u[j] = t[j]
  BY <1>1
<1>3. Typed(u)
  BY <1>1, <1>2 DEF Typed
<1>4. \A j \in Index :
        /\ u[j].address = t[j].address /\ u[j].type = t[j].type
        /\ u[j].last = t[j].last /\ u[j].enabled = t[j].enabled
        /\ u[j].bpnum = t[j].bpnum
  BY <1>2
<1>5. Listed(u) = Listed(t)
  BY <1>4, SameList
<1>6. On(u) = On(t)
  BY <1>4, SameOn
<1>7. ASSUME Sound(t, {}), InIceOK(e), MarksOK(e)
      PROVE  Sound(u, {})
  <2>1. \A j \in Listed(u) : InIceOK(u[j]) /\ MarksOK(u[j])
    BY <1>1, <1>2, <1>5, <1>7 DEF Sound
  <2>2. \A j \in Index \ Listed(u) : Idle(u[j])
    BY <1>2, <1>5, <1>7 DEF Sound
  <2>3. Unique(u)
    BY <1>1, <1>4, <1>5, <1>7 DEF Sound, Unique, Is
  <2>4. QED
    BY <2>1, <2>2, <2>3 DEF Sound
<1>8. QED
  BY <1>1, <1>2, <1>3, <1>4, <1>5, <1>6, <1>7

(* A layout stays one while its entries are downloaded. *)
LEMMA StaysLaidOut ==
  ASSUME NEW t, NEW u, Typed(t), LaidOut(t), Listed(u) = Listed(t),
         NEW i, \A j \in Index \ {i} : u[j] = t[j],
         \A j \in Index : u[j].bpnum = t[j].bpnum /\ u[j].type = t[j].type,
         ~Pending(u[i]), Stable(u[i]) => Pending(t[i])
  PROVE  LaidOut(u)
<1>1. Listed(t) \subseteq Index
  BY ListedProperties
<1>2. \A j \in Listed(t) :
        /\ Pending(u[j]) => Pending(t[j])
        /\ Pending(u[j]) \/ Stable(u[j]) => Pending(t[j]) \/ Stable(t[j])
  BY <1>1
<1>3. QED
  BY <1>1, <1>2 DEF LaidOut

(* The code of either box takes the same breakpoints for those a run       *)
(* removes by itself.                                                      *)
LEMMA AutoRemovedIs ==
  ASSUME TypeOK
  PROVE  /\ Box \in {"mkII", "JTAGICE3"}
         /\ Box = "mkII" => \A e : AutoRemoved2(e) <=> AutoRemoved(e)
         /\ Box = "JTAGICE3" => \A e : AutoRemoved3(e) <=> AutoRemoved(e)
         /\ \A e : AutoRemoved(e) => is_xmega /\ BoxRemoves /\ HardCode(e)
         /\ is_xmega => ~NoSoftBp
<1>1. setting \in Settings
  BY DEF TypeOK
<1>2. /\ setting.box \in {"mkII", "JTAGICE3"}
      /\ setting.no_softbp => ~setting.is_xmega
  BY <1>1, TableAssumption
<1>3. QED
  BY <1>2 DEF Box, AutoRemoved2, AutoRemoved3, AutoRemoved, HardCode,
              BoxRemoves, is_xmega, NoSoftBp

LEMMA LeastEntry ==
  ASSUME NEW S \in SUBSET Index, S # {}
  PROVE  Min(S) \in S
<1>1. S \in SUBSET Nat
  BY DEF Index
<1>2. QED
  BY <1>1, MinIsLeast

LEMMA ClearStep ==
  ASSUME TypeOK, Typed(bp), ClearBreakpoint
  PROVE  /\ phase = "clearing"
         /\ UNCHANGED <<setting, xmega_bps, phase, momentary, iceXmega, wanted,
                        refused>>
         /\ \E i \in Listed(bp) :
              /\ bp[i].toremove
              /\ IF AutoRemoved(bp[i]) THEN UNCHANGED <<ice, iceSoft>>
                 ELSE IceClear(bp[i])
              /\ bp' = [bp EXCEPT ![i].icestatus = FALSE, ![i].toremove = FALSE]
<1> DEFINE i == Min(Removing)
<1>1. /\ Removing # {} /\ phase = "clearing"
      /\ UNCHANGED <<setting, xmega_bps, phase, momentary, iceXmega, wanted,
                     refused>>
      /\ bp' = [bp EXCEPT ![i].icestatus = FALSE, ![i].toremove = FALSE]
  BY DEF ClearBreakpoint, Clear2, Clear3, ClearOne
<1>2. IF AutoRemoved(bp[i]) THEN UNCHANGED <<ice, iceSoft>> ELSE IceClear(bp[i])
  <2>1. CASE Box = "mkII"
    <3>1. IF AutoRemoved2(bp[i]) THEN UNCHANGED <<ice, iceSoft>>
          ELSE IceClear(bp[i])
      BY <2>1 DEF ClearBreakpoint, Clear2, ClearOne
    <3>2. QED
      BY <2>1, <3>1, AutoRemovedIs
  <2>2. CASE Box = "JTAGICE3"
    <3>1. IF AutoRemoved3(bp[i]) THEN UNCHANGED <<ice, iceSoft>>
          ELSE IceClear(bp[i])
      BY <2>2 DEF ClearBreakpoint, Clear3, ClearOne
    <3>2. QED
      BY <2>2, <3>1, AutoRemovedIs
  <2>3. QED
    BY <2>1, <2>2, AutoRemovedIs
<1>3. i \in Listed(bp) /\ bp[i].toremove
  <2>1. Removing \in SUBSET Index
    BY ListedProperties DEF Removing
  <2>2. i \in Removing
    BY <1>1, <2>1, LeastEntry
  <2>3. QED
    BY <2>2 DEF Removing
<1> HIDE DEF i
<1>4. QED
  BY <1>1, <1>2, <1>3

LEMMA ClearBreakpointInv ==
  ASSUME IInv, ClearBreakpoint
  PROVE  IInv'
<1>1. TypeOK /\ Typed(bp)
  BY DEF IInv
<1>2. /\ phase = "clearing"
      /\ UNCHANGED <<setting, xmega_bps, phase, momentary, iceXmega, wanted,
                     refused>>
  BY <1>1, ClearStep
<1>3. PICK i \in Listed(bp) :
        /\ bp[i].toremove
        /\ IF AutoRemoved(bp[i]) THEN UNCHANGED <<ice, iceSoft>>
           ELSE IceClear(bp[i])
        /\ bp' = [bp EXCEPT ![i].icestatus = FALSE, ![i].toremove = FALSE]
  BY <1>1, ClearStep
<1> DEFINE e == [bp[i] EXCEPT !.icestatus = FALSE, !.toremove = FALSE]
<1>4. /\ bp \in [Index -> Entry] /\ i \in Index /\ bp[i] \in Entry
      /\ Listed(bp) \subseteq Index
  BY <1>1, ListedProperties DEF Typed
<1>5. e \in Entry
  BY <1>4 DEF Entry
<1>6. /\ e.address = bp[i].address /\ e.type = bp[i].type
      /\ e.last = bp[i].last /\ e.enabled = bp[i].enabled
      /\ e.bpnum = bp[i].bpnum /\ e.toadd = bp[i].toadd
      /\ e.icestatus = FALSE /\ e.toremove = FALSE
  BY <1>4 DEF Entry
<1>7. bp' = [j \in Index |-> IF j = i THEN e ELSE bp[j]]
  BY <1>3, <1>4
<1> HIDE DEF e
<1>8. /\ Typed(bp') /\ Listed(bp') = Listed(bp) /\ On(bp') = On(bp)
      /\ bp'[i] = e /\ \A j \in Index \ {i} : bp'[j] = bp[j]
      /\ \A j \in Index : bp'[j].bpnum = bp[j].bpnum /\ bp'[j].type = bp[j].type
      /\ Sound(bp, {}) /\ InIceOK(e) /\ MarksOK(e) => Sound(bp', {})
  BY <1>1, <1>5, <1>6, <1>7, EntryChanged
<1>9. /\ Typed(bp)' /\ On(bp)' = On(bp)
      /\ Sound(bp', {}) => Sound(bp, {})'
      /\ LaidOut(bp') => LaidOut(bp)'
      /\ InBox(bp) /\ SameHeld(bp, bp') /\ UNCHANGED <<ice, iceSoft>>
           => InBox(bp)'
  BY <1>2, <1>8, TableNext
<1>10. TypeOK'
  <2>1. ice' \in [Slots -> Entry] /\ iceSoft' \subseteq CodeAddrs
    <3>1. default_bp \in Entry
      BY DefaultEntry
    <3>2. ice \in [Slots -> Entry] /\ iceSoft \subseteq CodeAddrs
      BY <1>1 DEF TypeOK
    <3> HIDE DEF default_bp
    <3>3. QED
      BY <1>3, <3>1, <3>2 DEF IceClear
  <2>2. bp' \in [Index -> Entry] /\ \E k \in Index : bp'[k].last
    BY <1>8, ListedProperties DEF Typed
  <2>3. QED
    BY <1>1, <1>2, <2>1, <2>2 DEF TypeOK
<1>11. PendingOK'
  <2>1. NoSoftBp' = NoSoftBp /\ refused' = refused /\ Updating
    BY <1>2 DEF NoSoftBp, Updating
  <2>2. /\ \A j \in Listed(bp) :
             Pending(bp[j]) /\ bp[j].bpnum = Software => bp[j].type = "CODE"
        /\ ~refused \/ ~NoSoftBp => LaidOut(bp)
    BY <2>1 DEF IInv, PendingOK
  <2>3. \A j \in Index : Pending(bp'[j]) => Pending(bp[j])
    BY <1>6, <1>8 DEF Pending
  <2>4. \A j \in Index : Stable(bp'[j]) => Stable(bp[j])
    BY <1>6, <1>8 DEF Stable
  <2>5. LaidOut(bp) => LaidOut(bp')
    BY <1>4, <1>8, <2>3, <2>4 DEF LaidOut
  <2>6. \A j \in Listed(bp') :
          Pending(bp'[j]) /\ bp'[j].bpnum = Software => bp'[j].type = "CODE"
    BY <1>4, <1>8, <2>2, <2>3
  <2>7. QED
    BY <1>9, <2>1, <2>2, <2>5, <2>6 DEF PendingOK
<1>12. XmegaOK' /\ MomentaryOK'
  BY <1>2 DEF IInv, XmegaOK, MomentaryOK, BoxRemoves, is_xmega, Box, FullXmega
<1>13. ASSUME ~refused'
       PROVE  SoundOK'
  <2>1. SoundOK /\ Sound(bp, {}) /\ InBox(bp)
    BY <1>2, <1>13 DEF IInv, SoundOK
  <2>2. InIceOK(bp[i]) /\ MarksOK(bp[i])
    BY <2>1 DEF Sound
  <2>3. bp[i].icestatus <=> ~AutoRemoved(bp[i])
    BY <1>3, <2>2 DEF InIceOK, MarksOK
  <2>4. InIceOK(e) /\ MarksOK(e)
    <3>1. InIceOK(e)
      BY <1>6 DEF InIceOK
    <3>2. bp[i].toadd = FALSE
      BY <1>3, <1>4, <2>2 DEF MarksOK, Entry
    <3>3. bp[i].enabled => is_xmega
      BY <1>1, <1>3, <2>2, <2>3, AutoRemovedIs DEF MarksOK
    <3>4. QED
      BY <1>6, <3>1, <3>2, <3>3 DEF MarksOK
  <2>5. Sound(bp, {})'
    BY <1>8, <1>9, <2>1, <2>4
  <2>6. InBox(bp)'
    <3>1. CASE AutoRemoved(bp[i])
      <4>1. SameHeld(bp, bp')
        BY <1>4, <1>6, <1>8, <2>3, <3>1 DEF SameHeld, Entry
      <4>2. QED
        BY <1>3, <1>9, <2>1, <3>1, <4>1
    <3>2. CASE ~AutoRemoved(bp[i])
      <4>1. IceClear(bp[i]) /\ bp[i].icestatus /\ ~bp'[i].icestatus
        BY <1>3, <1>6, <1>8, <2>3, <3>2
      <4>2. QED
        BY <1>1, <1>4, <1>8, <2>1, <4>1, IceClearInBox
    <3>3. QED
      BY <3>1, <3>2
  <2>7. AskedOK'
    BY <1>2, <1>9, <2>1 DEF SoundOK, AskedOK, OneByte, Due
  <2>8. QED
    BY <1>2, <2>5, <2>6, <2>7 DEF SoundOK
<1>14. QED
  BY <1>9, <1>10, <1>11, <1>12, <1>13 DEF IInv

LEMMA AllClearedInv ==
  ASSUME IInv, AllCleared
  PROVE  IInv'
<1>1. /\ phase = "clearing" /\ phase' = "setting" /\ Removing = {}
      /\ bp' = bp
      /\ UNCHANGED <<setting, xmega_bps, momentary, ice, iceSoft, iceXmega,
                     wanted, refused>>
  BY DEF AllCleared, iceVars
<1>2. /\ TypeOK /\ Typed(bp) /\ PendingOK /\ XmegaOK /\ MomentaryOK
      /\ ~refused => SoundOK
  BY DEF IInv
<1>3. \A i \in Listed(bp) : ~bp[i].toremove
  BY <1>1 DEF Removing
<1>4. /\ Typed(bp)' /\ On(bp)' = On(bp)
      /\ Sound(bp, {}) => Sound(bp, {})'
      /\ LaidOut(bp) => LaidOut(bp)'
      /\ InBox(bp) /\ SameHeld(bp, bp) => InBox(bp)'
  BY <1>1, <1>2, TableNext
<1>5. TypeOK'
  BY <1>1, <1>2 DEF TypeOK
<1>6. PendingOK'
  <2>1. NoSoftBp' = NoSoftBp /\ refused' = refused /\ Updating
    BY <1>1 DEF NoSoftBp, Updating
  <2>2. QED
    BY <1>1, <1>2, <1>4, <2>1 DEF PendingOK
<1>7. XmegaOK'
  <2>1. CollectedSlots' = {}
    BY <1>1, <1>3 DEF CollectedSlots
  <2>2. xmega_bps' = <<>>
    BY <1>1, <1>2 DEF XmegaOK
  <2>3. Len(xmega_bps') = 0
    BY <2>2
  <2>4. ~is_xmega' => iceXmega' = {}
    BY <1>1, <1>2 DEF XmegaOK, is_xmega
  <2>5. QED
    BY <1>1, <2>1, <2>2, <2>3, <2>4 DEF XmegaOK
<1>8. MomentaryOK'
  BY <1>1 DEF MomentaryOK
<1>9. ASSUME ~refused'
      PROVE  SoundOK'
  <2>1. SoundOK /\ SameHeld(bp, bp)
    BY <1>1, <1>2, <1>9 DEF SameHeld
  <2>2. Sound(bp, {})' /\ InBox(bp)'
    BY <1>4, <2>1 DEF SoundOK
  <2>3. \A i \in Index : ~(bp[i].icestatus /\ bp[i].toremove)
    BY <1>2, <1>3, <2>1, SoundEntries DEF SoundOK
  <2>4. AskedOK'
    BY <1>1, <1>4, <2>1 DEF SoundOK, AskedOK, OneByte, Due
  <2>5. QED
    BY <1>1, <2>2, <2>3, <2>4 DEF SoundOK
<1>10. QED
  BY <1>4, <1>5, <1>6, <1>7, <1>8, <1>9 DEF IInv

LEMMA SetStep ==
  ASSUME TypeOK, Typed(bp), SetBreakpoint
  PROVE  /\ phase = "setting"
         /\ UNCHANGED <<setting, momentary, iceXmega, wanted, refused>>
         /\ \E i \in Listed(bp) :
              /\ Pending(bp[i])
              /\ IF AutoRemoved(bp[i]) THEN CollectXmega(i) ELSE Download(i)
<1> DEFINE i == Min(Adding)
<1>1. /\ Adding # {} /\ phase = "setting"
      /\ UNCHANGED <<setting, momentary, iceXmega, wanted, refused>>
  BY DEF SetBreakpoint, Set2, Set3, SetOne
<1>2. IF AutoRemoved(bp[i]) THEN CollectXmega(i) ELSE Download(i)
  <2>1. CASE Box = "mkII"
    <3>1. IF AutoRemoved2(bp[i]) THEN CollectXmega(i) ELSE Download(i)
      BY <2>1 DEF SetBreakpoint, Set2, SetOne
    <3>2. QED
      BY <2>1, <3>1, AutoRemovedIs
  <2>2. CASE Box = "JTAGICE3"
    <3>1. IF AutoRemoved3(bp[i]) THEN CollectXmega(i) ELSE Download(i)
      BY <2>2 DEF SetBreakpoint, Set3, SetOne
    <3>2. QED
      BY <2>2, <3>1, AutoRemovedIs
  <2>3. QED
    BY <2>1, <2>2, AutoRemovedIs
<1>3. i \in Listed(bp) /\ Pending(bp[i])
  <2>1. Adding \in SUBSET Index
    BY ListedProperties DEF Adding
  <2>2. i \in Adding
    BY <1>1, <2>1, LeastEntry
  <2>3. QED
    BY <2>2 DEF Adding
<1> HIDE DEF i
<1>4. QED
  BY <1>1, <1>2, <1>3

(* What is known of the entry to be downloaded. *)
LEMMA AddingProperties ==
  ASSUME IInv, phase = "setting", NEW i \in Listed(bp), Pending(bp[i])
  PROVE  /\ i \in Index /\ bp[i] \in Entry /\ bp[i].type # "NONE"
         /\ ~bp[i].icestatus
         /\ bp[i].bpnum = Software =>
              bp[i].type = "CODE" /\ bp[i].address \in CodeAddrs
         /\ ~refused \/ ~NoSoftBp => LaidOut(bp)
         /\ ~refused => /\ ~bp[i].toremove
                        /\ \A j \in Index :
                             bp[j].icestatus /\ bp[j].bpnum = bp[i].bpnum
                               => bp[i].bpnum = Software
<1>1. /\ Typed(bp) /\ bp[i].enabled /\ bp[i].toadd /\ PendingOK /\ Updating
  BY DEF IInv, Pending, Updating
<1>2. i \in Index /\ bp[i] \in Entry
  BY <1>1, ListedProperties DEF Typed
<1>3. bp[i].type # "NONE" /\ ~bp[i].icestatus
  BY <1>1, <1>2 DEF Typed
<1>4. bp[i].bpnum = Software =>
        bp[i].type = "CODE" /\ bp[i].address \in CodeAddrs
  BY <1>1, <1>2 DEF PendingOK, Typed
<1>5. ~refused \/ ~NoSoftBp => LaidOut(bp)
  BY <1>1 DEF PendingOK
<1>6. ASSUME ~refused
      PROVE  /\ ~bp[i].toremove
             /\ \A j \in Index :
                  bp[j].icestatus /\ bp[j].bpnum = bp[i].bpnum
                    => bp[i].bpnum = Software
  <2>1. Sound(bp, {}) /\ \A j \in Index : ~(bp[j].icestatus /\ bp[j].toremove)
    BY <1>6 DEF IInv, SoundOK
  <2>2. ~bp[i].toremove
    BY <1>1, <2>1 DEF Sound, MarksOK
  <2>3. ASSUME NEW j \in Index, bp[j].icestatus, bp[j].bpnum = bp[i].bpnum
        PROVE  bp[i].bpnum = Software
    <3>1. j \in Listed(bp)
      BY <1>1, <2>1, <2>3, SoundEntries
    <3>2. Stable(bp[j])
      BY <2>1, <2>3, <3>1 DEF Sound, MarksOK, Stable
    <3>3. j # i
      BY <1>3, <2>3
    <3>4. LaidOut(bp)
      BY <1>5, <1>6
    <3>5. QED
      BY <2>3, <3>1, <3>2, <3>3, <3>4 DEF LaidOut
  <2>4. QED
    BY <2>2, <2>3
<1>7. QED
  BY <1>2, <1>3, <1>4, <1>5, <1>6

LEMMA DownloadInv ==
  ASSUME IInv, phase = "setting", NEW i \in Listed(bp), Pending(bp[i]),
         ~AutoRemoved(bp[i]), Download(i),
         UNCHANGED <<setting, momentary, iceXmega, wanted, refused>>
  PROVE  IInv'
<1> DEFINE e == [bp[i] EXCEPT !.icestatus = TRUE, !.toadd = FALSE]
<1>1. /\ i \in Index /\ bp[i] \in Entry /\ bp[i].type # "NONE"
      /\ ~bp[i].icestatus
      /\ bp[i].bpnum = Software =>
           bp[i].type = "CODE" /\ bp[i].address \in CodeAddrs
      /\ ~refused \/ ~NoSoftBp => LaidOut(bp)
      /\ ~refused => /\ ~bp[i].toremove
                     /\ \A j \in Index :
                          bp[j].icestatus /\ bp[j].bpnum = bp[i].bpnum
                            => bp[i].bpnum = Software
  BY AddingProperties
<1>2. /\ TypeOK /\ Typed(bp) /\ PendingOK /\ XmegaOK /\ MomentaryOK
      /\ ~refused => SoundOK
      /\ bp \in [Index -> Entry] /\ Listed(bp) \subseteq Index
  BY ListedProperties DEF IInv, Typed
<1>3. /\ IceSet(bp[i])
      /\ bp' = [bp EXCEPT ![i].icestatus = TRUE, ![i].toadd = FALSE]
      /\ UNCHANGED <<xmega_bps, phase>>
  BY DEF Download
<1>4. e \in Entry
  BY <1>1 DEF Entry
<1>5. /\ e.address = bp[i].address /\ e.type = bp[i].type
      /\ e.last = bp[i].last /\ e.enabled = bp[i].enabled
      /\ e.bpnum = bp[i].bpnum /\ e.toremove = bp[i].toremove
      /\ e.icestatus = TRUE /\ e.toadd = FALSE
  BY <1>1 DEF Entry
<1>6. bp' = [j \in Index |-> IF j = i THEN e ELSE bp[j]]
  BY <1>1, <1>2, <1>3
<1> HIDE DEF e
<1>7. /\ Typed(bp') /\ Listed(bp') = Listed(bp) /\ On(bp') = On(bp)
      /\ bp'[i] = e /\ \A j \in Index \ {i} : bp'[j] = bp[j]
      /\ \A j \in Index : bp'[j].bpnum = bp[j].bpnum /\ bp'[j].type = bp[j].type
      /\ Sound(bp, {}) /\ InIceOK(e) /\ MarksOK(e) => Sound(bp', {})
  BY <1>2, <1>4, <1>5, <1>6, EntryChanged
<1>8. /\ Typed(bp)' /\ On(bp)' = On(bp)
      /\ Sound(bp', {}) => Sound(bp, {})'
      /\ LaidOut(bp') => LaidOut(bp)'
  BY <1>7, TableNext
<1>9. /\ ~Pending(bp'[i]) /\ \A j \in Index : Pending(bp'[j]) => Pending(bp[j])
      /\ \A j \in Index : bp'[j].toremove = bp[j].toremove
  BY <1>5, <1>7 DEF Pending
<1>10. TypeOK'
  <2>1. ice' \in [Slots -> Entry] /\ iceSoft' \subseteq CodeAddrs
    <3> DEFINE d == [default_bp EXCEPT !.type = bp[i].type,
                                       !.address = bp[i].address]
    <3>1. d \in Entry
      <4>1. default_bp \in Entry
        BY DefaultEntry
      <4> HIDE DEF default_bp
      <4>2. QED
        BY <1>1, <4>1 DEF Entry
    <3>2. ice \in [Slots -> Entry] /\ iceSoft \subseteq CodeAddrs
      BY <1>2 DEF TypeOK
    <3>3. IF bp[i].bpnum = Software
          THEN iceSoft' = iceSoft \cup {bp[i].address} /\ ice' = ice
          ELSE ice' = [ice EXCEPT ![bp[i].bpnum] = d] /\ iceSoft' = iceSoft
      BY <1>3 DEF IceSet
    <3> HIDE DEF d
    <3>4. QED
      BY <1>1, <3>1, <3>2, <3>3
  <2>2. bp' \in [Index -> Entry] /\ \E k \in Index : bp'[k].last
    BY <1>7, ListedProperties DEF Typed
  <2>3. QED
    BY <1>2, <1>3, <2>1, <2>2 DEF TypeOK
<1>11. PendingOK'
  <2>1. NoSoftBp' = NoSoftBp /\ refused' = refused /\ Updating
    BY DEF NoSoftBp, Updating
  <2>2. \A j \in Listed(bp') :
          Pending(bp'[j]) /\ bp'[j].bpnum = Software => bp'[j].type = "CODE"
    BY <1>2, <1>7, <1>9, <2>1 DEF PendingOK
  <2>3. LaidOut(bp) => LaidOut(bp')
    BY <1>2, <1>7, <1>9, StaysLaidOut
  <2>4. QED
    BY <1>1, <1>8, <2>1, <2>2, <2>3 DEF PendingOK
<1>12. XmegaOK'
  <2>1. CollectedSlots' = CollectedSlots
    <3>1. {j \in Listed(bp') : bp'[j].toremove} = {j \in Listed(bp) : bp[j].toremove}
      BY <1>2, <1>7, <1>9
    <3>2. \A j \in Listed(bp) : bp'[j].bpnum = bp[j].bpnum
      BY <1>2, <1>7
    <3>3. CollectedSlots'
            = {bp'[j].bpnum : j \in {k \in Listed(bp') : bp'[k].toremove}}
      BY DEF CollectedSlots
    <3>4. QED
      BY <3>1, <3>2, <3>3 DEF CollectedSlots
  <2>2. \A j \in Listed(bp') : j \in Listed(bp) /\ bp'[j].bpnum = bp[j].bpnum
                               /\ (Pending(bp'[j]) => Pending(bp[j]))
    BY <1>2, <1>7, <1>9
  <2>3. /\ Usable' = Usable /\ is_xmega' = is_xmega /\ BoxRemoves' = BoxRemoves
    BY DEF Usable, softbp_only, is_xmega, BoxRemoves, Box, FullXmega
  <2>4. is_xmega =>
          /\ \A j \in Listed(bp) :
               Pending(bp[j]) /\ bp[j].bpnum \in CollectedSlots
                 => bp[j].bpnum = Software
          /\ Len(xmega_bps) \in 0 .. 2
          /\ Len(xmega_bps) = 1 => CollectedSlots \cap Usable # {}
          /\ Len(xmega_bps) = 2 => Usable \subseteq CollectedSlots
    BY <1>2 DEF XmegaOK
  <2>5. is_xmega =>
          \A j \in Listed(bp') :
            Pending(bp'[j]) /\ bp'[j].bpnum \in CollectedSlots'
              => bp'[j].bpnum = Software
    BY <2>1, <2>2, <2>4
  <2>6. /\ ~BoxRemoves => xmega_bps = <<>>
        /\ ~is_xmega => iceXmega = {}
    BY <1>2 DEF XmegaOK
  <2>7. xmega_bps' = xmega_bps /\ phase' = "setting" /\ iceXmega' = iceXmega
    BY <1>3
  <2>8. QED
    BY <2>1, <2>3, <2>4, <2>5, <2>6, <2>7 DEF XmegaOK
<1>13. MomentaryOK'
  BY <1>2, <1>3 DEF MomentaryOK
<1>14. ASSUME ~refused'
       PROVE  SoundOK'
  <2>1. SoundOK /\ Sound(bp, {}) /\ InBox(bp)
    BY <1>2, <1>14 DEF SoundOK
  <2>2. InIceOK(e) /\ MarksOK(e)
    <3>1. ~AutoRemoved(e)
      BY <1>5 DEF AutoRemoved, HardCode
    <3>2. bp[i].enabled /\ ~bp[i].toremove
      BY <1>1, <1>14 DEF Pending
    <3>3. QED
      BY <1>1, <1>5, <3>1, <3>2 DEF InIceOK, MarksOK
  <2>3. Sound(bp, {})'
    BY <1>7, <1>8, <2>1, <2>2
  <2>4. InBox(bp)'
    <3>1. Asked(bp'[i]) = Asked(bp[i]) /\ bp'[i].icestatus
      BY <1>5, <1>7 DEF Asked
    <3>2. QED
      BY <1>1, <1>2, <1>3, <1>7, <1>14, <2>1, <3>1, IceSetInBox
  <2>5. \A j \in Index : ~(bp'[j].icestatus /\ bp'[j].toremove)
    <3>1. \A j \in Index : ~(bp[j].icestatus /\ bp[j].toremove)
      BY <2>1 DEF SoundOK
    <3>2. QED
      BY <1>1, <1>5, <1>7, <1>14, <3>1
  <2>6. AskedOK'
    BY <1>8, <2>1 DEF SoundOK, AskedOK, OneByte, Due
  <2>7. QED
    BY <1>3, <2>3, <2>4, <2>5, <2>6 DEF SoundOK
<1>15. QED
  BY <1>8, <1>10, <1>11, <1>12, <1>13, <1>14 DEF IInv

(* An Xmega has two slots for code breakpoints, and each one collected     *)
(* occupies one.                                                           *)
LEMMA CollectXmegaInv ==
  ASSUME IInv, phase = "setting", NEW i \in Listed(bp), Pending(bp[i]),
         AutoRemoved(bp[i]), CollectXmega(i),
         UNCHANGED <<setting, momentary, iceXmega, wanted, refused>>
  PROVE  IInv'
<1> DEFINE e == [bp[i] EXCEPT !.toremove = TRUE, !.icestatus = FALSE,
                              !.toadd = FALSE]
           b == bp[i].bpnum
<1>1. /\ i \in Index /\ bp[i] \in Entry /\ bp[i].type # "NONE"
      /\ ~bp[i].icestatus
      /\ ~refused \/ ~NoSoftBp => LaidOut(bp)
  BY AddingProperties
<1>2. /\ TypeOK /\ Typed(bp) /\ PendingOK /\ XmegaOK /\ MomentaryOK
      /\ ~refused => SoundOK
      /\ bp \in [Index -> Entry] /\ Listed(bp) \subseteq Index
  BY ListedProperties DEF IInv, Typed
<1>3. /\ is_xmega /\ BoxRemoves /\ HardCode(bp[i]) /\ LaidOut(bp)
      /\ bp[i].type = "CODE" /\ b # Software /\ bp[i].address \in CodeAddrs
  <2>1. is_xmega /\ BoxRemoves /\ HardCode(bp[i]) /\ LaidOut(bp)
    BY <1>1, <1>2, AutoRemovedIs
  <2>2. QED
    BY <1>1, <1>2, <2>1 DEF HardCode, Typed
<1>4. /\ b \in Usable /\ Usable \subseteq {2, 3}
      /\ \A j \in Listed(bp) : j # i /\ Pending(bp[j]) => bp[j].bpnum # b
      /\ b \notin CollectedSlots
  <2>1. b \in Usable /\ \A j \in Listed(bp) :
          j # i /\ Pending(bp[j]) => bp[j].bpnum # b
    BY <1>3 DEF LaidOut
  <2>2. Usable \subseteq {2, 3}
    BY <1>3 DEF Usable, Slots, XmegaUnavail
  <2>3. b \notin CollectedSlots
    BY <1>2, <1>3 DEF XmegaOK
  <2>4. QED
    BY <2>1, <2>2, <2>3
<1>5. /\ \A j \in Listed(bp) :
           Pending(bp[j]) /\ bp[j].bpnum \in CollectedSlots
             => bp[j].bpnum = Software
      /\ Len(xmega_bps) \in 0 .. 2
      /\ Len(xmega_bps) = 1 => CollectedSlots \cap Usable # {}
      /\ Len(xmega_bps) = 2 => Usable \subseteq CollectedSlots
  BY <1>2, <1>3 DEF XmegaOK
<1>6. /\ Len(xmega_bps) < 2
      /\ xmega_bps' = Append(xmega_bps, bp[i].address)
      /\ bp' = [bp EXCEPT ![i].toremove = TRUE, ![i].icestatus = FALSE,
                          ![i].toadd = FALSE]
      /\ UNCHANGED <<phase, ice, iceSoft>>
  <2>1. Len(xmega_bps) # 2
    BY <1>4, <1>5
  <2>2. Len(xmega_bps) < 2
    <3> DEFINE n == Len(xmega_bps)
    <3>1. n \in 0 .. 2 /\ n # 2
      BY <1>5, <2>1
    <3> HIDE DEF n
    <3>2. n < 2
      BY <3>1
    <3> QED  BY <3>2 DEF n
  <2>3. QED
    BY <2>2 DEF CollectXmega
<1>7. e \in Entry
  BY <1>1 DEF Entry
<1>8. /\ e.address = bp[i].address /\ e.type = bp[i].type
      /\ e.last = bp[i].last /\ e.enabled = bp[i].enabled
      /\ e.bpnum = bp[i].bpnum /\ e.toremove = TRUE
      /\ e.icestatus = FALSE /\ e.toadd = FALSE
  BY <1>1 DEF Entry
<1>9. bp' = [j \in Index |-> IF j = i THEN e ELSE bp[j]]
  BY <1>1, <1>2, <1>6
<1> HIDE DEF e, b
<1>10. /\ Typed(bp') /\ Listed(bp') = Listed(bp) /\ On(bp') = On(bp)
       /\ bp'[i] = e /\ \A j \in Index \ {i} : bp'[j] = bp[j]
       /\ \A j \in Index : bp'[j].bpnum = bp[j].bpnum /\ bp'[j].type = bp[j].type
       /\ Sound(bp, {}) /\ InIceOK(e) /\ MarksOK(e) => Sound(bp', {})
  BY <1>2, <1>7, <1>8, <1>9, EntryChanged
<1>11. /\ Typed(bp)' /\ On(bp)' = On(bp)
       /\ Sound(bp', {}) => Sound(bp, {})'
       /\ LaidOut(bp') => LaidOut(bp)'
       /\ InBox(bp) /\ SameHeld(bp, bp') => InBox(bp)'
  BY <1>6, <1>10, TableNext
<1>12. /\ ~Pending(bp'[i]) /\ ~Stable(bp'[i])
       /\ \A j \in Index : Pending(bp'[j]) => Pending(bp[j])
  BY <1>8, <1>10 DEF Pending, Stable
<1>13. TypeOK'
  <2>1. xmega_bps' \in Seq(CodeAddrs)
    BY <1>2, <1>3, <1>6 DEF TypeOK
  <2>2. bp' \in [Index -> Entry] /\ \E k \in Index : bp'[k].last
    BY <1>10, ListedProperties DEF Typed
  <2>3. QED
    BY <1>2, <1>6, <2>1, <2>2 DEF TypeOK
<1>14. PendingOK'
  <2>1. NoSoftBp' = NoSoftBp /\ refused' = refused /\ Updating
    BY DEF NoSoftBp, Updating
  <2>2. \A j \in Listed(bp') :
          Pending(bp'[j]) /\ bp'[j].bpnum = Software => bp'[j].type = "CODE"
    BY <1>2, <1>10, <1>12, <2>1 DEF PendingOK
  <2>3. LaidOut(bp')
    BY <1>2, <1>3, <1>10, <1>12, StaysLaidOut
  <2>4. QED
    BY <1>11, <2>2, <2>3 DEF PendingOK
<1>15. XmegaOK'
  <2>1. CollectedSlots' = {bp'[j].bpnum : j \in {k \in Listed(bp') : bp'[k].toremove}}
    BY DEF CollectedSlots
  <2>2. b \in CollectedSlots' /\ CollectedSlots \subseteq CollectedSlots'
    <3>1. b \in CollectedSlots'
      BY <1>8, <1>10, <2>1 DEF b
    <3>2. ASSUME NEW s \in CollectedSlots
          PROVE  s \in CollectedSlots'
      <4>1. PICK j \in Listed(bp) : bp[j].toremove /\ s = bp[j].bpnum
        BY DEF CollectedSlots
      <4>2. bp'[j].toremove /\ bp'[j].bpnum = s /\ j \in Listed(bp')
        BY <1>2, <1>8, <1>10, <4>1
      <4>3. QED
        BY <2>1, <4>2
    <3>3. QED
      BY <3>1, <3>2
  <2>3. CollectedSlots' \subseteq CollectedSlots \cup {b}
    <3>1. ASSUME NEW s \in CollectedSlots'
          PROVE  s \in CollectedSlots \cup {b}
      <4>1. PICK j \in Listed(bp') : bp'[j].toremove /\ s = bp'[j].bpnum
        BY <2>1
      <4>2. CASE j = i
        BY <1>8, <1>10, <4>1, <4>2 DEF b
      <4>3. CASE j # i
        BY <1>2, <1>10, <4>1, <4>3 DEF CollectedSlots
      <4>4. QED
        BY <4>2, <4>3
    <3>2. QED
      BY <3>1
  <2>4. \A j \in Listed(bp') :
          Pending(bp'[j]) /\ bp'[j].bpnum \in CollectedSlots'
            => bp'[j].bpnum = Software
    <3> SUFFICES ASSUME NEW j \in Listed(bp'), Pending(bp'[j]),
                        bp'[j].bpnum \in CollectedSlots'
                 PROVE  bp'[j].bpnum = Software
      OBVIOUS
    <3>1. j # i /\ j \in Listed(bp) /\ bp'[j] = bp[j]
      BY <1>2, <1>10, <1>12
    <3>2. bp[j].bpnum # b
      BY <1>4, <3>1
    <3>3. QED
      BY <1>5, <2>3, <3>1, <3>2
  <2>5. Len(xmega_bps') = Len(xmega_bps) + 1
    BY <1>2, <1>3, <1>6 DEF TypeOK
  <2>6. Len(xmega_bps') \in 0 .. 2
    BY <1>5, <1>6, <2>5
  <2>7. CollectedSlots' \cap Usable # {}
    BY <1>4, <2>2
  <2>8. Len(xmega_bps') = 2 => Usable \subseteq CollectedSlots'
    <3> SUFFICES ASSUME Len(xmega_bps') = 2
                 PROVE  Usable \subseteq CollectedSlots'
      OBVIOUS
    <3>1. Len(xmega_bps) = 1
      BY <1>5, <2>5
    <3>2. PICK s \in CollectedSlots \cap Usable : TRUE
      BY <1>5, <3>1
    <3>3. s # b /\ s \in {2, 3} /\ b \in {2, 3}
      BY <1>4, <3>2
    <3>4. QED
      BY <1>4, <2>2, <3>2, <3>3
  <2>9. Usable' = Usable /\ is_xmega' = is_xmega /\ BoxRemoves' = BoxRemoves
    BY DEF Usable, softbp_only, is_xmega, BoxRemoves, Box, FullXmega
  <2>10. phase' = "setting"
    BY <1>6
  <2>11. QED
    BY <1>3, <2>4, <2>6, <2>7, <2>8, <2>9, <2>10 DEF XmegaOK
<1>16. MomentaryOK'
  BY <1>2, <1>6 DEF MomentaryOK
<1>17. ASSUME ~refused'
       PROVE  SoundOK'
  <2>1. SoundOK /\ Sound(bp, {}) /\ InBox(bp)
    BY <1>2, <1>17 DEF SoundOK
  <2>2. InIceOK(e) /\ MarksOK(e)
    <3>1. AutoRemoved(e)
      BY <1>8 DEF AutoRemoved, HardCode
    <3>2. QED
      BY <1>3, <1>8, <3>1 DEF InIceOK, MarksOK
  <2>3. Sound(bp, {})'
    BY <1>10, <1>11, <2>1, <2>2
  <2>4. InBox(bp)'
    <3>1. SameHeld(bp, bp')
      <4>1. bp[i].icestatus = FALSE /\ e.icestatus = FALSE
        BY <1>1, <1>2, <1>8
      <4>2. ASSUME NEW j \in Index
            PROVE  /\ bp'[j].icestatus = bp[j].icestatus
                   /\ bp[j].icestatus => bp'[j] = bp[j]
        <5>1. CASE j = i
          BY <1>10, <4>1, <5>1
        <5>2. CASE j # i
          BY <1>10, <5>2
        <5>3. QED
          BY <5>1, <5>2
      <4>3. QED
        BY <4>2 DEF SameHeld
    <3>2. QED
      BY <1>11, <2>1, <3>1
  <2>5. \A j \in Index : ~(bp'[j].icestatus /\ bp'[j].toremove)
    <3>1. \A j \in Index : ~(bp[j].icestatus /\ bp[j].toremove)
      BY <2>1 DEF SoundOK
    <3>2. QED
      BY <1>8, <1>10, <3>1
  <2>6. AskedOK'
    BY <1>11, <2>1 DEF SoundOK, AskedOK, OneByte, Due
  <2>7. QED
    BY <1>6, <2>3, <2>4, <2>5, <2>6 DEF SoundOK
<1>18. QED
  BY <1>11, <1>13, <1>14, <1>15, <1>16, <1>17 DEF IInv

LEMMA SetBreakpointInv ==
  ASSUME IInv, SetBreakpoint
  PROVE  IInv'
<1>1. /\ phase = "setting"
      /\ UNCHANGED <<setting, momentary, iceXmega, wanted, refused>>
      /\ \E i \in Listed(bp) :
           /\ Pending(bp[i])
           /\ IF AutoRemoved(bp[i]) THEN CollectXmega(i) ELSE Download(i)
  BY SetStep DEF IInv
<1>2. PICK i \in Listed(bp) :
        /\ Pending(bp[i])
        /\ IF AutoRemoved(bp[i]) THEN CollectXmega(i) ELSE Download(i)
  BY <1>1
<1>3. CASE AutoRemoved(bp[i])
  BY <1>1, <1>2, <1>3, CollectXmegaInv
<1>4. CASE ~AutoRemoved(bp[i])
  BY <1>1, <1>2, <1>4, DownloadInv
<1>5. QED
  BY <1>3, <1>4

LEMMA GoInv ==
  ASSUME IInv, Go
  PROVE  IInv'
<1>1. /\ phase = "setting" /\ phase' = "running" /\ Adding = {} /\ xmegaSendBPs
      /\ UNCHANGED <<setting, bp, momentary, ice, iceSoft, wanted, refused>>
  BY DEF Go
<1>2. /\ TypeOK /\ Typed(bp) /\ XmegaOK /\ MomentaryOK
      /\ ~refused => SoundOK
  BY DEF IInv
<1>3. /\ xmega_bps' = <<>>
      /\ \/ iceXmega' = ToSet(xmega_bps) /\ is_xmega
         \/ iceXmega' = iceXmega
  BY <1>1, <1>2 DEF xmegaSendBPs, XmegaOK, BoxRemoves
<1>4. /\ Typed(bp)' /\ On(bp)' = On(bp)
      /\ Sound(bp, {}) => Sound(bp, {})'
      /\ InBox(bp) /\ SameHeld(bp, bp) => InBox(bp)'
  BY <1>1, <1>2, TableNext
<1>5. TypeOK'
  <2>1. ToSet(xmega_bps) \subseteq CodeAddrs /\ iceXmega \subseteq CodeAddrs
    <3>1. xmega_bps \in Seq(CodeAddrs) /\ iceXmega \subseteq CodeAddrs
      BY <1>2 DEF TypeOK
    <3>2. QED
      BY <3>1 DEF ToSet
  <2>2. iceXmega' \subseteq CodeAddrs
    BY <1>3, <2>1
  <2>3. xmega_bps' \in Seq(CodeAddrs)
    BY <1>3
  <2>4. QED
    BY <1>1, <1>2, <2>2, <2>3 DEF TypeOK
<1>6. PendingOK' /\ MomentaryOK'
  BY <1>1 DEF PendingOK, MomentaryOK, Updating
<1>7. XmegaOK'
  <2>1. is_xmega' = is_xmega
    BY <1>1 DEF is_xmega
  <2>2. ~is_xmega => iceXmega' = {}
    BY <1>2, <1>3 DEF XmegaOK
  <2>3. QED
    BY <1>1, <1>3, <2>1, <2>2 DEF XmegaOK
<1>8. ASSUME ~refused'
      PROVE  SoundOK'
  <2>1. SoundOK /\ SameHeld(bp, bp) /\ Sound(bp, {})
    BY <1>1, <1>2, <1>8 DEF SameHeld, SoundOK
  <2>2. Sound(bp, {})' /\ InBox(bp)'
    BY <1>4, <2>1 DEF SoundOK
  <2>3. \A i \in Index : ~(bp[i].icestatus /\ bp[i].toremove)
    BY <1>1, <2>1 DEF SoundOK
  <2>4. \A i \in Index : ~Pending(bp[i])
    BY <1>1, <1>2, <2>1, SoundEntries DEF Adding, Pending
  <2>5. AskedOK'
    BY <1>1, <1>4, <2>1 DEF SoundOK, AskedOK, OneByte, Due
  <2>6. QED
    BY <1>1, <2>2, <2>3, <2>4, <2>5 DEF SoundOK, Pending
<1>9. QED
  BY <1>4, <1>5, <1>6, <1>7, <1>8 DEF IInv

LEMMA CommandFailsInv ==
  ASSUME IInv, CommandFails
  PROVE  IInv'
<1>1. /\ phase \in {"clearing", "setting"} /\ phase' = "ended"
      /\ UNCHANGED <<setting, bp, xmega_bps, momentary, ice, iceSoft, iceXmega,
                     wanted, refused>>
  BY DEF CommandFails, iceVars
<1>2. /\ TypeOK /\ Typed(bp) /\ XmegaOK /\ ~refused => SoundOK
  BY DEF IInv
<1>3. /\ Typed(bp)' /\ On(bp)' = On(bp)
      /\ Sound(bp, {}) => Sound(bp, {})'
      /\ InBox(bp) /\ SameHeld(bp, bp) => InBox(bp)'
  BY <1>1, <1>2, TableNext DEF IInv
<1>4. TypeOK'
  BY <1>1 DEF IInv, TypeOK
<1>5. PendingOK' /\ MomentaryOK'
  BY <1>1 DEF PendingOK, MomentaryOK, Updating
<1>6. XmegaOK'
  BY <1>1 DEF IInv, XmegaOK, BoxRemoves, is_xmega, Box, FullXmega
<1>7. ASSUME ~refused'
      PROVE  SoundOK'
  <2>1. SoundOK /\ SameHeld(bp, bp)
    BY <1>1, <1>7 DEF IInv, SameHeld
  <2>2. Sound(bp, {})' /\ InBox(bp)'
    BY <1>3, <2>1 DEF SoundOK
  <2>3. AskedOK'
    BY <1>1, <1>3, <2>1 DEF SoundOK, AskedOK, OneByte, Due
  <2>4. QED
    BY <1>1, <2>2, <2>3 DEF SoundOK
<1>8. QED
  BY <1>3, <1>4, <1>5, <1>6, <1>7 DEF IInv

LEMMA StutterInv ==
  ASSUME IInv, UNCHANGED vars
  PROVE  IInv'
<1>1. UNCHANGED <<setting, bp, xmega_bps, phase, momentary, ice, iceSoft,
                  iceXmega, wanted, refused>>
  BY DEF vars, iceVars
<1>2. /\ Typed(bp)' /\ On(bp)' = On(bp)
      /\ Sound(bp, {}) => Sound(bp, {})'
      /\ LaidOut(bp) => LaidOut(bp)'
      /\ InBox(bp) /\ SameHeld(bp, bp) => InBox(bp)'
  BY <1>1, TableNext DEF IInv
<1>3. TypeOK'
  BY <1>1 DEF IInv, TypeOK
<1>4. PendingOK' /\ MomentaryOK'
  BY <1>1, <1>2 DEF IInv, PendingOK, MomentaryOK, Updating, NoSoftBp
<1>5. XmegaOK'
  <2>1. /\ CollectedSlots' = CollectedSlots /\ Usable' = Usable
        /\ is_xmega' = is_xmega /\ BoxRemoves' = BoxRemoves
    BY <1>1 DEF CollectedSlots, Usable, softbp_only, is_xmega, BoxRemoves, Box,
                FullXmega
  <2>2. QED
    BY <1>1, <2>1 DEF IInv, XmegaOK
<1>6. ASSUME ~refused'
      PROVE  SoundOK'
  <2>1. SoundOK /\ SameHeld(bp, bp)
    BY <1>1, <1>6 DEF IInv, SameHeld
  <2>2. Sound(bp, {})' /\ InBox(bp)'
    BY <1>2, <2>1 DEF SoundOK
  <2>3. AskedOK'
    BY <1>1, <1>2, <2>1 DEF SoundOK, AskedOK, OneByte, Due
  <2>4. QED
    BY <1>1, <2>1, <2>2, <2>3 DEF SoundOK
<1>7. QED
  BY <1>2, <1>3, <1>4, <1>5, <1>6 DEF IInv

LEMMA Invariance == Spec => []IInv
<1>1. Init => IInv
  BY InitInv
<1>2. IInv /\ [Next]_vars => IInv'
  <2> SUFFICES ASSUME IInv, [Next]_vars
               PROVE  IInv'
    OBVIOUS
  <2>1. CASE InsertBreakpoint
    BY <2>1, InsertBreakpointInv
  <2>2. CASE RemoveBreakpoint
    BY <2>2, RemoveBreakpointInv
  <2>3. CASE jtagContinue
    BY <2>3, jtagContinueInv
  <2>4. CASE StepIntoInterrupt
    BY <2>4, StepIntoInterruptInv
  <2>5. CASE ClearBreakpoint
    BY <2>5, ClearBreakpointInv
  <2>6. CASE AllCleared
    BY <2>6, AllClearedInv
  <2>7. CASE SetBreakpoint
    BY <2>7, SetBreakpointInv
  <2>8. CASE Go
    BY <2>8, GoInv
  <2>9. CASE CommandFails
    BY <2>9, CommandFailsInv
  <2>10. CASE TargetStops
    BY <2>10, TargetStopsInv
  <2>11. CASE UNCHANGED vars
    BY <2>11, StutterInv
  <2>12. QED
    BY <2>1, <2>2, <2>3, <2>4, <2>5, <2>6, <2>7, <2>8, <2>9, <2>10, <2>11
       DEF Next
<1>3. QED
  BY <1>1, <1>2, PTL DEF Spec

-----------------------------------------------------------------------------
(* The theorems.                                                           *)

(* Every variable keeps its type; the array always has an end mark, which  *)
(* the loops of jtaggeneric.cc over the table stop at.                     *)
THEOREM BreakpointsTypeCorrect == Spec => []TypeOK
<1>1. IInv => TypeOK
  BY DEF IInv
<1>2. QED
  BY <1>1, Invariance, PTL

(* jtag2bp.cc and jtag3bp.cc throw at the third Xmega code breakpoint of a *)
(* run: whatever was refused before, the layout of jtaggeneric.cc has      *)
(* given no more than two of them a slot.                                  *)
THEOREM XmegaRoom == Spec => []XmegaHasRoom
<1>1. IInv => XmegaHasRoom
  BY DEF IInv, XmegaOK, XmegaHasRoom
<1>2. QED
  BY <1>1, Invariance, PTL

(* icestatus means what jtag.h says of it, also between two commands of an *)
(* update: an entry said to be in the box is there, in the slot the table  *)
(* remembers, and the box holds nothing the table has forgotten.           *)
THEOREM TableAgreesWithBox == Spec => []TableMatchesIce
<1>1. IInv => TableMatchesIce
  <2> SUFFICES ASSUME IInv, ~refused
               PROVE  IceStatusTruthful /\ NothingForgotten
    BY DEF TableMatchesIce
  <2>1. /\ Typed(bp) /\ Sound(bp, {}) /\ InBox(bp)
    BY DEF IInv, SoundOK
  <2>2. /\ \A i \in Index : bp[i].icestatus => i \in Listed(bp)
        /\ Listed(bp) \subseteq Index
    BY <2>1, SoundEntries, ListedProperties
  <2>3. IceStatusTruthful
    BY <2>1, <2>2 DEF InBox, IceStatusTruthful
  <2>4. NothingForgotten
    BY <2>1, <2>2 DEF InBox, NothingForgotten
  <2>5. QED
    BY <2>3, <2>4
<1>2. QED
  BY <1>1, Invariance, PTL

(* What the table says is in the box. *)
Held(t) == {Asked(t[i]) : i \in {j \in Index : t[j].icestatus}}

LEMMA ArmedIsHeld ==
  ASSUME Typed(bp), Sound(bp, {}), InBox(bp), iceXmega = {}
  PROVE  Armed = Held(bp)
<1>1. \A j \in Index : bp[j].icestatus =>
        bp[j].type # "NONE" /\ bp[j].bpnum \in Slots \cup {Software}
  BY SoundEntries DEF Typed, Entry
<1>2. ASSUME NEW a \in Armed
      PROVE  a \in Held(bp)
  <2>1. CASE \E s \in Slots : ice[s].type # "NONE" /\ a = Asked(ice[s])
    <3>1. PICK s \in Slots : ice[s].type # "NONE" /\ a = Asked(ice[s])
      BY <2>1
    <3>2. PICK i \in Index : bp[i].icestatus /\ bp[i].bpnum = s
      BY <3>1 DEF InBox
    <3>3. Asked(ice[s]) = Asked(bp[i])
      BY <3>2, SlotFacts DEF InBox, HeldByIce
    <3>4. QED
      BY <3>1, <3>2, <3>3 DEF Held
  <2>2. CASE \E c \in iceSoft : a = [type |-> "CODE", address |-> c]
    <3>1. PICK c \in iceSoft : a = [type |-> "CODE", address |-> c]
      BY <2>2
    <3>2. PICK i \in Index : bp[i].icestatus /\ Is(bp[i], c, "CODE")
      BY DEF InBox
    <3>3. Asked(bp[i]) = a
      BY <3>1, <3>2 DEF Asked, Is
    <3>4. QED
      BY <3>2, <3>3 DEF Held
  <2>3. QED
    BY <2>1, <2>2 DEF Armed
<1>3. ASSUME NEW a \in Held(bp)
      PROVE  a \in Armed
  <2>1. PICK i \in Index : bp[i].icestatus /\ a = Asked(bp[i])
    BY DEF Held
  <2>2. HeldByIce(bp[i])
    BY <2>1 DEF InBox
  <2>3. CASE bp[i].bpnum = Software
    BY <2>1, <2>2, <2>3 DEF HeldByIce, Armed, Asked
  <2>4. CASE bp[i].bpnum # Software
    <3>1. /\ bp[i].bpnum \in Slots /\ Asked(ice[bp[i].bpnum]) = a
          /\ bp[i].type # "NONE"
      BY <1>1, <2>1, <2>2, <2>4 DEF HeldByIce
    <3>2. ice[bp[i].bpnum].type # "NONE"
      BY <2>1, <3>1 DEF Asked
    <3>3. QED
      BY <3>1, <3>2 DEF Armed
  <2>5. QED
    BY <2>3, <2>4
<1>4. QED
  BY <1>2, <1>3

(* Nothing left to remove or to add: what is in the box is what is set. *)
LEMMA UpToDate ==
  ASSUME Typed(bp), Sound(bp, {}), ~is_xmega,
         \A i \in Index : ~(bp[i].icestatus /\ bp[i].toremove),
         \A i \in Index : ~Pending(bp[i])
  PROVE  Held(bp) = On(bp)
<1>1. \A i \in Index : bp[i].icestatus \/ bp[i].enabled => MarksOK(bp[i])
  BY SoundEntries DEF Sound
<1>2. \A i \in Index : bp[i].icestatus <=> bp[i].enabled
  BY <1>1 DEF MarksOK, Pending
<1>3. QED
  BY <1>2 DEF Held, On

(* The target runs with the breakpoints GDB was told are set, and the one  *)
(* handleInterrupt() put there, as long as all were accepted and each      *)
(* watchpoint is one byte: a range brings its mask along.                  *)
THEOREM RunAsAsked ==
  ASSUME OneByte
  PROVE  Spec => []RunsAsAsked
<1>1. IInv => RunsAsAsked
  <2> SUFFICES ASSUME IInv, phase = "running", ~refused, ~is_xmega
               PROVE  Armed = Due
    BY DEF RunsAsAsked
  <2>1. /\ Typed(bp) /\ Sound(bp, {}) /\ InBox(bp) /\ iceXmega = {}
        /\ On(bp) = Due
        /\ \A i \in Index : ~(bp[i].icestatus /\ bp[i].toremove)
        /\ \A i \in Index : ~Pending(bp[i])
    BY DEF IInv, SoundOK, XmegaOK, AskedOK
  <2>2. QED
    BY <2>1, ArmedIsHeld, UpToDate
<1>2. QED
  BY <1>1, Invariance, PTL

-----------------------------------------------------------------------------
(* The table implements the promise.                                       *)

(* The steps of the update are those of the promise, while one is made. *)
Promised == ~refused /\ ~is_xmega

LEMMA PromisedProperties ==
  ASSUME IInv, OneByte, Promised
  PROVE  /\ Typed(bp) /\ Sound(bp, {}) /\ InBox(bp) /\ iceXmega = {}
         /\ On(bp) = Due /\ Armed = Held(bp)
         /\ \A e : ~AutoRemoved(e)
<1>1. Typed(bp) /\ Sound(bp, {}) /\ InBox(bp) /\ iceXmega = {} /\ On(bp) = Due
  BY DEF IInv, SoundOK, XmegaOK, AskedOK, Promised
<1>2. Armed = Held(bp)
  BY <1>1, ArmedIsHeld
<1>3. \A e : ~AutoRemoved(e)
  BY AutoRemovedIs DEF IInv, Promised
<1>4. QED
  BY <1>1, <1>2, <1>3
LEMMA DueIsAsked ==
  ASSUME TypeOK
  PROVE  Due \subseteq Breakpoint
<1>1. wanted \subseteq Breakpoint /\ momentary \in CodeAddrs \cup {NoAddr}
  BY DEF TypeOK, Requests, Breakpoint
<1>2. momentary \in CodeAddrs =>
        [type |-> "CODE", address |-> momentary] \in Breakpoint
  BY DEF Breakpoint
<1>3. QED
  BY <1>1, <1>2 DEF Due

LEMMA PromisedNext ==
  ASSUME IInv', OneByte, Promised'
  PROVE  On(bp)' = Due' /\ Armed' = Held(bp)' /\ iceXmega' = {}
<1>1. (IInv /\ OneByte /\ Promised =>
         On(bp) = Due /\ Armed = Held(bp) /\ iceXmega = {})'
  BY PromisedProperties, PTL
<1>2. OneByte'
  BY DEF OneByte
<1>3. QED
  BY <1>1, <1>2

(* A breakpoint leaves the box: one that nobody wants any more. *)
LEMMA ClearKeepsPromise ==
  ASSUME IInv, IInv', OneByte, Promised, Promised', ClearBreakpoint
  PROVE  Promise!Disarm
<1>1. /\ TypeOK /\ Typed(bp) /\ Sound(bp, {})
      /\ On(bp) = Due /\ Armed = Held(bp)
      /\ \A e : ~AutoRemoved(e)
  BY PromisedProperties DEF IInv
<1>2. Armed' = Held(bp')
  BY PromisedNext DEF Held
<1>3. /\ phase = "clearing"
      /\ UNCHANGED <<setting, xmega_bps, phase, momentary, iceXmega, wanted,
                     refused>>
  BY <1>1, ClearStep
<1>4. PICK i \in Listed(bp) :
        /\ bp[i].toremove
        /\ IF AutoRemoved(bp[i]) THEN UNCHANGED <<ice, iceSoft>>
           ELSE IceClear(bp[i])
        /\ bp' = [bp EXCEPT ![i].icestatus = FALSE, ![i].toremove = FALSE]
  BY <1>1, ClearStep
<1> DEFINE e == [bp[i] EXCEPT !.icestatus = FALSE, !.toremove = FALSE]
<1>5. /\ bp \in [Index -> Entry] /\ i \in Index /\ bp[i] \in Entry
  BY <1>1, ListedProperties DEF Typed
<1>6. e.icestatus = FALSE
  BY <1>5 DEF Entry
<1>7. bp'[i] = e /\ \A j \in Index \ {i} : bp'[j] = bp[j]
  BY <1>4, <1>5
<1> HIDE DEF e
<1>8. bp[i].icestatus /\ ~bp[i].enabled
  BY <1>1, <1>4 DEF Sound, MarksOK
<1>9. \A j \in Index : (bp[j].icestatus \/ bp[j].enabled) /\ j # i =>
        Asked(bp[j]) # Asked(bp[i])
  BY <1>1, <1>4, SoundEntries DEF Sound, Unique, Asked, Is
<1>10. Asked(bp[i]) \in Armed \ Due
  <2>1. Asked(bp[i]) \in Held(bp)
    BY <1>5, <1>8 DEF Held
  <2>2. Asked(bp[i]) \notin On(bp)
    BY <1>5, <1>8, <1>9 DEF On
  <2>3. QED
    BY <1>1, <2>1, <2>2
<1>11. Armed' = Armed \ {Asked(bp[i])}
  <2>1. ASSUME NEW a \in Held(bp')
        PROVE  a \in Held(bp) /\ a # Asked(bp[i])
    <3>1. PICK j \in Index : bp'[j].icestatus /\ a = Asked(bp'[j])
      BY DEF Held
    <3>2. j # i /\ bp'[j] = bp[j]
      BY <1>6, <1>7, <3>1
    <3>3. QED
      BY <1>9, <3>1, <3>2 DEF Held
  <2>2. ASSUME NEW a \in Held(bp), a # Asked(bp[i])
        PROVE  a \in Held(bp')
    <3>1. PICK j \in Index : bp[j].icestatus /\ a = Asked(bp[j])
      BY DEF Held
    <3>2. j # i /\ bp'[j] = bp[j]
      BY <1>7, <2>2, <3>1
    <3>3. QED
      BY <3>1, <3>2 DEF Held
  <2>3. QED
    BY <1>1, <1>2, <2>1, <2>2
<1>12. Due' = Due /\ Mode' = Mode /\ Mode = "updating"
       /\ (refused \/ is_xmega)' = (refused \/ is_xmega)
  BY <1>3 DEF Due, Mode, is_xmega
<1>13. QED
  BY <1>10, <1>11, <1>12 DEF Promise!Disarm

(* A breakpoint goes into the box: one that is wanted, when all that were  *)
(* not are out.                                                            *)
LEMMA SetKeepsPromise ==
  ASSUME IInv, IInv', OneByte, Promised, Promised', SetBreakpoint
  PROVE  Promise!Arm
<1>1. /\ TypeOK /\ Typed(bp) /\ Sound(bp, {})
      /\ On(bp) = Due /\ Armed = Held(bp)
      /\ \A e : ~AutoRemoved(e)
  BY PromisedProperties DEF IInv
<1>2. Armed' = Held(bp')
  BY PromisedNext DEF Held
<1>3. /\ phase = "setting"
      /\ UNCHANGED <<setting, momentary, iceXmega, wanted, refused>>
      /\ \E i \in Listed(bp) :
           /\ Pending(bp[i])
           /\ IF AutoRemoved(bp[i]) THEN CollectXmega(i) ELSE Download(i)
  BY <1>1, SetStep
<1>4. PICK i \in Listed(bp) : Pending(bp[i]) /\ Download(i)
  BY <1>1, <1>3
<1>5. /\ bp' = [bp EXCEPT ![i].icestatus = TRUE, ![i].toadd = FALSE]
      /\ phase' = phase
  BY <1>4 DEF Download
<1> DEFINE e == [bp[i] EXCEPT !.icestatus = TRUE, !.toadd = FALSE]
<1>6. /\ bp \in [Index -> Entry] /\ i \in Index /\ bp[i] \in Entry
      /\ ~bp[i].icestatus /\ bp[i].enabled
  BY <1>1, <1>3, <1>4, AddingProperties DEF Typed, Pending
<1>7. e.icestatus = TRUE /\ e.address = bp[i].address /\ e.type = bp[i].type
  BY <1>6 DEF Entry
<1>8. bp'[i] = e /\ \A j \in Index \ {i} : bp'[j] = bp[j]
  BY <1>5, <1>6
<1> HIDE DEF e
<1>9. Asked(bp'[i]) = Asked(bp[i]) /\ bp'[i].icestatus
  BY <1>7, <1>8 DEF Asked
<1>10. \A j \in Index : bp[j].icestatus => Asked(bp[j]) # Asked(bp[i])
  BY <1>1, <1>4, <1>6, SoundEntries DEF Sound, Unique, Asked, Is
<1>11. Armed \subseteq Due
  <2>1. \A j \in Index : ~(bp[j].icestatus /\ bp[j].toremove)
    BY <1>3 DEF IInv, SoundOK, Promised
  <2>2. \A j \in Index : bp[j].icestatus => MarksOK(bp[j])
    BY <1>1, SoundEntries DEF Sound
  <2>3. \A j \in Index : bp[j].icestatus => bp[j].enabled
    BY <2>1, <2>2 DEF MarksOK
  <2>4. Held(bp) \subseteq On(bp)
    BY <2>3 DEF Held, On
  <2>5. QED
    BY <1>1, <2>4
<1>12. Asked(bp[i]) \in Due \ Armed
  <2>1. Asked(bp[i]) \in On(bp)
    BY <1>6 DEF On
  <2>2. Asked(bp[i]) \notin Held(bp)
    BY <1>10 DEF Held
  <2>3. QED
    BY <1>1, <2>1, <2>2
<1>13. Armed' = Armed \cup {Asked(bp[i])}
  <2>1. ASSUME NEW a \in Held(bp')
        PROVE  a \in Held(bp) \cup {Asked(bp[i])}
    <3>1. PICK j \in Index : bp'[j].icestatus /\ a = Asked(bp'[j])
      BY DEF Held
    <3>2. CASE j = i
      BY <1>9, <3>1, <3>2
    <3>3. CASE j # i
      BY <1>8, <3>1, <3>3 DEF Held
    <3>4. QED
      BY <3>2, <3>3
  <2>2. ASSUME NEW a \in Held(bp)
        PROVE  a \in Held(bp')
    <3>1. PICK j \in Index : bp[j].icestatus /\ a = Asked(bp[j])
      BY DEF Held
    <3>2. j # i /\ bp'[j] = bp[j]
      BY <1>6, <1>8, <3>1
    <3>3. QED
      BY <3>1, <3>2 DEF Held
  <2>3. Asked(bp[i]) \in Held(bp')
    BY <1>6, <1>9 DEF Held
  <2>4. QED
    BY <1>1, <1>2, <2>1, <2>2, <2>3
<1>14. Due' = Due /\ Mode' = Mode /\ Mode = "updating"
       /\ (refused \/ is_xmega)' = (refused \/ is_xmega)
  BY <1>3, <1>5 DEF Due, Mode, is_xmega
<1>15. QED
  BY <1>11, <1>12, <1>13, <1>14 DEF Promise!Arm

(* A run that is begun with nothing refused. *)
LEMMA AskKeepsPromise ==
  ASSUME NEW t, NEW retPC,
         \/ StartUpdate(t) \/ RunToReturn(t, retPC), ~refused',
         TypeOK
  PROVE  ~refused /\ phase' = "clearing"
BY DEF StartUpdate, RunToReturn, TypeOK

(* The table implements BreakpointPromise: whatever GDB asks for, whatever *)
(* is refused, fails or is stepped over, each step of the server and the   *)
(* box is one the promise allows, or leaves it as it is.                   *)
THEOREM TableKeepsPromise ==
  ASSUME OneByte
  PROVE  Spec => PromiseKept
<1>1. Init => Promise!Init
  <2> SUFFICES ASSUME Init
               PROVE  Promise!Init
    OBVIOUS
  <2>1. /\ phase = "stopped" /\ momentary = NoAddr /\ wanted = {}
        /\ refused = FALSE /\ setting \in Settings
        /\ iceSoft = {} /\ iceXmega = {}
    BY DEF Init
  <2>2. Due = {} /\ Mode = "stopped"
    BY <2>1 DEF Due, Mode
  <2>3. \A s \in Slots : ice[s].type = "NONE"
    BY DEF Init, default_bp
  <2>4. Armed = {}
    BY <2>1, <2>3 DEF Armed
  <2>5. (refused \/ is_xmega) \in BOOLEAN
    BY <2>1
  <2>6. QED
    BY <2>2, <2>4, <2>5 DEF Promise!Init
<1>2. IInv /\ IInv' /\ [Next]_vars => [Promise!Next]_Promise!vars
  <2> SUFFICES ASSUME IInv, IInv', [Next]_vars
               PROVE  Promise!Next \/ UNCHANGED <<Due, Armed, Mode,
                                                  refused \/ is_xmega>>
    BY DEF Promise!vars
  <2>1. /\ TypeOK /\ TypeOK' /\ phase # "too many"
        /\ Due \subseteq Breakpoint /\ Due' \subseteq Breakpoint
    <3>1. TypeOK /\ TypeOK' /\ phase # "too many"
      BY DEF IInv, XmegaOK
    <3>2. Due \subseteq Breakpoint
      BY <3>1, DueIsAsked
    <3>3. (TypeOK => Due \subseteq Breakpoint)'
      BY DueIsAsked, PTL
    <3>4. Breakpoint' = Breakpoint
      BY DEF Breakpoint
    <3>5. QED
      BY <3>1, <3>2, <3>3, <3>4
  <2>2. setting' = setting
    BY DEF Next, vars, InsertBreakpoint, RemoveBreakpoint, jtagContinue,
           StepIntoInterrupt, ClearBreakpoint, AllCleared, SetBreakpoint, Go,
           CommandFails, TargetStops
  <2>3. CASE refused' \/ is_xmega'
    <3>1. (refused \/ is_xmega)' = TRUE
      BY <2>3
    <3>2. QED
      BY <3>1 DEF Promise!Next, Promise!Release
  <2>4. CASE ~(refused' \/ is_xmega')
    <3>1. ~refused' /\ Promised' /\ ~is_xmega /\ refused \in BOOLEAN
      BY <2>1, <2>2, <2>4 DEF Promised, is_xmega, TypeOK
    <3>2. ~refused =>
            /\ Promised
            /\ (refused \/ is_xmega)' = (refused \/ is_xmega)
      BY <2>4, <3>1 DEF Promised
    <3>3. CASE InsertBreakpoint
      <4>1. /\ ~refused /\ phase = "stopped" /\ phase' = "stopped"
            /\ UNCHANGED <<ice, iceSoft, iceXmega>>
        BY <3>1, <3>3 DEF InsertBreakpoint, iceVars
      <4>2. Armed' = Armed /\ Mode = "stopped" /\ Mode' = "stopped"
        BY <4>1 DEF Armed, Mode
      <4>3. QED
        BY <2>1, <3>2, <4>1, <4>2 DEF Promise!Next, Promise!Ask
    <3>4. CASE RemoveBreakpoint
      <4>1. /\ ~refused /\ phase = "stopped" /\ phase' = "stopped"
            /\ UNCHANGED <<ice, iceSoft, iceXmega>>
        BY <3>1, <3>4 DEF RemoveBreakpoint, iceVars
      <4>2. Armed' = Armed /\ Mode = "stopped" /\ Mode' = "stopped"
        BY <4>1 DEF Armed, Mode
      <4>3. QED
        BY <2>1, <3>2, <4>1, <4>2 DEF Promise!Next, Promise!Ask
    <3>5. CASE jtagContinue \/ StepIntoInterrupt
      <4>1. /\ phase = "stopped" /\ UNCHANGED <<ice, iceSoft, iceXmega>>
            /\ \E retPC \in CodeAddrs \cup {NoAddr} :
                 StartUpdate(bp) \/ RunToReturn(bp, retPC)
        BY <3>5 DEF jtagContinue, StepIntoInterrupt, iceVars
      <4>2. ~refused /\ phase' = "clearing"
        BY <2>1, <3>1, <4>1, AskKeepsPromise
      <4>3. Armed' = Armed /\ Mode = "stopped" /\ Mode' = "updating"
        BY <4>1, <4>2 DEF Armed, Mode
      <4>4. QED
        BY <2>1, <3>2, <4>2, <4>3 DEF Promise!Next, Promise!Resume
    <3>6. CASE ClearBreakpoint
      <4>1. ~refused
        BY <3>1, <3>6 DEF ClearBreakpoint
      <4>2. QED
        BY <3>1, <3>2, <3>6, <4>1, ClearKeepsPromise DEF Promise!Next
    <3>7. CASE AllCleared
      <4>1. UNCHANGED <<Due, Armed, Mode, refused \/ is_xmega>>
        BY <2>2, <3>7 DEF AllCleared, iceVars, Due, Armed, Mode, is_xmega
      <4>2. QED
        BY <4>1
    <3>8. CASE SetBreakpoint
      <4>1. ~refused
        BY <3>1, <3>8 DEF SetBreakpoint
      <4>2. QED
        BY <3>1, <3>2, <3>8, <4>1, SetKeepsPromise DEF Promise!Next
    <3>9. CASE Go
      <4>1. /\ ~refused /\ phase = "setting" /\ phase' = "running"
            /\ UNCHANGED <<bp, momentary, ice, iceSoft, wanted>>
            /\ Adding = {}
        BY <3>1, <3>9 DEF Go
      <4>2. /\ Typed(bp) /\ Sound(bp, {}) /\ On(bp) = Due
            /\ Armed = Held(bp) /\ iceXmega = {} /\ iceXmega' = {}
        BY <3>1, <3>2, <4>1, PromisedProperties, PromisedNext
      <4>3. Held(bp) = On(bp)
        <5>1. \A i \in Index : ~(bp[i].icestatus /\ bp[i].toremove)
          BY <4>1 DEF IInv, SoundOK
        <5>2. \A i \in Index : ~Pending(bp[i])
          BY <4>1, <4>2, SoundEntries DEF Adding, Pending
        <5>3. QED
          BY <3>1, <4>2, <5>1, <5>2, UpToDate
      <4>4. Armed = Due /\ Armed' = Armed /\ Due' = Due
        BY <4>1, <4>2, <4>3 DEF Armed, Due
      <4>5. Mode = "updating" /\ Mode' = "running"
        BY <4>1 DEF Mode
      <4>6. QED
        BY <3>2, <4>1, <4>4, <4>5 DEF Promise!Next, Promise!Run
    <3>10. CASE CommandFails
      <4>1. /\ ~refused /\ phase' = "ended"
            /\ UNCHANGED <<momentary, ice, iceSoft, iceXmega, wanted>>
        BY <3>1, <3>10 DEF CommandFails, iceVars
      <4>2. Armed' = Armed /\ Due' = Due /\ Mode' = "ended"
        BY <4>1 DEF Armed, Due, Mode
      <4>3. QED
        BY <3>2, <4>1, <4>2 DEF Promise!Next, Promise!Fail
    <3>11. CASE TargetStops
      <4>1. phase = "running" /\ iceXmega' = {} /\ UNCHANGED <<ice, iceSoft>>
        BY <3>11 DEF TargetStops
      <4>2. ~refused /\ phase' \in {"stopped", "clearing"}
        <5>1. CASE phase' = "stopped" /\ UNCHANGED refused
          BY <3>1, <5>1
        <5>2. CASE ~(phase' = "stopped" /\ UNCHANGED refused)
          <6>1. \E t, retPC : RunToReturn(t, retPC)
            BY <3>11, <5>2 DEF TargetStops
          <6>2. QED
            BY <2>1, <3>1, <6>1, AskKeepsPromise
        <5>3. QED
          BY <5>1, <5>2
      <4>3. iceXmega = {}
        BY <3>1 DEF IInv, XmegaOK
      <4>4. /\ Armed' = Armed /\ Mode = "running"
            /\ Mode' \in {"stopped", "updating"}
        BY <4>1, <4>2, <4>3 DEF Armed, Mode
      <4>5. QED
        BY <2>1, <3>2, <4>2, <4>4 DEF Promise!Next, Promise!Halt
    <3>12. CASE UNCHANGED vars
      <4>1. UNCHANGED <<Due, Armed, Mode, refused \/ is_xmega>>
        BY <3>12 DEF vars, iceVars, Due, Armed, Mode, is_xmega
      <4>2. QED
        BY <4>1
    <3>13. QED
      BY <3>3, <3>4, <3>5, <3>6, <3>7, <3>8, <3>9, <3>10, <3>11, <3>12
         DEF Next
  <2>5. QED
    BY <2>3, <2>4
<1>3. QED
  BY <1>1, <1>2, Invariance, PTL DEF Spec, PromiseKept, Promise!Spec

-----------------------------------------------------------------------------
(* Slots.                                                                  *)

(* Whatever is refused, what is in the box has the slot it had. *)
SameSlots(t, u) ==
  \A j \in Index : /\ u[j].icestatus = t[j].icestatus
                   /\ t[j].icestatus => u[j].bpnum = t[j].bpnum

LEMMA SameSlotsTwice ==
  ASSUME NEW t, NEW u, NEW v, SameSlots(t, u), SameSlots(u, v)
  PROVE  SameSlots(t, v)
BY DEF SameSlots

LEMMA SameSlotsAlways == \A t : SameSlots(t, t)
BY DEF SameSlots

LEMMA LayoutSlots ==
  ASSUME NEW t, Typed(t)
  PROVE  SameSlots(t, layoutBreakpoints(t).table)
<1> DEFINE u == layoutBreakpoints(t).table
<1>1. \A i \in Index : Kept(t[i], u[i])
  BY LayoutProperties
<1>2. \A i \in Index : ~(t[i].icestatus /\ t[i].toadd)
  BY DEF Typed
<1> HIDE DEF u
<1>3. SameSlots(t, u)
  BY <1>1, <1>2 DEF SameSlots, Kept, Pending
<1>4. QED
  BY <1>3 DEF u

LEMMA DisableSlots ==
  ASSUME NEW t, Typed(t), NEW i \in Index
  PROVE  SameSlots(t, Disable(t, i))
<1>1. t \in [Index -> Entry]
  BY DEF Typed
<1>2. QED
  BY <1>1, DisableProperties DEF SameSlots

LEMMA FitSlots ==
  ASSUME NEW t, Typed(t), NEW i \in Listed(t)
  PROVE  SameSlots(t, Fit(t, i).table)
<1> DEFINE m == MarkForDownload(t, i)
           lay == layoutBreakpoints(m)
           off == Disable(lay.table, i)
<1>1. Typed(m) /\ i \in Index
  BY MarkProperties, ListedProperties
<1>2. SameSlots(t, m)
  <2>1. /\ \A j \in Index \ {i} : m[j] = t[j]
        /\ m[i].icestatus = t[i].icestatus /\ m[i].bpnum = t[i].bpnum
    BY MarkProperties
  <2> HIDE DEF m
  <2>2. QED
    BY <2>1 DEF SameSlots
<1>3. Fit(t, i) =
        IF lay.hadroom THEN Result(lay.table, TRUE)
        ELSE Result(IF off[i].has_mask THEN Disable(off, off[i].mask_pointer)
                    ELSE off, FALSE)
  BY DEF Fit
<1> HIDE DEF m
<1>4. Typed(lay.table) /\ SameSlots(m, lay.table)
  BY <1>1, LayoutProperties, LayoutSlots
<1> HIDE DEF lay
<1>5. Typed(off) /\ SameSlots(lay.table, off)
  BY <1>1, <1>4, DisableTyped, DisableSlots
<1> HIDE DEF off
<1>6. SameSlots(off, Disable(off, off[i].mask_pointer))
  <2>1. off[i] \in Entry
    BY <1>1, <1>5 DEF Typed
  <2>2. off[i].mask_pointer \in Index
    BY <2>1 DEF Entry
  <2>3. QED
    BY <1>5, <2>2, DisableSlots
<1>7. SameSlots(t, lay.table) /\ SameSlots(t, off)
      /\ SameSlots(t, Disable(off, off[i].mask_pointer))
  BY <1>2, <1>4, <1>5, <1>6, SameSlotsTwice
<1>8. Fit(t, i).table \in {lay.table, off, Disable(off, off[i].mask_pointer)}
  BY <1>3 DEF Result
<1>9. QED
  BY <1>7, <1>8

LEMMA EnterSlots ==
  ASSUME NEW t, Typed(t), NEW address, NEW type, Askable(address, type),
         NEW i, i = EntryFor(t, address, type), i + 1 # MaxTotal
  PROVE  SameSlots(t, Enter(t, i, address, type))
<1>1. i \in Listed(t) \cup {LastIndex(t)}
  BY EntryForProperties
<1>2. QED
  BY <1>1, EnterProperties DEF SameSlots

LEMMA AddPlainSlots ==
  ASSUME NEW t, Typed(t), NEW address, NEW type, Askable(address, type)
  PROVE  SameSlots(t, AddPlain(t, address, type).table)
<1> DEFINE i == EntryFor(t, address, type)
           u == Enter(t, i, address, type)
<1>1. CASE i + 1 = MaxTotal
  BY <1>1, SameSlotsAlways DEF AddPlain, Result
<1>2. CASE i + 1 # MaxTotal
  <2>1. Typed(u) /\ i \in Listed(u) /\ SameSlots(t, u)
    BY <1>2, EnterTyped, EnterSlots
  <2>2. AddPlain(t, address, type) = Fit(u, i)
    BY <1>2 DEF AddPlain
  <2> HIDE DEF u, i
  <2>3. QED
    BY <2>1, <2>2, FitSlots, SameSlotsTwice
<1>3. QED
  BY <1>1, <1>2

LEMMA AbandonSlots ==
  ASSUME NEW t, Typed(t), NEW i \in Index
  PROVE  /\ SameSlots(t, Abandon(t, i))
         /\ SameSlots(t, [Abandon(t, i) EXCEPT ![i].has_mask = TRUE])
         /\ \A p : SameSlots(t, [t EXCEPT ![i].mask_pointer = p])
<1> DEFINE e == [t[i] EXCEPT !.last = TRUE, !.enabled = FALSE]
           d == [e EXCEPT !.has_mask = TRUE]
           f(p) == [t[i] EXCEPT !.mask_pointer = p]
<1>1. t \in [Index -> Entry] /\ t[i] \in Entry
  BY DEF Typed
<1>2. /\ e.icestatus = t[i].icestatus /\ e.bpnum = t[i].bpnum
      /\ d.icestatus = t[i].icestatus /\ d.bpnum = t[i].bpnum
      /\ \A p : f(p).icestatus = t[i].icestatus /\ f(p).bpnum = t[i].bpnum
  BY <1>1 DEF Entry
<1>3. Abandon(t, i) = [j \in Index |-> IF j = i THEN e ELSE t[j]]
  BY <1>1 DEF Abandon
<1> HIDE DEF e
<1>4. [Abandon(t, i) EXCEPT ![i].has_mask = TRUE]
        = [j \in Index |-> IF j = i THEN d ELSE t[j]]
  BY <1>1, <1>3
<1>5. \A p : [t EXCEPT ![i].mask_pointer = p]
               = [j \in Index |-> IF j = i THEN f(p) ELSE t[j]]
  BY <1>1
<1> HIDE DEF d, f
<1>6. QED
  BY <1>2, <1>3, <1>4, <1>5 DEF SameSlots

LEMMA AddSlots ==
  ASSUME NEW t, Typed(t), NEW r \in Requests, NEW length \in LengthsOf(r)
  PROVE  SameSlots(t, addBreakpoint(t, r.address, r.type, length).table)
<1> DEFINE address == r.address
           type == r.type
           i == EntryFor(t, address, type)
           in == Enter(t, i, address, type)
           masked == AddPlain(in, -length, "DATA_MASK")
           p == MaskIndex(masked.table, i, -length)
           to == [masked.table EXCEPT ![i].mask_pointer = p]
           done == addBreakpoint(t, address, type, length).table
<1>1. Askable(address, type) /\ length \in Nat
  BY RequestProperties
<1>2. Askable(-length, "DATA_MASK")
  BY <1>1 DEF Askable
<1>3. CASE ~(length > 1 /\ type \in WatchTypes)
  <2>1. done = AddPlain(t, address, type).table
    BY <1>3 DEF addBreakpoint
  <2>2. QED
    BY <1>1, <2>1, AddPlainSlots
<1>4. CASE length > 1 /\ type \in WatchTypes
  <2>1. done = AddRange(t, address, type, length).table
    BY <1>4 DEF addBreakpoint
  <2>2. CASE i + 1 = MaxTotal
    BY <2>1, <2>2, SameSlotsAlways DEF AddRange, Result
  <2>3. CASE i + 1 # MaxTotal
    <3>1. \/ done = Abandon(in, i)
          \/ done = [Abandon(masked.table, i) EXCEPT ![i].has_mask = TRUE]
          \/ done = Fit(to, i).table
      BY <2>1, <2>3 DEF AddRange, Result
    <3>2. Typed(in) /\ SameSlots(t, in) /\ i \in Listed(in) /\ i \in Index
      BY <1>1, <2>3, EnterTyped, EnterSlots
    <3> HIDE DEF in, i, done
    <3>3. /\ Typed(masked.table) /\ SameSlots(in, masked.table)
          /\ i \in Listed(masked.table)
      BY <1>2, <3>2, AddPlainTyped, AddPlainSlots
    <3> HIDE DEF masked
    <3>4. p \in Index
      BY <3>3, MaskIndexIs
    <3> HIDE DEF p
    <3>5. Typed(to) /\ i \in Listed(to)
      BY <3>2, <3>3, <3>4, PointTyped
    <3>6. SameSlots(masked.table, to)
      BY <3>2, <3>3, AbandonSlots
    <3> HIDE DEF to
    <3>7. CASE done = Abandon(in, i)
      <4>1. SameSlots(in, done)
        BY <3>2, <3>7, AbandonSlots
      <4>2. QED
        BY <3>2, <4>1, SameSlotsTwice DEF done
    <3>8. CASE done = [Abandon(masked.table, i) EXCEPT ![i].has_mask = TRUE]
      <4>1. SameSlots(masked.table, done)
        BY <3>2, <3>3, <3>8, AbandonSlots
      <4>2. SameSlots(t, masked.table)
        BY <3>2, <3>3, SameSlotsTwice
      <4>3. QED
        BY <4>1, <4>2, SameSlotsTwice DEF done
    <3>9. CASE done = Fit(to, i).table
      <4>1. SameSlots(to, done)
        BY <3>5, <3>9, FitSlots
      <4>2. SameSlots(t, to)
        BY <3>2, <3>3, <3>6, SameSlotsTwice
      <4>3. QED
        BY <4>1, <4>2, SameSlotsTwice DEF done
    <3>10. QED
      BY <3>1, <3>7, <3>8, <3>9
  <2>4. QED
    BY <2>2, <2>3
<1>5. QED
  BY <1>3, <1>4

LEMMA RunSlots ==
  ASSUME NEW t, Typed(t), SameSlots(bp, t),
         \/ StartUpdate(t)
         \/ \E retPC \in CodeAddrs : RunToReturn(t, retPC)
  PROVE  SameSlots(bp, bp')
<1>1. CASE StartUpdate(t)
  BY <1>1, LayoutSlots, SameSlotsTwice DEF StartUpdate
<1>2. CASE \E retPC \in CodeAddrs : RunToReturn(t, retPC)
  <2>1. PICK retPC \in CodeAddrs : RunToReturn(t, retPC)
    BY <1>2
  <2> DEFINE added == AddPlain(t, retPC, "CODE")
  <2>2. Askable(retPC, "CODE")
    BY DEF Askable
  <2>3. Typed(added.table) /\ SameSlots(t, added.table)
    BY <2>2, AddPlainTyped, AddPlainSlots
  <2>4. bp' = added.table \/ bp' = layoutBreakpoints(added.table).table
    BY <2>1 DEF RunToReturn, StartUpdate
  <2> HIDE DEF added
  <2>5. SameSlots(added.table, layoutBreakpoints(added.table).table)
    BY <2>3, LayoutSlots
  <2>6. QED
    BY <2>3, <2>4, <2>5, SameSlotsTwice
<1>3. QED
  BY <1>1, <1>2

(* The box has no way to move a breakpoint: one that is there stays in its *)
(* slot until it is taken out, also when addBreakpoint() or a layout fails *)
(* midway.                                                                 *)
THEOREM SlotsAreKept == Spec => SlotKept
<1> DEFINE Step == \A i \in Index : bp[i].icestatus /\ bp'[i].icestatus =>
                                      bp'[i].bpnum = bp[i].bpnum
<1>1. IInv /\ [Next]_vars => [Step]_vars
  <2> SUFFICES ASSUME IInv, Next
               PROVE  Step
    OBVIOUS
  <2>1. TypeOK /\ Typed(bp) /\ bp \in [Index -> Entry]
    BY DEF IInv, Typed
  <2>2. CASE InsertBreakpoint
    <3>1. \E r \in Requests : \E length \in LengthsOf(r) :
            bp' = addBreakpoint(bp, r.address, r.type, length).table
      BY <2>2 DEF InsertBreakpoint
    <3>2. SameSlots(bp, bp')
      BY <2>1, <3>1, AddSlots
    <3>3. QED
      BY <3>2 DEF SameSlots
  <2>3. CASE RemoveBreakpoint
    <3>1. \E r \in Requests : bp' = deleteBreakpoint(bp, r.address, r.type)
      BY <2>3 DEF RemoveBreakpoint
    <3>2. QED
      BY <2>1, <3>1, DeleteProperties
  <2>4. CASE jtagContinue \/ StepIntoInterrupt
    <3>1. \/ StartUpdate(bp)
          \/ \E retPC \in CodeAddrs : RunToReturn(bp, retPC)
      BY <2>4 DEF jtagContinue, StepIntoInterrupt
    <3>2. SameSlots(bp, bp')
      BY <2>1, <3>1, RunSlots, SameSlotsAlways
    <3>3. QED
      BY <3>2 DEF SameSlots
  <2>5. CASE ClearBreakpoint
    <3>1. PICK i \in Listed(bp) :
            bp' = [bp EXCEPT ![i].icestatus = FALSE, ![i].toremove = FALSE]
      BY <2>1, <2>5, ClearStep
    <3>2. i \in Index /\ bp[i] \in Entry
      BY <2>1, ListedProperties
    <3>3. bp'[i].bpnum = bp[i].bpnum /\ \A j \in Index \ {i} : bp'[j] = bp[j]
      BY <2>1, <3>1, <3>2 DEF Entry
    <3>4. QED
      BY <3>3
  <2>6. CASE SetBreakpoint
    <3>1. PICK i \in Listed(bp) : CollectXmega(i) \/ Download(i)
      BY <2>1, <2>6, SetStep
    <3>2. i \in Index /\ bp[i] \in Entry
      BY <2>1, ListedProperties
    <3>3. CASE bp' = bp
      BY <3>3
    <3>4. CASE bp' = [bp EXCEPT ![i].toremove = TRUE, ![i].icestatus = FALSE,
                                ![i].toadd = FALSE]
      <4>1. bp'[i].bpnum = bp[i].bpnum /\ \A j \in Index \ {i} : bp'[j] = bp[j]
        BY <2>1, <3>2, <3>4 DEF Entry
      <4>2. QED
        BY <4>1
    <3>5. CASE bp' = [bp EXCEPT ![i].icestatus = TRUE, ![i].toadd = FALSE]
      <4>1. bp'[i].bpnum = bp[i].bpnum /\ \A j \in Index \ {i} : bp'[j] = bp[j]
        BY <2>1, <3>2, <3>5 DEF Entry
      <4>2. QED
        BY <4>1
    <3>6. QED
      BY <3>1, <3>3, <3>4, <3>5 DEF CollectXmega, Download
  <2>7. CASE AllCleared \/ Go \/ CommandFails
    BY <2>7 DEF AllCleared, Go, CommandFails
  <2>8. CASE TargetStops
    <3> DEFINE gone == deleteBreakpoint(bp, momentary, "CODE")
    <3>1. Typed(gone) /\ SameSlots(bp, gone)
      BY <2>1, DeleteProperties DEF SameSlots
    <3>2. \/ bp' = bp \/ bp' = gone
          \/ momentary \in CodeAddrs /\ RunToReturn(gone, momentary)
      BY <2>1, <2>8 DEF TargetStops, TypeOK
    <3> HIDE DEF gone
    <3>3. SameSlots(bp, bp')
      BY <3>1, <3>2, RunSlots, SameSlotsAlways
    <3>4. QED
      BY <3>3 DEF SameSlots
  <2>9. QED
    BY <2>2, <2>3, <2>4, <2>5, <2>6, <2>7, <2>8 DEF Next
<1>2. SlotKept <=> [][Step]_vars
  BY DEF SlotKept
<1> HIDE DEF Step
<1>3. QED
  BY <1>1, <1>2, Invariance, PTL DEF Spec

=============================================================================
