------------------------ MODULE MkIBreakpointsProofs ------------------------
(***************************************************************************)
(* Proofs about MkIBreakpoints for all addresses and all limits that the   *)
(* four registers can serve.  The argument: the limits bound what is left  *)
(* for X and Y after Z0 and Z1 have taken two code breakpoints, and a      *)
(* momentary breakpoint that is put back for another run takes the place   *)
(* it had, so the limits hold without a second look at them.  And a        *)
(* breakpoint is in one array only, by its type, and once, because it is   *)
(* looked for before it is inserted; so taking it out takes out all of it, *)
(* and a momentary one is never one that GDB was told is set.              *)
(***************************************************************************)
EXTENDS MkIBreakpoints, SequenceLemmas

Within(code, data) ==
  /\ code \in Seq(CodeBreakpoints) /\ Len(code) <= MAX_BREAKPOINTS_CODE
  /\ data \in Seq(DataBreakpoints) /\ Len(data) <= MAX_BREAKPOINTS_DATA
  /\ Len(code) + Len(data) <= MAX_BREAKPOINTS

BoxOK ==
  /\ z \in Seq(CodeBreakpoints)
  /\ xy \in [{"X", "Y"} -> Breakpoints \cup {Unset}]
  /\ mode \subseteq {"X", "Y"}

MomentaryOK ==
  \/ momentary = {}
  \/ phase # "stopped" /\ \E b \in ToSet(bpCode) : momentary = {b}

(* What TableIsAsAsked says, array by array; and a breakpoint that is only *)
(* momentary is not one that GDB was told is set.                          *)
Listed(code, data) == ToSet(code) \cup ToSet(data)

AskedOK(code, data, asked, moment) ==
  /\ IsInjective(code) /\ IsInjective(data)
  /\ Listed(code, data) = asked \cup moment
  /\ asked \cap moment = {}

(* The inductive invariant. *)
IInv ==
  /\ Within(bpCode, bpData)
  /\ BoxOK
  /\ MomentaryOK
  /\ phase \in {"stopped", "running", "ended"}
  /\ wanted \subseteq Breakpoints
  /\ refused \in BOOLEAN
  /\ EveryBreakpointArmed
  /\ ~refused => AskedOK(bpCode, bpData, wanted, momentary)

-----------------------------------------------------------------------------
(* Lemmas about the arrays.                                                *)

(* Removing a breakpoint that is in an array makes it shorter by one, and  *)
(* takes it out altogether where it is not in the array twice.             *)
LEMMA RemovedShrinks ==
  ASSUME NEW S, NEW s \in Seq(S), NEW b \in ToSet(s)
  PROVE  /\ Removed(s, b) \in Seq(S)
         /\ Len(Removed(s, b)) = Len(s) - 1
         /\ IsInjective(s) => /\ IsInjective(Removed(s, b))
                              /\ ToSet(Removed(s, b)) = ToSet(s) \ {b}
<1> DEFINE I == {i \in 1 .. Len(s) : s[i] = b}
           m == Min(I)
<1>1. I # {} /\ I \in SUBSET Nat
  BY ToSetProperties
<1>2. m \in I
  BY <1>1, MinIsLeast
<1>3. Removed(s, b) = RemoveAt(s, m)
  BY <1>1 DEF Removed, RemoveFirst, SelectInSeq
<1>4. m \in 1 .. Len(s) /\ s[m] = b
  BY <1>2
<1> HIDE DEF I, m
<1>5. /\ RemoveAt(s, m) \in Seq(S)
      /\ Len(RemoveAt(s, m)) = Len(s) - 1
      /\ ToSet(s) = ToSet(RemoveAt(s, m)) \cup {b}
      /\ IsInjective(s) => /\ IsInjective(RemoveAt(s, m))
                           /\ b \notin ToSet(RemoveAt(s, m))
  BY <1>4, RemoveAtProperties, ToSetOfRemoveAt
<1>6. QED
  BY <1>3, <1>5

(* Removing a breakpoint that is not there changes nothing. *)
LEMMA RemovedAbsent ==
  ASSUME NEW S, NEW s \in Seq(S), NEW b, b \notin ToSet(s)
  PROVE  Removed(s, b) = s
<1>1. DOMAIN s = 1 .. Len(s)
  BY LenProperties
<1>2. QED
  BY <1>1 DEF ToSet, Removed, RemoveFirst

(* deleteBreakpoint() keeps the arrays within the limits. *)
LEMMA DeleteKeepsWithin ==
  ASSUME NEW b, NEW code, NEW data, Within(code, data)
  PROVE  Within(Removed(code, b), Removed(data, b))
<1>1. /\ code \in Seq(CodeBreakpoints) /\ data \in Seq(DataBreakpoints)
      /\ Len(code) \in Nat /\ Len(data) \in Nat
  BY DEF Within
<1>2. /\ Removed(code, b) \in Seq(CodeBreakpoints)
      /\ Len(Removed(code, b)) \in {Len(code), Len(code) - 1}
  BY <1>1, RemovedShrinks, RemovedAbsent
<1>3. /\ Removed(data, b) \in Seq(DataBreakpoints)
      /\ Len(Removed(data, b)) \in {Len(data), Len(data) - 1}
  BY <1>1, RemovedShrinks, RemovedAbsent
<1>4. QED
  BY <1>1, <1>2, <1>3, MkIAssumption DEF Within

(* addBreakpoint() keeps the arrays within the limits it was admitted by,  *)
(* and a code breakpoint is then in the array.                             *)
LEMMA AddKeepsWithin ==
  ASSUME Within(bpCode, bpData), NEW b \in Breakpoints, Fits(b),
         addBreakpoint(b)
  PROVE  /\ Within(bpCode', bpData')
         /\ b \in CodeBreakpoints => b \in ToSet(bpCode')
<1>1. /\ bpCode \in Seq(CodeBreakpoints) /\ bpData \in Seq(DataBreakpoints)
      /\ Len(bpCode) \in Nat /\ Len(bpData) \in Nat
  BY DEF Within
<1>2. b \in CodeBreakpoints <=> b.type = "CODE"
  BY MkIAssumption
     DEF Breakpoints, CodeBreakpoints, DataBreakpoints, Code
<1>3. CASE b.type = "CODE"
  <2>1. bpCode' = Append(bpCode, b) /\ bpData' = bpData
    BY <1>3 DEF addBreakpoint
  <2>2. /\ bpCode' \in Seq(CodeBreakpoints)
        /\ Len(bpCode') = Len(bpCode) + 1
        /\ bpCode'[Len(bpCode) + 1] = b
    BY <1>1, <1>2, <1>3, <2>1, AppendProperties
  <2>3. b \in ToSet(bpCode')
    BY <1>1, <2>2, LenProperties DEF ToSet
  <2>4. /\ Len(bpCode) # MAX_BREAKPOINTS_CODE
        /\ Len(bpCode) + Len(bpData) # MAX_BREAKPOINTS
        /\ {MAX_BREAKPOINTS, MAX_BREAKPOINTS_CODE} \subseteq Nat
    BY <1>3, MkIAssumption DEF Fits
  <2>5. /\ Len(bpCode) <= MAX_BREAKPOINTS_CODE
        /\ Len(bpCode) + Len(bpData) <= MAX_BREAKPOINTS
        /\ Len(bpData) <= MAX_BREAKPOINTS_DATA
    BY DEF Within
  <2>6. /\ Len(bpCode) + 1 <= MAX_BREAKPOINTS_CODE
        /\ (Len(bpCode) + 1) + Len(bpData) <= MAX_BREAKPOINTS
    BY <1>1, <2>4, <2>5
  <2>7. QED
    BY <1>1, <2>1, <2>2, <2>3, <2>5, <2>6 DEF Within
<1>4. CASE b.type # "CODE"
  <2>1. bpData' = Append(bpData, b) /\ bpCode' = bpCode
    BY <1>4 DEF addBreakpoint
  <2>2. b \in DataBreakpoints
    BY <1>2, <1>4 DEF Breakpoints
  <2>3. bpData' \in Seq(DataBreakpoints) /\ Len(bpData') = Len(bpData) + 1
    BY <1>1, <2>1, <2>2, AppendProperties
  <2>4. /\ Len(bpData) # MAX_BREAKPOINTS_DATA
        /\ Len(bpCode) + Len(bpData) # MAX_BREAKPOINTS
        /\ {MAX_BREAKPOINTS, MAX_BREAKPOINTS_DATA} \subseteq Nat
    BY <1>4, MkIAssumption DEF Fits
  <2>5. /\ Len(bpCode) <= MAX_BREAKPOINTS_CODE
        /\ Len(bpCode) + Len(bpData) <= MAX_BREAKPOINTS
        /\ Len(bpData) <= MAX_BREAKPOINTS_DATA
    BY DEF Within
  <2>6. /\ Len(bpData) + 1 <= MAX_BREAKPOINTS_DATA
        /\ Len(bpCode) + (Len(bpData) + 1) <= MAX_BREAKPOINTS
    BY <1>1, <2>4, <2>5
  <2>7. QED
    BY <1>1, <1>2, <1>4, <2>1, <2>3, <2>5, <2>6 DEF Within
<1>5. QED
  BY <1>3, <1>4

(* The arrays share no breakpoint. *)
LEMMA ArraysApart ==
  ASSUME NEW code, NEW data, Within(code, data)
  PROVE  /\ ToSet(code) \subseteq CodeBreakpoints
         /\ ToSet(data) \subseteq DataBreakpoints
         /\ CodeBreakpoints \cap DataBreakpoints = {}
         /\ \A b \in CodeBreakpoints : b.type = "CODE"
         /\ \A b \in DataBreakpoints : b.type # "CODE"
<1>1. ToSet(code) \subseteq CodeBreakpoints /\ ToSet(data) \subseteq DataBreakpoints
  BY ToSetProperties DEF Within
<1>2. /\ \A b \in CodeBreakpoints : b.type = "CODE"
      /\ \A b \in DataBreakpoints : b.type # "CODE"
  BY MkIAssumption DEF CodeBreakpoints, DataBreakpoints, Code
<1>3. QED
  BY <1>1, <1>2

(* addBreakpoint() puts one more breakpoint in the arrays. *)
LEMMA AddEnters ==
  ASSUME Within(bpCode, bpData), NEW b \in Breakpoints, addBreakpoint(b)
  PROVE  /\ Listed(bpCode', bpData') = Listed(bpCode, bpData) \cup {b}
         /\ /\ IsInjective(bpCode) /\ IsInjective(bpData)
            /\ b \notin Listed(bpCode, bpData)
            => IsInjective(bpCode') /\ IsInjective(bpData')
<1>1. bpCode \in Seq(CodeBreakpoints) /\ bpData \in Seq(DataBreakpoints)
  BY DEF Within
<1>2. CASE b.type = "CODE"
  <2>1. b \in CodeBreakpoints
    BY <1>2, ArraysApart DEF Breakpoints
  <2>2. bpCode' = Append(bpCode, b) /\ bpData' = bpData
    BY <1>2 DEF addBreakpoint
  <2>3. QED
    BY <1>1, <2>1, <2>2, ToSetOfAppend DEF Listed
<1>3. CASE b.type # "CODE"
  <2>1. b \in DataBreakpoints
    BY <1>3, ArraysApart DEF Breakpoints
  <2>2. bpData' = Append(bpData, b) /\ bpCode' = bpCode
    BY <1>3 DEF addBreakpoint
  <2>3. QED
    BY <1>1, <2>1, <2>2, ToSetOfAppend DEF Listed
<1>4. QED
  BY <1>2, <1>3

(* deleteBreakpoint() takes one out, or changes nothing. *)
LEMMA DeleteTakesOut ==
  ASSUME NEW code, NEW data, Within(code, data),
         IsInjective(code), IsInjective(data), NEW b
  PROVE  /\ IsInjective(Removed(code, b)) /\ IsInjective(Removed(data, b))
         /\ Listed(Removed(code, b), Removed(data, b)) = Listed(code, data) \ {b}
<1>1. code \in Seq(CodeBreakpoints) /\ data \in Seq(DataBreakpoints)
  BY DEF Within
<1>2. ASSUME NEW S, NEW s \in Seq(S), IsInjective(s)
      PROVE  IsInjective(Removed(s, b)) /\ ToSet(Removed(s, b)) = ToSet(s) \ {b}
  BY <1>2, RemovedShrinks, RemovedAbsent
<1>3. QED
  BY <1>1, <1>2 DEF Listed

-----------------------------------------------------------------------------
(* updateBreakpoints() finds a register for every breakpoint.              *)

(* What is left for X and Y: at most two, and all that Z0 and Z1 leave.    *)
LEMMA AtMostTwoLeft ==
  ASSUME NEW code, NEW data, Within(code, data)
  PROVE  LET rest == ForXY(code, data) IN
         /\ rest \in Seq(Breakpoints)
         /\ Len(rest) <= 2
         /\ \A i \in 3 .. Len(code) : \E j \in 1 .. Len(rest) : rest[j] = code[i]
         /\ \A i \in 1 .. Len(data) : \E j \in 1 .. Len(rest) : rest[j] = data[i]
<1> DEFINE n == Len(code)
           t == SubSeq(code, 3, n)
           rest == t \o data
<1>1. /\ code \in Seq(Breakpoints) /\ data \in Seq(Breakpoints)
      /\ n \in Nat /\ Len(data) \in Nat
  BY SeqMonotonic, LenProperties DEF Within, Breakpoints
<1>2. /\ t \in Seq(Breakpoints)
      /\ Len(t) = IF n > 2 THEN n - 2 ELSE 0
      /\ \A i \in 1 .. Len(t) : t[i] = code[i + 2]
  <2>1. CASE n > 2
    <3>1. /\ t \in Seq(Breakpoints)
          /\ Len(t) = n - 3 + 1
          /\ \A i \in 1 .. n - 3 + 1 : t[i] = code[3 + i - 1]
      BY <1>1, <2>1, PartOf
    <3>2. n - 3 + 1 = n - 2
      BY <1>1
    <3>3. \A i \in 1 .. n - 2 : 3 + i - 1 = i + 2
      BY <1>1
    <3>4. QED
      BY <2>1, <3>1, <3>2, <3>3
  <2>2. CASE ~(n > 2)
    <3>1. t = <<>>
      BY <1>1, <2>2, SubSeqEmpty
    <3>2. <<>> \in Seq(Breakpoints) /\ Len(<<>>) = 0
      BY EmptySeq
    <3>3. QED
      BY <2>2, <3>1, <3>2
  <2>3. QED
    BY <2>1, <2>2
<1> HIDE DEF t
<1>3. /\ rest \in Seq(Breakpoints)
      /\ Len(rest) = Len(t) + Len(data)
      /\ \A i \in 1 .. Len(t) + Len(data) :
           rest[i] = IF i <= Len(t) THEN t[i] ELSE data[i - Len(t)]
  BY <1>1, <1>2, ConcatProperties
<1> HIDE DEF rest
<1>4. Len(rest) <= 2
  <2>1. /\ n + Len(data) <= MAX_BREAKPOINTS /\ Len(data) <= MAX_BREAKPOINTS_DATA
        /\ MAX_BREAKPOINTS <= 4 /\ MAX_BREAKPOINTS_DATA <= 2
        /\ MAX_BREAKPOINTS \in Nat /\ MAX_BREAKPOINTS_DATA \in Nat
    BY MkIAssumption, RegisterAssumption DEF Within
  <2>2. QED
    BY <1>1, <1>2, <1>3, <2>1
<1>5. ASSUME NEW i \in 3 .. n
      PROVE  \E j \in 1 .. Len(rest) : rest[j] = code[i]
  <2>1. PICK j \in 1 .. Len(t) : j + 2 = i
    BY <1>1, <1>2
  <2>2. j \in 1 .. Len(rest) /\ j <= Len(t) /\ rest[j] = t[j]
    BY <1>1, <1>2, <1>3
  <2>3. QED
    BY <1>2, <2>1, <2>2
<1>6. ASSUME NEW i \in 1 .. Len(data)
      PROVE  \E j \in 1 .. Len(rest) : rest[j] = data[i]
  <2>1. Len(t) \in Nat
    BY <1>1, <1>2
  <2>2. PICK j \in 1 .. Len(t) + Len(data) : j = Len(t) + i
    BY <1>1, <2>1
  <2>3. ~(j <= Len(t)) /\ j - Len(t) = i
    BY <1>1, <2>1, <2>2
  <2>4. QED
    BY <1>3, <2>2, <2>3
<1>7. QED
  BY <1>3, <1>4, <1>5, <1>6 DEF ForXY, t, rest

(* Up to two breakpoints for X and Y: each goes to one that is turned on.  *)
LEMMA SetXYArms ==
  ASSUME NEW rest \in Seq(Breakpoints), Len(rest) <= 2, SetXY(rest),
         xy \in [{"X", "Y"} -> Breakpoints \cup {Unset}],
         mode \subseteq {"X", "Y"}
  PROVE  /\ xy' \in [{"X", "Y"} -> Breakpoints \cup {Unset}]
         /\ mode' \subseteq {"X", "Y"}
         /\ \A j \in 1 .. Len(rest) : rest[j] \in {xy'[r] : r \in mode'}
<1>1. Len(rest) \in Nat
  BY LenProperties
<1>2. CASE rest = <<>>
  <2>1. 1 .. Len(rest) = {}
    BY <1>2
  <2>2. QED
    BY <1>2, <2>1 DEF SetXY
<1>3. CASE rest # <<>>
  <2>1. Len(rest) \in {1, 2}
    <3>1. Len(rest) \in Nat \ {0}
      BY <1>3, EmptySeq
    <3>2. \A n \in Nat \ {0} : n <= 2 => n \in {1, 2}
      OBVIOUS
    <3>3. QED
      BY <3>1, <3>2
  <2>2. /\ rest[1] \in Breakpoints
        /\ Len(rest) = 2 => rest[2] \in Breakpoints
    BY <2>1, ElementOfSeq
  <2>3. /\ xy' = [X |-> rest[1],
                  Y |-> IF Len(rest) > 1 THEN rest[2] ELSE xy["Y"]]
        /\ mode' = IF Len(rest) = 1 THEN {"X"} ELSE {"X", "Y"}
    BY <1>3 DEF SetXY, ModeOf
  <2>4. xy'["X"] = rest[1] /\ (Len(rest) = 2 => xy'["Y"] = rest[2])
    BY <2>1, <2>3
  <2>5. xy' \in [{"X", "Y"} -> Breakpoints \cup {Unset}]
    <3>1. (IF Len(rest) > 1 THEN rest[2] ELSE xy["Y"]) \in Breakpoints \cup {Unset}
      BY <2>1, <2>2
    <3>2. QED
      BY <2>2, <2>3, <3>1
  <2>6. \A j \in 1 .. Len(rest) : rest[j] \in {xy'[r] : r \in mode'}
    <3>1. CASE Len(rest) = 1
      BY <2>3, <2>4, <3>1
    <3>2. CASE Len(rest) = 2
      <4>1. mode' = {"X", "Y"}
        BY <2>3, <3>2
      <4>2. rest[1] \in {xy'[r] : r \in mode'} /\ rest[2] \in {xy'[r] : r \in mode'}
        BY <2>4, <3>2, <4>1
      <4>3. \A j \in 1 .. Len(rest) : j = 1 \/ j = 2
        BY <3>2
      <4>4. QED
        BY <4>2, <4>3
    <3>3. QED
      BY <2>1, <3>1, <3>2
  <2>7. QED
    BY <2>3, <2>5, <2>6
<1>4. QED
  BY <1>2, <1>3

(* A run arms every breakpoint of the arrays. *)
LEMMA UpdateArms ==
  ASSUME NEW code, NEW data, Within(code, data), BoxOK,
         updateBreakpoints(code, data)
  PROVE  BoxOK' /\ ToSet(code) \cup ToSet(data) \subseteq Armed'
<1> DEFINE rest == ForXY(code, data)
           k == IF Len(code) < 2 THEN Len(code) ELSE 2
<1>1. /\ code \in Seq(CodeBreakpoints) /\ data \in Seq(DataBreakpoints)
      /\ Len(code) \in Nat /\ Len(data) \in Nat
      /\ DOMAIN code = 1 .. Len(code) /\ DOMAIN data = 1 .. Len(data)
  BY LenProperties DEF Within
<1>2. /\ rest \in Seq(Breakpoints) /\ Len(rest) <= 2
      /\ \A i \in 3 .. Len(code) : \E j \in 1 .. Len(rest) : rest[j] = code[i]
      /\ \A i \in 1 .. Len(data) : \E j \in 1 .. Len(rest) : rest[j] = data[i]
  BY AtMostTwoLeft
<1>3. z' = SubSeq(code, 1, k) /\ SetXY(rest)
  BY DEF updateBreakpoints
<1> HIDE DEF rest
<1>4. k \in Nat /\ k <= Len(code) /\ 1 <= k + 1
  BY <1>1
<1>5. /\ z' \in Seq(CodeBreakpoints)
      /\ Len(z') = k - 1 + 1
      /\ \A i \in 1 .. k - 1 + 1 : z'[i] = code[1 + i - 1]
  BY <1>1, <1>3, <1>4, PartOf
<1>6. /\ xy' \in [{"X", "Y"} -> Breakpoints \cup {Unset}]
      /\ mode' \subseteq {"X", "Y"}
      /\ \A j \in 1 .. Len(rest) : rest[j] \in {xy'[r] : r \in mode'}
  BY <1>2, <1>3, SetXYArms DEF BoxOK
<1>7. \A i \in 1 .. k : code[i] \in ToSet(z')
  <2>1. k - 1 + 1 = k /\ \A i \in 1 .. k : 1 + i - 1 = i
    BY <1>4
  <2>2. Len(z') = k /\ \A i \in 1 .. k : z'[i] = code[i]
    BY <1>5, <2>1
  <2>3. DOMAIN z' = 1 .. k
    BY <1>5, <2>2, LenProperties
  <2>4. QED
    BY <2>2, <2>3 DEF ToSet
<1>8. \A i \in 1 .. Len(code) : i \in 1 .. k \/ i \in 3 .. Len(code)
  BY <1>1
<1>9. ToSet(code) \subseteq Armed'
  BY <1>1, <1>2, <1>6, <1>7, <1>8 DEF Armed, ToSet
<1>10. ToSet(data) \subseteq Armed'
  BY <1>1, <1>2, <1>6 DEF Armed, ToSet
<1>11. QED
  BY <1>5, <1>6, <1>9, <1>10 DEF BoxOK

-----------------------------------------------------------------------------
(* The invariant.                                                          *)

LEMMA InitInv == Init => IInv
<1> SUFFICES ASSUME Init PROVE IInv
  OBVIOUS
<1>1. Within(bpCode, bpData)
  <2>1. <<>> \in Seq(CodeBreakpoints) /\ <<>> \in Seq(DataBreakpoints)
        /\ Len(<<>>) = 0
    BY EmptySeq
  <2>2. QED
    BY <2>1, MkIAssumption DEF Init, Within
<1>2. BoxOK
  BY EmptySeq DEF Init, BoxOK
<1>3. AskedOK(bpCode, bpData, wanted, momentary)
  BY DEF Init, AskedOK, Listed, ToSet, IsInjective
<1>4. QED
  BY <1>1, <1>2, <1>3 DEF Init, IInv, MomentaryOK, EveryBreakpointArmed

(* Run: the target runs with the new arrays, or the session ends.          *)
LEMMA RunInv ==
  ASSUME IInv, Run, Within(bpCode', bpData'),
         momentary' = {} \/ \E b \in ToSet(bpCode') : momentary' = {b},
         wanted' \subseteq Breakpoints, refused' \in BOOLEAN,
         ~refused' => AskedOK(bpCode', bpData', wanted', momentary')
  PROVE  IInv'
<1>1. BoxOK
  BY DEF IInv
<1>2. CASE updateBreakpoints(bpCode', bpData') /\ phase' = "running"
  <2>1. BoxOK' /\ ToSet(bpCode') \cup ToSet(bpData') \subseteq Armed'
    BY <1>1, <1>2, UpdateArms
  <2>2. QED
    BY <1>2, <2>1 DEF IInv, MomentaryOK, EveryBreakpointArmed
<1>3. CASE phase' = "ended" /\ UNCHANGED box
  <2>1. BoxOK'
    BY <1>1, <1>3 DEF BoxOK, box
  <2>2. QED
    BY <1>3, <2>1 DEF IInv, MomentaryOK, EveryBreakpointArmed
<1>4. QED
  BY <1>2, <1>3 DEF Run

LEMMA InsertBreakpointInv == IInv /\ InsertBreakpoint => IInv'
<1> SUFFICES ASSUME IInv, InsertBreakpoint PROVE IInv'
  OBVIOUS
<1>1. PICK b \in Breakpoints \ wanted :
        /\ wanted' = wanted \cup {b}
        /\ IF Fits(b) THEN addBreakpoint(b) /\ UNCHANGED refused
           ELSE refused' = TRUE /\ UNCHANGED table
  BY DEF InsertBreakpoint
<1>2. /\ phase = "stopped" /\ momentary = {}
      /\ UNCHANGED <<phase, momentary, z, xy, mode>>
  BY DEF InsertBreakpoint, IInv, MomentaryOK, box
<1>3. Within(bpCode', bpData') /\ refused' \in BOOLEAN
  <2>1. CASE Fits(b)
    BY <1>1, <2>1, AddKeepsWithin DEF IInv
  <2>2. CASE ~Fits(b)
    BY <1>1, <2>2 DEF IInv, table
  <2>3. QED
    BY <2>1, <2>2
<1>4. BoxOK'
  BY <1>2 DEF IInv, BoxOK
<1>5. ~refused' => AskedOK(bpCode', bpData', wanted', momentary')
  <2> SUFFICES ASSUME ~refused' PROVE AskedOK(bpCode', bpData', wanted', {})
    BY <1>2
  <2>1. ~refused /\ addBreakpoint(b)
    BY <1>1
  <2>2. AskedOK(bpCode, bpData, wanted, {})
    BY <1>2, <2>1 DEF IInv
  <2>3. QED
    BY <1>1, <2>1, <2>2, AddEnters DEF IInv, AskedOK
<1>6. QED
  BY <1>1, <1>2, <1>3, <1>4, <1>5 DEF IInv, MomentaryOK, EveryBreakpointArmed

LEMMA RemoveBreakpointInv == IInv /\ RemoveBreakpoint => IInv'
<1> SUFFICES ASSUME IInv, RemoveBreakpoint PROVE IInv'
  OBVIOUS
<1>1. PICK b \in wanted : deleteBreakpoint(b) /\ wanted' = wanted \ {b}
  BY DEF RemoveBreakpoint
<1>2. /\ phase = "stopped" /\ momentary = {}
      /\ UNCHANGED <<phase, momentary, z, xy, mode, refused>>
  BY DEF RemoveBreakpoint, IInv, MomentaryOK, box
<1>3. Within(bpCode', bpData')
  BY <1>1, DeleteKeepsWithin DEF IInv, deleteBreakpoint
<1>4. BoxOK'
  BY <1>2 DEF IInv, BoxOK
<1>5. ~refused' => AskedOK(bpCode', bpData', wanted', momentary')
  <2> SUFFICES ASSUME ~refused PROVE AskedOK(bpCode', bpData', wanted \ {b}, {})
    BY <1>1, <1>2
  <2>1. AskedOK(bpCode, bpData, wanted, {})
    BY <1>2 DEF IInv
  <2>2. QED
    BY <1>1, <2>1, DeleteTakesOut DEF IInv, AskedOK, deleteBreakpoint
<1>6. QED
  BY <1>1, <1>2, <1>3, <1>4, <1>5 DEF IInv, MomentaryOK, EveryBreakpointArmed

LEMMA ContinueInv == IInv /\ jtagContinue => IInv'
<1> SUFFICES ASSUME IInv, jtagContinue PROVE IInv'
  OBVIOUS
<1>1. /\ phase = "stopped" /\ momentary = {} /\ Run
      /\ UNCHANGED <<bpCode, bpData, momentary, wanted, refused>>
  BY DEF jtagContinue, IInv, MomentaryOK, table
<1>2. /\ Within(bpCode', bpData')
      /\ wanted' \subseteq Breakpoints /\ refused' \in BOOLEAN
      /\ ~refused' => AskedOK(bpCode', bpData', wanted', momentary')
  BY <1>1 DEF IInv
<1>3. QED
  BY <1>1, <1>2, RunInv

LEMMA StepIntoInterruptInv == IInv /\ StepIntoInterrupt => IInv'
<1> SUFFICES ASSUME IInv, StepIntoInterrupt PROVE IInv'
  OBVIOUS
<1>1. PICK b \in CodeBreakpoints :
        \/ UNCHANGED <<table, momentary>> /\ Run
        \/ /\ ~codeBreakpointAt(b) /\ Fits(b) /\ addBreakpoint(b)
           /\ momentary' = {b} /\ Run
  BY DEF StepIntoInterrupt
<1>2. /\ phase = "stopped" /\ momentary = {} /\ UNCHANGED <<wanted, refused>>
      /\ Within(bpCode, bpData)
      /\ wanted' \subseteq Breakpoints /\ refused' \in BOOLEAN
  BY DEF StepIntoInterrupt, IInv, MomentaryOK
<1>3. CASE UNCHANGED <<table, momentary>> /\ Run
  <2>1. /\ Within(bpCode', bpData') /\ momentary' = {}
        /\ ~refused' => AskedOK(bpCode', bpData', wanted', momentary')
    BY <1>2, <1>3 DEF table, IInv
  <2>2. QED
    BY <1>2, <1>3, <2>1, RunInv
<1>4. CASE /\ ~codeBreakpointAt(b) /\ Fits(b) /\ addBreakpoint(b)
           /\ momentary' = {b} /\ Run
  <2>1. Within(bpCode', bpData') /\ b \in ToSet(bpCode')
    BY <1>2, <1>4, AddKeepsWithin DEF Breakpoints
  <2>2. ~refused' => AskedOK(bpCode', bpData', wanted', momentary')
    <3> SUFFICES ASSUME ~refused PROVE AskedOK(bpCode', bpData', wanted, {b})
      BY <1>2, <1>4
    <3>1. AskedOK(bpCode, bpData, wanted, {})
      BY <1>2 DEF IInv
    <3>2. b \notin Listed(bpCode, bpData)
      BY <1>2, <1>4, ArraysApart DEF Listed, codeBreakpointAt
    <3>3. QED
      BY <1>2, <1>4, <3>1, <3>2, AddEnters DEF AskedOK, Breakpoints
  <2>3. QED
    BY <1>2, <1>4, <2>1, <2>2, RunInv
<1>5. QED
  BY <1>1, <1>3, <1>4

(* A momentary breakpoint that is put back takes the place it had.         *)
LEMMA TargetStopsInv == IInv /\ TargetStops => IInv'
<1> SUFFICES ASSUME IInv, TargetStops PROVE IInv'
  OBVIOUS
<1>1. /\ Within(bpCode, bpData) /\ BoxOK /\ phase = "running"
      /\ momentary = {} \/ \E b \in ToSet(bpCode) : momentary = {b}
      /\ wanted' \subseteq Breakpoints /\ refused' \in BOOLEAN
      /\ wanted' = wanted /\ refused' = refused
  BY DEF IInv, MomentaryOK, TargetStops
<1>2. CASE /\ \A b \in momentary : deleteBreakpoint(b)
           /\ momentary = {} => UNCHANGED table
           /\ momentary' = {}
           /\ phase' = "stopped"
           /\ z' = <<>>
           /\ UNCHANGED <<xy, mode>>
  <2>1. Within(bpCode', bpData')
    <3>1. CASE momentary = {}
      BY <1>1, <1>2, <3>1 DEF table
    <3>2. CASE \E b \in ToSet(bpCode) : momentary = {b}
      <4>1. PICK b : deleteBreakpoint(b)
        BY <1>2, <3>2
      <4>2. QED
        BY <1>1, <4>1, DeleteKeepsWithin DEF deleteBreakpoint
    <3>3. QED
      BY <1>1, <3>1, <3>2
  <2>2. BoxOK'
    BY <1>1, <1>2, EmptySeq DEF BoxOK
  <2>3. ~refused' => AskedOK(bpCode', bpData', wanted', momentary')
    <3> SUFFICES ASSUME ~refused PROVE AskedOK(bpCode', bpData', wanted, {})
      BY <1>1, <1>2
    <3>1. AskedOK(bpCode, bpData, wanted, momentary)
      BY DEF IInv
    <3>2. CASE momentary = {}
      BY <1>2, <3>1, <3>2 DEF table
    <3>3. CASE \E b \in ToSet(bpCode) : momentary = {b}
      <4>1. PICK b : deleteBreakpoint(b) /\ momentary = {b}
        BY <1>2, <3>3
      <4>2. /\ IsInjective(bpCode') /\ IsInjective(bpData')
            /\ Listed(bpCode', bpData') = Listed(bpCode, bpData) \ {b}
        BY <1>1, <3>1, <4>1, DeleteTakesOut DEF deleteBreakpoint, AskedOK
      <4>3. QED
        BY <3>1, <4>1, <4>2 DEF AskedOK
    <3>4. QED
      BY <1>1, <3>2, <3>3
  <2>4. QED
    BY <1>1, <1>2, <2>1, <2>2, <2>3 DEF IInv, MomentaryOK, EveryBreakpointArmed
<1>3. CASE \E b \in momentary :
             /\ bpCode' = Append(Removed(bpCode, b), b)
             /\ UNCHANGED <<bpData, momentary>>
             /\ Run
  <2>1. PICK b \in ToSet(bpCode) :
          /\ momentary' = {b} /\ Run /\ bpData' = bpData
          /\ momentary = {b}
          /\ bpCode' = Append(Removed(bpCode, b), b)
    BY <1>1, <1>3
  <2>2. /\ bpCode \in Seq(CodeBreakpoints) /\ Len(bpCode) \in Nat
        /\ DOMAIN bpCode = 1 .. Len(bpCode)
    BY <1>1, LenProperties DEF Within
  <2>3. b \in CodeBreakpoints
    BY <2>1, <2>2, ElementOfSeq DEF ToSet
  <2>4. /\ Removed(bpCode, b) \in Seq(CodeBreakpoints)
        /\ Len(Removed(bpCode, b)) = Len(bpCode) - 1
    BY <2>1, <2>2, RemovedShrinks
  <2>5. /\ bpCode' \in Seq(CodeBreakpoints)
        /\ Len(bpCode') = Len(Removed(bpCode, b)) + 1
        /\ bpCode'[Len(Removed(bpCode, b)) + 1] = b
    BY <2>1, <2>3, <2>4, AppendProperties
  <2>6. Len(bpCode') = Len(bpCode)
    BY <2>2, <2>4, <2>5
  <2>7. Len(bpCode') \in 1 .. Len(bpCode') /\ bpCode'[Len(bpCode')] = b
    BY <2>2, <2>4, <2>5, <2>6, LenProperties
  <2>8. b \in ToSet(bpCode')
    BY <2>5, <2>7, LenProperties DEF ToSet
  <2>9. Within(bpCode', bpData')
    BY <1>1, <2>1, <2>5, <2>6 DEF Within
  <2>10. ~refused' => AskedOK(bpCode', bpData', wanted', momentary')
    <3> SUFFICES ASSUME ~refused PROVE AskedOK(bpCode', bpData', wanted, {b})
      BY <1>1, <2>1
    <3>1. AskedOK(bpCode, bpData, wanted, {b})
      BY <2>1 DEF IInv
    <3>2. /\ IsInjective(Removed(bpCode, b))
          /\ ToSet(Removed(bpCode, b)) = ToSet(bpCode) \ {b}
      BY <2>1, <2>2, <3>1, RemovedShrinks DEF AskedOK
    <3>3. /\ IsInjective(bpCode')
          /\ ToSet(bpCode') = ToSet(Removed(bpCode, b)) \cup {b}
      BY <2>1, <2>3, <2>4, <3>2, ToSetOfAppend
    <3>4. QED
      BY <2>1, <3>1, <3>2, <3>3 DEF AskedOK, Listed
  <2>11. QED
    BY <1>1, <2>1, <2>8, <2>9, <2>10, RunInv
<1>4. QED
  BY <1>2, <1>3 DEF TargetStops

LEMMA StepInv == IInv /\ [Next]_vars => IInv'
<1> SUFFICES ASSUME IInv, [Next]_vars PROVE IInv'
  OBVIOUS
<1>1. CASE Next
  BY <1>1, InsertBreakpointInv, RemoveBreakpointInv, ContinueInv,
     StepIntoInterruptInv, TargetStopsInv DEF Next
<1>2. CASE UNCHANGED vars
  BY <1>2 DEF vars, table, box, IInv, BoxOK, MomentaryOK, EveryBreakpointArmed,
     Armed
<1>3. QED
  BY <1>1, <1>2

LEMMA Invariance == Spec => []IInv
<1>1. QED
  BY InitInv, StepInv, PTL DEF Spec

-----------------------------------------------------------------------------
(* The arrays, the registers and the history keep their types and the      *)
(* arrays their limits.                                                    *)
THEOREM MkITypeCorrect == Spec => []TypeOK
<1>1. IInv => TypeOK
  <2> SUFFICES ASSUME IInv PROVE TypeOK
    OBVIOUS
  <2>1. momentary \subseteq CodeBreakpoints
    <3>1. ToSet(bpCode) \subseteq CodeBreakpoints
      BY LenProperties, ElementOfSeq DEF IInv, Within, ToSet
    <3>2. QED
      BY <3>1 DEF IInv, MomentaryOK
  <2>2. QED
    BY <2>1 DEF IInv, Within, BoxOK, TypeOK
<1>2. QED
  BY <1>1, Invariance, PTL

(* Whatever GDB asks for and the interrupt step-over adds, the target runs *)
(* with every breakpoint of the arrays in a register that is turned on,    *)
(* for all limits that four registers, two of them for data, can serve.    *)
THEOREM MkIEveryBreakpointArmed == Spec => []EveryBreakpointArmed
<1>1. IInv => EveryBreakpointArmed
  BY DEF IInv
<1>2. QED
  BY <1>1, Invariance, PTL

(* As long as nothing was refused the arrays hold what GDB was told is set *)
(* and the momentary breakpoint, each once: no order of insertions,        *)
(* removals and runs to a return address loses one or enters it twice.     *)
THEOREM MkITableIsAsAsked == Spec => []TableIsAsAsked
<1>1. IInv => TableIsAsAsked
  <2> SUFFICES ASSUME IInv, ~refused
               PROVE  /\ IsInjective(bpCode \o bpData)
                      /\ ToSet(bpCode \o bpData) = wanted \cup momentary
    BY DEF TableIsAsAsked
  <2>1. /\ bpCode \in Seq(Breakpoints) /\ bpData \in Seq(Breakpoints)
        /\ ToSet(bpCode) \cap ToSet(bpData) = {}
    BY ArraysApart, SeqMonotonic DEF IInv, Within, Breakpoints
  <2>2. AskedOK(bpCode, bpData, wanted, momentary)
    BY DEF IInv
  <2>3. QED
    BY <2>1, <2>2, ToSetOfConcat DEF AskedOK, Listed
<1>2. QED
  BY <1>1, Invariance, PTL
=============================================================================
