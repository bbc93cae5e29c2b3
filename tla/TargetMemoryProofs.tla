------------------------- MODULE TargetMemoryProofs -------------------------
(***************************************************************************)
(* Proofs about TargetMemory for all sizes of memories and pages, all      *)
(* ranges and images and any number of requests and refused commands.  The *)
(* argument: whatever is left of the agenda leads back to the mode the     *)
(* request has to leave, because a call that needs programming mode is     *)
(* replaced by commands that end in the mode they were found in; and an    *)
(* error that drops a change of the mode is noted.  Then what becomes of   *)
(* the bytes: whatever is left of the agenda still brings what the request *)
(* owes a cell of the memory, or the cell has it already; and one command  *)
(* still reads, or the read has been made.                                 *)
(***************************************************************************)
EXTENDS TargetMemory, SequenceLemmas

(* What changes the mode. *)
Switch(e) == e.do \in {"enable", "disable"}
NoSwitch(a) == \A i \in DOMAIN a : ~Switch(a[i])
AllCatch(a) == \A i \in DOMAIN a : a[i].do = "catch"

(* Carried out from mode m on, a ends in mode d. *)
EndsIn(a, m, d) ==
  \/ d = m /\ NoSwitch(a)
  \/ \E i \in DOMAIN a :
       /\ Switch(a[i]) /\ d = (a[i].do = "enable")
       /\ \A j \in DOMAIN a : j > i => ~Switch(a[j])

Spaces == Areas \cup {"fuse", "lock"}

(* Calls: only what GDB sends with 'M' may be of another size than a page. *)
CallOK(e, cmd) ==
  /\ e.do = "jtagRead" => e.area \in Spaces /\ e.addr \in Int /\ e.n \in Int
  /\ e.do = "jtagWrite" =>
       /\ e.area \in Spaces /\ Len(e.bytes) \in Nat
       /\ cmd # "M" /\ e.area \in Areas => Len(e.bytes) = PageSize[e.area]
  /\ e.do = "throw" => cmd = "M"

Sequenced(a) == a \in Seq({a[i] : i \in DOMAIN a})

(* Calls and commands that bring no answer. *)
Fits(a, cmd) ==
  /\ Sequenced(a)
  /\ \A i \in DOMAIN a : CallOK(a[i], cmd) /\ a[i].do # "reply"

(* An agenda: behind the answer nothing is left to do. *)
Well(a, cmd) ==
  /\ Sequenced(a)
  /\ \A i \in DOMAIN a : CallOK(a[i], cmd)
  /\ \A i, j \in DOMAIN a : a[i].do = "reply" /\ j > i => a[j].do = "catch"

-----------------------------------------------------------------------------
(* Lemmas about agendas.                                                   *)

LEMMA SequencedIs ==
  ASSUME NEW S, NEW a \in Seq(S)
  PROVE  Sequenced(a) /\ Len(a) \in Nat /\ DOMAIN a = 1 .. Len(a)
<1>1. a \in [1 .. Len(a) -> {a[i] : i \in DOMAIN a}]
  OBVIOUS
<1> QED  BY <1>1 DEF Sequenced

LEMMA SequencedHas ==
  ASSUME NEW a, Sequenced(a)
  PROVE  Len(a) \in Nat /\ DOMAIN a = 1 .. Len(a)
  BY DEF Sequenced

(* A function on 1 .. n is a sequence, for n below zero an empty one. *)
LEMMA ListIs ==
  ASSUME NEW n \in Int, NEW S, NEW f \in [1 .. n -> S]
  PROVE  f \in Seq(S) /\ Sequenced(f) /\ DOMAIN f = 1 .. n
<1>1. CASE n \in Nat
  <2>1. f \in Seq(S)
    BY <1>1
  <2> QED  BY <2>1, SequencedIs
<1>2. CASE n \notin Nat
  <2>1. 1 .. n = 1 .. 0
    BY <1>2
  <2>2. f \in [1 .. 0 -> S]
    BY <2>1
  <2>3. f \in Seq(S)
    BY <2>2
  <2> QED  BY <2>3, SequencedIs
<1> QED  BY <1>1, <1>2

LEMMA JoinIs ==
  ASSUME NEW a, NEW b, Sequenced(a), Sequenced(b)
  PROVE  /\ Sequenced(a \o b) /\ Len(a \o b) = Len(a) + Len(b)
         /\ DOMAIN (a \o b) = 1 .. Len(a) + Len(b)
         /\ \A i \in DOMAIN (a \o b) :
              \/ i \in DOMAIN a /\ (a \o b)[i] = a[i]
              \/ /\ i > Len(a) /\ i - Len(a) \in DOMAIN b
                 /\ (a \o b)[i] = b[i - Len(a)]
         /\ \A i \in DOMAIN a : i \in DOMAIN (a \o b) /\ (a \o b)[i] = a[i]
         /\ \A i \in DOMAIN b : /\ Len(a) + i \in DOMAIN (a \o b)
                                /\ (a \o b)[Len(a) + i] = b[i]
<1> DEFINE S == {a[i] : i \in DOMAIN a} \cup {b[i] : i \in DOMAIN b}
<1>1. a \in Seq(S) /\ b \in Seq(S)
  <2>1. \A X, Y : X \subseteq Y => Seq(X) \subseteq Seq(Y)
    OBVIOUS
  <2> QED  BY <2>1 DEF Sequenced
<1> HIDE DEF S
<1>2. /\ a \o b \in Seq(S)
      /\ Len(a \o b) = Len(a) + Len(b)
      /\ \A i \in 1 .. Len(a) + Len(b) :
           (a \o b)[i] = IF i <= Len(a) THEN a[i] ELSE b[i - Len(a)]
  BY <1>1, ConcatProperties
<1>3. /\ Sequenced(a \o b) /\ DOMAIN (a \o b) = 1 .. Len(a) + Len(b)
      /\ Len(a) \in Nat /\ Len(b) \in Nat
      /\ DOMAIN a = 1 .. Len(a) /\ DOMAIN b = 1 .. Len(b)
  BY <1>1, <1>2, SequencedIs
<1> DEFINE c == a \o b
           m == Len(a)
           n == Len(b)
<1>4. /\ Sequenced(c) /\ Len(c) = m + n /\ DOMAIN c = 1 .. m + n
      /\ m \in Nat /\ n \in Nat /\ DOMAIN a = 1 .. m /\ DOMAIN b = 1 .. n
      /\ \A i \in 1 .. m + n : c[i] = IF i <= m THEN a[i] ELSE b[i - m]
  BY <1>2, <1>3
<1> HIDE DEF c, m, n
<1>5. \A i \in DOMAIN c :
        \/ i \in DOMAIN a /\ c[i] = a[i]
        \/ i > m /\ i - m \in DOMAIN b /\ c[i] = b[i - m]
  BY <1>4
<1>6. \A i \in DOMAIN a : i \in DOMAIN c /\ c[i] = a[i]
  BY <1>4
<1>7. \A i \in DOMAIN b : m + i \in DOMAIN c /\ c[m + i] = b[i]
  <2> SUFFICES ASSUME NEW i \in DOMAIN b
               PROVE  m + i \in DOMAIN c /\ c[m + i] = b[i]
    OBVIOUS
  <2>1. m + i \in 1 .. m + n /\ ~(m + i <= m) /\ (m + i) - m = i
    BY <1>4
  <2> QED  BY <1>4, <2>1
<1> QED  BY <1>4, <1>5, <1>6, <1>7 DEF c, m, n

(* What a joined sequence is made of. *)
LEMMA JoinParts ==
  ASSUME NEW a, NEW b, Sequenced(a), Sequenced(b), NEW c, c = a \o b
  PROVE  /\ Sequenced(c)
         /\ \A i \in DOMAIN c :
              \/ i \in DOMAIN a /\ c[i] = a[i]
              \/ /\ i > Len(a) /\ i - Len(a) \in DOMAIN b
                 /\ c[i] = b[i - Len(a)]
  BY JoinIs

(* The rest behind the first k. *)
LEMMA RestIs ==
  ASSUME NEW a, Sequenced(a), NEW k \in 0 .. Len(a), NEW u,
         u = SubSeq(a, k + 1, Len(a))
  PROVE  /\ Sequenced(u) /\ DOMAIN u = 1 .. Len(a) - k
         /\ \A i \in DOMAIN u : i + k \in DOMAIN a /\ u[i] = a[i + k]
<1> DEFINE S == {a[i] : i \in DOMAIN a}
           n == Len(a)
<1>1. a \in Seq(S) /\ n \in Nat /\ DOMAIN a = 1 .. n
  BY SequencedHas DEF Sequenced
<1>2. \A i \in k + 1 .. n : a[i] \in S
  BY <1>1
<1> HIDE DEF S, n
<1>3. k \in 0 .. n /\ u = SubSeq(a, k + 1, n)
  BY DEF n
<1>4. /\ u \in Seq(S)
      /\ Len(u) = IF k + 1 <= n THEN n - (k + 1) + 1 ELSE 0
      /\ \A i \in 1 .. n - (k + 1) + 1 : u[i] = a[(k + 1) + i - 1]
  <2>1. k + 1 \in Int /\ n \in Int
    BY <1>1, <1>3
  <2> DEFINE m == k + 1
  <2>2. m \in Int /\ \A i \in m .. n : a[i] \in S
    BY <2>1, <1>2
  <2> HIDE DEF m
  <2>3. /\ SubSeq(a, m, n) \in Seq(S)
        /\ Len(SubSeq(a, m, n)) = IF m <= n THEN n - m + 1 ELSE 0
        /\ \A i \in 1 .. n - m + 1 : SubSeq(a, m, n)[i] = a[m + i - 1]
    BY <2>1, <2>2, SubSeqProperties
  <2> QED  BY <1>3, <2>3 DEF m
<1>5. Sequenced(u) /\ DOMAIN u = 1 .. Len(u)
  BY <1>4, SequencedIs
<1> DEFINE l == Len(u)
<1>6. DOMAIN u = 1 .. l /\ l = n - k
  <2> HIDE DEF l
  <2>1. l = IF k + 1 <= n THEN n - (k + 1) + 1 ELSE 0
    BY <1>4 DEF l
  <2> QED  BY <2>1, <1>1, <1>3, <1>5 DEF l
<1> HIDE DEF l
<1>7. \A i \in DOMAIN u : i + k \in DOMAIN a /\ u[i] = a[i + k]
  <2> SUFFICES ASSUME NEW i \in DOMAIN u
               PROVE  i + k \in DOMAIN a /\ u[i] = a[i + k]
    OBVIOUS
  <2>1. i \in 1 .. n - (k + 1) + 1 /\ (k + 1) + i - 1 = i + k /\ i + k \in 1 .. n
    BY <1>1, <1>3, <1>6
  <2> QED  BY <1>1, <1>4, <2>1
<1> QED  BY <1>5, <1>6, <1>7 DEF n

(* What is well stays so as its first elements are done or dropped. *)
LEMMA RestWell ==
  ASSUME NEW a, NEW cmd, Well(a, cmd), NEW k \in 0 .. Len(a), NEW u,
         u = SubSeq(a, k + 1, Len(a))
  PROVE  /\ Well(u, cmd) /\ (AllCatch(a) => AllCatch(u))
         /\ (\A i \in 1 .. k : ~Switch(a[i])) =>
              \A m, d : EndsIn(a, m, d) => EndsIn(u, m, d)
<1> DEFINE n == Len(a)
<1>1. Sequenced(a)
  BY DEF Well
<1>2. /\ Sequenced(u) /\ DOMAIN u = 1 .. n - k
      /\ \A i \in DOMAIN u : i + k \in DOMAIN a /\ u[i] = a[i + k]
      /\ n \in Nat /\ DOMAIN a = 1 .. n /\ k \in 0 .. n
  <2>1. /\ Sequenced(u) /\ DOMAIN u = 1 .. Len(a) - k
        /\ \A i \in DOMAIN u : i + k \in DOMAIN a /\ u[i] = a[i + k]
    BY <1>1, RestIs, ZenonT(60)
  <2>2. Len(a) \in Nat /\ DOMAIN a = 1 .. Len(a)
    BY <1>1, SequencedHas
  <2> QED  BY <2>1, <2>2
<1> HIDE DEF n
<1>3. AllCatch(a) => AllCatch(u)
  BY <1>2 DEF AllCatch
<1>4. \A i, j \in DOMAIN u : j > i => j + k > i + k
  BY <1>2
<1>5. ASSUME NEW i \in DOMAIN u, NEW j \in DOMAIN u, u[i].do = "reply", j > i
      PROVE  u[j].do = "catch"
  <2> DEFINE v == i + k
             w == j + k
  <2>1. /\ v \in DOMAIN a /\ w \in DOMAIN a /\ w > v
        /\ u[i] = a[v] /\ u[j] = a[w]
    BY <1>2, <1>4, <1>5
  <2> HIDE DEF v, w
  <2> QED  BY <1>5, <2>1 DEF Well
<1>6. \A i \in DOMAIN u : CallOK(u[i], cmd)
  BY <1>2 DEF Well
<1>7. ASSUME \A i \in 1 .. k : ~Switch(a[i]), NEW m, NEW d, EndsIn(a, m, d)
      PROVE  EndsIn(u, m, d)
  <2>1. CASE d = m /\ NoSwitch(a)
    BY <1>2, <2>1 DEF EndsIn, NoSwitch
  <2>2. CASE \E i \in DOMAIN a :
               /\ Switch(a[i]) /\ d = (a[i].do = "enable")
               /\ \A j \in DOMAIN a : j > i => ~Switch(a[j])
    <3>1. PICK i \in DOMAIN a :
               /\ Switch(a[i]) /\ d = (a[i].do = "enable")
               /\ \A j \in DOMAIN a : j > i => ~Switch(a[j])
      BY <2>2
    <3>2. i \notin 1 .. k
      BY <1>7, <3>1
    <3> DEFINE l == i - k
    <3>3. l \in DOMAIN u /\ l + k = i
      BY <1>2, <3>2
    <3> HIDE DEF l
    <3>4. \A j \in DOMAIN u : j > l => j + k > i
      BY <1>2, <3>3
    <3>5. u[l] = a[i]
      BY <1>2, <3>3
    <3>6. \A j \in DOMAIN u : j > l => ~Switch(u[j])
      BY <1>2, <3>1, <3>4
    <3> QED  BY <3>1, <3>3, <3>5, <3>6 DEF EndsIn
  <2> QED  BY <1>7, <2>1, <2>2 DEF EndsIn
<1> QED  BY <1>2, <1>3, <1>5, <1>6, <1>7 DEF Well

(* The mode after the first command. *)
After(e, m) == IF Switch(e) THEN e.do = "enable" ELSE m

LEMMA HeadDone ==
  ASSUME NEW a, NEW cmd, Well(a, cmd), a # <<>>
  PROVE  /\ Head(a) = a[1] /\ 1 \in DOMAIN a /\ CallOK(a[1], cmd)
         /\ Well(Tail(a), cmd) /\ (AllCatch(a) => AllCatch(Tail(a)))
         /\ a[1].do = "reply" => AllCatch(Tail(a))
         /\ \A m, d : EndsIn(a, m, d) => EndsIn(Tail(a), After(a[1], m), d)
<1> DEFINE n == Len(a)
           u == Tail(a)
<1>1. Sequenced(a)
  BY DEF Well
<1>2. /\ Head(a) = a[1] /\ n \in Nat /\ n >= 1 /\ DOMAIN a = 1 .. n
      /\ 1 \in DOMAIN a /\ u = SubSeq(a, 2, n)
  BY <1>1, SequencedHas DEF Sequenced
<1>3. 1 \in 0 .. Len(a) /\ u = SubSeq(a, 1 + 1, Len(a))
  BY <1>2
<1>4. /\ DOMAIN u = 1 .. n - 1
      /\ \A i \in DOMAIN u : i + 1 \in DOMAIN a /\ u[i] = a[i + 1]
  BY <1>1, <1>3, RestIs
<1>5. /\ Well(u, cmd) /\ (AllCatch(a) => AllCatch(u))
      /\ (\A i \in 1 .. 1 : ~Switch(a[i])) =>
           \A m, d : EndsIn(a, m, d) => EndsIn(u, m, d)
  BY <1>3, RestWell
<1> HIDE DEF n, u
<1>6. \A i \in DOMAIN u : i + 1 > 1
  BY <1>2, <1>4
<1>7. a[1].do = "reply" => AllCatch(u)
  BY <1>2, <1>4, <1>6 DEF Well, AllCatch
<1>8. ASSUME NEW m, NEW d, EndsIn(a, m, d)
      PROVE  EndsIn(u, After(a[1], m), d)
  <2>1. CASE ~Switch(a[1])
    <3>1. \A i \in 1 .. 1 : i = 1
      OBVIOUS
    <3> QED  BY <1>5, <1>8, <2>1, <3>1 DEF After
  <2>2. CASE Switch(a[1])
    <3>1. PICK i \in DOMAIN a :
               /\ Switch(a[i]) /\ d = (a[i].do = "enable")
               /\ \A j \in DOMAIN a : j > i => ~Switch(a[j])
      BY <1>2, <1>8, <2>2 DEF EndsIn, NoSwitch
    <3>2. CASE i = 1
      <4>1. NoSwitch(u)
        BY <1>4, <1>6, <3>1, <3>2 DEF NoSwitch
      <4> QED  BY <2>2, <3>1, <3>2, <4>1 DEF EndsIn, After
    <3>3. CASE i # 1
      <4> DEFINE l == i - 1
      <4>1. l \in DOMAIN u /\ l + 1 = i
        BY <1>2, <1>4, <3>3
      <4> HIDE DEF l
      <4>2. \A j \in DOMAIN u : j > l => j + 1 > i
        BY <1>2, <1>4, <4>1
      <4>3. u[l] = a[i]
        BY <1>4, <4>1
      <4>4. \A j \in DOMAIN u : j > l => ~Switch(u[j])
        BY <1>4, <3>1, <4>2
      <4> QED  BY <3>1, <4>1, <4>3, <4>4 DEF EndsIn
    <3> QED  BY <3>2, <3>3
  <2> QED  BY <2>1, <2>2
<1>9. CallOK(a[1], cmd)
  BY <1>2 DEF Well
<1> QED  BY <1>2, <1>5, <1>7, <1>8, <1>9 DEF u

(* One agenda before another. *)
LEMMA JoinEnds ==
  ASSUME NEW a, NEW b, Sequenced(a), Sequenced(b), NEW m, NEW e, NEW d,
         EndsIn(a, m, e), EndsIn(b, e, d)
  PROVE  EndsIn(a \o b, m, d)
<1> DEFINE c == a \o b
           n == Len(a)
<1>1. /\ n \in Nat /\ DOMAIN a = 1 .. n /\ DOMAIN c \subseteq Int
      /\ \A i \in DOMAIN c :
           \/ i \in DOMAIN a /\ c[i] = a[i]
           \/ i > n /\ i - n \in DOMAIN b /\ c[i] = b[i - n]
      /\ \A i \in DOMAIN a : i \in DOMAIN c /\ c[i] = a[i]
      /\ \A i \in DOMAIN b : n + i \in DOMAIN c /\ c[n + i] = b[i]
      /\ DOMAIN b \subseteq Nat \ {0}
  <2>1. /\ DOMAIN b = 1 .. Len(b) /\ DOMAIN a = 1 .. Len(a)
        /\ Len(a) \in Nat /\ Len(b) \in Nat
    BY SequencedHas
  <2>2. 1 .. Len(b) \subseteq Nat \ {0} /\ 1 .. Len(a) + Len(b) \subseteq Int
    BY <2>1
  <2> QED  BY <2>1, <2>2, JoinIs
<1> HIDE DEF c, n
<1>2. CASE NoSwitch(b)
  <2>1. d = e
    BY <1>2 DEF EndsIn, NoSwitch
  <2>2. CASE NoSwitch(a)
    <3>1. e = m
      BY <2>2 DEF EndsIn, NoSwitch
    <3>2. NoSwitch(c)
      BY <1>1, <1>2, <2>2 DEF NoSwitch
    <3> QED  BY <2>1, <3>1, <3>2 DEF EndsIn, c
  <2>3. CASE ~NoSwitch(a)
    <3>1. PICK i \in DOMAIN a :
               /\ Switch(a[i]) /\ e = (a[i].do = "enable")
               /\ \A j \in DOMAIN a : j > i => ~Switch(a[j])
      BY <2>3 DEF EndsIn
    <3>2. \A j \in DOMAIN c : j > i => ~Switch(c[j])
      BY <1>1, <1>2, <3>1 DEF NoSwitch
    <3> QED  BY <1>1, <2>1, <3>1, <3>2 DEF EndsIn, c
  <2> QED  BY <2>2, <2>3
<1>3. CASE ~NoSwitch(b)
  <2>1. PICK i \in DOMAIN b :
             /\ Switch(b[i]) /\ d = (b[i].do = "enable")
             /\ \A j \in DOMAIN b : j > i => ~Switch(b[j])
    BY <1>3 DEF EndsIn
  <2> DEFINE l == n + i
  <2>2. l \in DOMAIN c /\ c[l] = b[i] /\ l > n
    BY <1>1
  <2>3. \A j \in DOMAIN c : j > l => ~(j \in DOMAIN a) /\ j - n > i
    BY <1>1
  <2> HIDE DEF l
  <2>4. \A j \in DOMAIN c : j > l => ~Switch(c[j])
    BY <1>1, <2>1, <2>3
  <2> QED  BY <2>1, <2>2, <2>4 DEF EndsIn, c
<1> QED  BY <1>2, <1>3

LEMMA JoinFits ==
  ASSUME NEW a, NEW b, NEW cmd, Fits(a, cmd), Fits(b, cmd)
  PROVE  /\ Fits(a \o b, cmd)
         /\ NoSwitch(a) /\ NoSwitch(b) => NoSwitch(a \o b)
<1>1. Sequenced(a) /\ Sequenced(b)
  BY DEF Fits
<1> DEFINE c == a \o b
           n == Len(a)
<1>0. /\ Sequenced(c)
      /\ \A i \in DOMAIN c :
           \/ i \in DOMAIN a /\ c[i] = a[i]
           \/ i > n /\ i - n \in DOMAIN b /\ c[i] = b[i - n]
  BY <1>1, JoinParts
<1> HIDE DEF c, n
<1>2. /\ Sequenced(c)
      /\ \A i \in DOMAIN c : \/ i \in DOMAIN a /\ c[i] = a[i]
                             \/ \E j \in DOMAIN b : c[i] = b[j]
  <2>1. ASSUME NEW i \in DOMAIN c, ~(i \in DOMAIN a /\ c[i] = a[i])
        PROVE  \E j \in DOMAIN b : c[i] = b[j]
    <3>1. i - n \in DOMAIN b /\ c[i] = b[i - n]
      BY <1>0, <2>1
    <3> QED  BY <3>1
  <2> QED  BY <1>0, <2>1
<1>3. Fits(c, cmd)
  BY <1>2 DEF Fits
<1>4. NoSwitch(a) /\ NoSwitch(b) => NoSwitch(c)
  BY <1>2 DEF NoSwitch
<1> QED  BY <1>3, <1>4 DEF c

(* Calls and commands before what is left to do. *)
LEMMA JoinWell ==
  ASSUME NEW a, NEW b, NEW cmd, Fits(a, cmd), Well(b, cmd)
  PROVE  Well(a \o b, cmd)
<1>1. Sequenced(a) /\ Sequenced(b)
  BY DEF Fits, Well
<1> DEFINE c == a \o b
           n == Len(a)
<1>2. /\ n \in Nat /\ DOMAIN a = 1 .. n /\ DOMAIN b \subseteq Int
      /\ DOMAIN c \subseteq Int
  <2>1. /\ DOMAIN b = 1 .. Len(b) /\ DOMAIN a = 1 .. Len(a)
        /\ Len(a) \in Nat /\ Len(b) \in Nat
    BY <1>1, SequencedHas
  <2>2. 1 .. Len(b) \subseteq Int /\ 1 .. Len(a) + Len(b) \subseteq Int
    BY <2>1
  <2> QED  BY <1>1, <2>1, <2>2, JoinIs
<1>3. /\ Sequenced(c)
      /\ \A i \in DOMAIN c :
           \/ i \in DOMAIN a /\ c[i] = a[i]
           \/ i > n /\ i - n \in DOMAIN b /\ c[i] = b[i - n]
  BY <1>1, JoinParts
<1> HIDE DEF c, n
<1>4. \A i \in DOMAIN c : CallOK(c[i], cmd)
  BY <1>3 DEF Fits, Well
<1>5. ASSUME NEW i \in DOMAIN c, NEW j \in DOMAIN c, c[i].do = "reply", j > i
      PROVE  c[j].do = "catch"
  <2>1. i > n /\ i - n \in DOMAIN b /\ c[i] = b[i - n]
    BY <1>3, <1>5 DEF Fits
  <2>2. j > n /\ j - n > i - n
    BY <1>2, <1>5, <2>1
  <2>3. j - n \in DOMAIN b /\ c[j] = b[j - n]
    BY <1>2, <1>3, <2>2
  <2> QED  BY <1>5, <2>1, <2>2, <2>3 DEF Well
<1> QED  BY <1>3, <1>4, <1>5 DEF Well, c

-----------------------------------------------------------------------------
(* Lemmas about what calls are replaced by.                                *)

(* A sequence of elements that fit and leave the mode alone. *)
LEMMA ElementsFit ==
  ASSUME NEW S, NEW a \in Seq(S), NEW cmd,
         \A e \in S : CallOK(e, cmd) /\ e.do # "reply" /\ ~Switch(e)
  PROVE  Fits(a, cmd) /\ NoSwitch(a)
<1>1. \A i \in DOMAIN a : a[i] \in S
  OBVIOUS
<1> QED  BY <1>1, SequencedIs DEF Fits, NoSwitch

LEMMA ListFits ==
  ASSUME NEW n \in Int, NEW f, f = [i \in 1 .. n |-> f[i]], NEW cmd,
         \A i \in 1 .. n : CallOK(f[i], cmd) /\ f[i].do # "reply" /\ ~Switch(f[i])
  PROVE  Fits(f, cmd) /\ NoSwitch(f)
<1> DEFINE S == {f[i] : i \in 1 .. n}
<1>1. f \in [1 .. n -> S]
  OBVIOUS
<1>2. \A e \in S : CallOK(e, cmd) /\ e.do # "reply" /\ ~Switch(e)
  OBVIOUS
<1> HIDE DEF S
<1>3. f \in Seq(S)
  BY <1>1, ListIs
<1> QED  BY <1>2, <1>3, ElementsFit

LEMMA NothingFits ==
  ASSUME NEW cmd
  PROVE  Fits(<<>>, cmd) /\ NoSwitch(<<>>)
<1>1. <<>> \in Seq({}) /\ DOMAIN <<>> = {}
  OBVIOUS
<1>2. Sequenced(<<>>)
  BY <1>1, SequencedIs
<1> QED  BY <1>1, <1>2 DEF Fits, NoSwitch

LEMMA SequencedOne ==
  ASSUME NEW e
  PROVE  Sequenced(<<e>>)
<1>1. <<e>> \in Seq({e})
  OBVIOUS
<1> QED  BY <1>1, SequencedIs

LEMMA OneFits ==
  ASSUME NEW e, NEW cmd, CallOK(e, cmd), e.do # "reply"
  PROVE  /\ Fits(<<e>>, cmd) /\ (~Switch(e) => NoSwitch(<<e>>))
         /\ \A m : EndsIn(<<e>>, m, After(e, m))
<1>1. DOMAIN <<e>> = {1} /\ <<e>>[1] = e
  OBVIOUS
<1>2. Sequenced(<<e>>)
  BY SequencedOne
<1> DEFINE a == <<e>>
<1>3. Sequenced(a) /\ DOMAIN a = {1} /\ a[1] = e
  BY <1>1, <1>2
<1> HIDE DEF a
<1>4. Fits(a, cmd) /\ (~Switch(e) => NoSwitch(a))
  BY <1>3 DEF Fits, NoSwitch
<1>5. \A m : EndsIn(a, m, After(e, m))
  BY <1>3 DEF EndsIn, NoSwitch, After
<1> QED  BY <1>4, <1>5 DEF a

(* Enabling and disabling around what leaves the mode alone. *)
LEMMA BetweenFits ==
  ASSUME NEW x, NEW cmd, Fits(x, cmd), NoSwitch(x), NEW m
  PROVE  /\ Fits(<<Do("enable")>> \o x \o <<Do("disable")>>, cmd)
         /\ EndsIn(<<Do("enable")>> \o x \o <<Do("disable")>>, m, FALSE)
<1> DEFINE on == Do("enable")
           off == Do("disable")
<1>1. /\ CallOK(on, cmd) /\ on.do # "reply" /\ CallOK(off, cmd) /\ off.do # "reply"
      /\ After(on, m) = TRUE /\ After(off, TRUE) = FALSE
  BY DEF CallOK, Do, After, Switch
<1> HIDE DEF on, off
<1>2. /\ Fits(<<on>>, cmd) /\ EndsIn(<<on>>, m, TRUE)
      /\ Fits(<<off>>, cmd) /\ EndsIn(<<off>>, TRUE, FALSE)
  BY <1>1, OneFits
<1>3. EndsIn(x, TRUE, TRUE)
  BY DEF EndsIn
<1>4. Fits(<<on>> \o x, cmd)
  BY <1>2, JoinFits
<1>5. EndsIn(<<on>> \o x, m, TRUE)
  BY <1>2, <1>3, JoinEnds DEF Fits
<1>6. Fits((<<on>> \o x) \o <<off>>, cmd)
  BY <1>2, <1>4, JoinFits
<1>7. EndsIn((<<on>> \o x) \o <<off>>, m, FALSE)
  BY <1>2, <1>4, <1>5, JoinEnds DEF Fits
<1> QED  BY <1>6, <1>7 DEF on, off

(* An access leaves the mode as it was. *)
LEMMA InProgmodeFits ==
  ASSUME NEW space, NEW x, NEW cmd, Fits(x, cmd), NoSwitch(x),
         programmingEnabled \in BOOLEAN
  PROVE  /\ Fits(InProgmode(space, x), cmd)
         /\ EndsIn(InProgmode(space, x), programmingEnabled, programmingEnabled)
<1>1. CASE NeedProgmode(space) /\ ~programmingEnabled
  <2>1. programmingEnabled = FALSE
    BY <1>1
  <2> QED  BY <1>1, <2>1, BetweenFits DEF InProgmode
<1>2. CASE ~(NeedProgmode(space) /\ ~programmingEnabled)
  <2>1. InProgmode(space, x) = x
    BY <1>2 DEF InProgmode
  <2> QED  BY <2>1 DEF EndsIn
<1> QED  BY <1>1, <1>2

LEMMA PagedAreas ==
  ASSUME TargetMemoryAssumption, NEW x \in Spaces, Paged(MemorySpace(x))
  PROVE  x \in Areas /\ Carried(x) \in Nat \ {0}
<1>1. x = "fuse" => MemorySpace(x) = "FUSE_BITS"
  BY Zenon DEF MemorySpace
<1>2. x = "lock" => MemorySpace(x) = "LOCK_BITS"
  BY Zenon DEF MemorySpace
<1>3. x \in Areas
  BY <1>1, <1>2 DEF Paged, Spaces
<1> QED  BY <1>3 DEF Carried, TargetMemoryAssumption

LEMMA PageCommandsFit ==
  ASSUME NEW x, NEW addr \in Int, NEW n \in Int, NEW cmd, Carried(x) \in Nat \ {0}
  PROVE  Fits(PageCommands(x, addr, n), cmd) /\ NoSwitch(PageCommands(x, addr, n))
<1> DEFINE P     == Carried(x)
           base  == PageStart(addr, P)
           first == IF addr + n >= base + P THEN base + P - addr ELSE n
           pages == 1 + ((n - first + P - 1) \div P)
           f     == PageCommands(x, addr, n)
<1>1. pages \in Int
  <2>1. \A i \in Int, p \in Nat \ {0} : i % p \in Int /\ i \div p \in Int
    OBVIOUS
  <2>2. base \in Int
    BY <2>1 DEF PageStart
  <2> HIDE DEF base, P
  <2>3. P \in Nat \ {0}
    BY DEF P
  <2>4. n - first + P - 1 \in Int
    BY <2>2, <2>3
  <2> HIDE DEF first
  <2> QED  BY <2>1, <2>3, <2>4
<1>2. \A k \in 1 .. pages : f[k].do = "page"
  BY DEF PageCommands
<1>3. f = [k \in 1 .. pages |-> f[k]]
  BY DEF PageCommands
<1> HIDE DEF pages, f
<1>4. \A k \in 1 .. pages : CallOK(f[k], cmd) /\ f[k].do # "reply" /\ ~Switch(f[k])
  BY <1>2 DEF CallOK, Switch
<1>5. Fits(f, cmd) /\ NoSwitch(f)
  BY <1>1, <1>3, <1>4, ListFits
<1> QED  BY <1>5 DEF f

LEMMA ReadFits ==
  ASSUME TargetMemoryAssumption, programmingEnabled \in BOOLEAN,
         NEW x \in Spaces, NEW addr \in Int, NEW n \in Int, NEW cmd
  PROVE  /\ Fits(ReadCommands(x, addr, n), cmd)
         /\ EndsIn(ReadCommands(x, addr, n), programmingEnabled, programmingEnabled)
<1> DEFINE space == MemorySpace(x)
           c     == ByteCommand(x, space, addr, n)
           y     == IF Paged(space) THEN PageCommands(x, addr, n) ELSE <<c>>
<1>1. Fits(y, cmd) /\ NoSwitch(y)
  <2>1. CASE Paged(space)
    BY <2>1, PagedAreas, PageCommandsFit
  <2>2. CASE ~Paged(space)
    <3>1. c.do = "bytes"
      BY DEF ByteCommand
    <3> HIDE DEF c
    <3>2. CallOK(c, cmd) /\ c.do # "reply" /\ ~Switch(c)
      BY <3>1 DEF CallOK, Switch
    <3>3. Fits(<<c>>, cmd) /\ NoSwitch(<<c>>)
      BY <3>2, OneFits
    <3> QED  BY <2>2, <3>3
  <2> QED  BY <2>1, <2>2
<1>2. ReadCommands(x, addr, n) = InProgmode(space, y)
  BY DEF ReadCommands
<1> HIDE DEF y, space
<1> QED  BY <1>1, <1>2, InProgmodeFits

LEMMA WriteFits ==
  ASSUME TargetMemoryAssumption, programmingEnabled \in BOOLEAN,
         NEW x \in Spaces, NEW addr, NEW bytes, Len(bytes) \in Nat, NEW cmd,
         cmd # "M" /\ x \in Areas => Len(bytes) = PageSize[x]
  PROVE  /\ Fits(WriteCommands(x, addr, bytes), cmd)
         /\ EndsIn(WriteCommands(x, addr, bytes), programmingEnabled, programmingEnabled)
<1> DEFINE space == MemorySpace(x)
           n     == Len(bytes)
           C     == Carried(x)
           load  == box.proto # "dw" /\ space = "SPM" /\ addr = 0 /\ n > LoadBytes
           Part(k) == WriteCommand(x, space, PageStart(addr, PageSize[x]) + (k - 1) * C,
                                   BlockOf(bytes, k, C))
           whole == WriteCommand(x, space, addr, bytes)
           parts == [k \in 1 .. (n \div C) |-> Part(k)]
           first == IF load THEN <<Do("erase")>> ELSE <<>>
           y     == IF ~Paged(space) THEN <<whole>>
                    ELSE IF n # PageSize[x] THEN <<Do("throw")>> ELSE parts
<1>1. Fits(first, cmd) /\ NoSwitch(first)
  <2>1. CallOK(Do("erase"), cmd) /\ Do("erase").do # "reply" /\ ~Switch(Do("erase"))
    BY DEF CallOK, Switch, Do
  <2>2. Fits(<<Do("erase")>>, cmd) /\ NoSwitch(<<Do("erase")>>)
    BY <2>1, OneFits
  <2> QED  BY <2>2, NothingFits
<1>2. ASSUME ~Paged(space)
      PROVE  Fits(y, cmd) /\ NoSwitch(y)
  <2>1. whole.do = "write"
    BY DEF WriteCommand
  <2> HIDE DEF whole
  <2>2. CallOK(whole, cmd) /\ whole.do # "reply" /\ ~Switch(whole)
    BY <2>1 DEF CallOK, Switch
  <2>3. Fits(<<whole>>, cmd) /\ NoSwitch(<<whole>>)
    BY <2>2, OneFits
  <2>4. y = <<whole>>
    BY <1>2, Zenon
  <2> HIDE DEF y
  <2> QED  BY <2>3, <2>4
<1>3. ASSUME Paged(space) /\ n # PageSize[x]
      PROVE  Fits(y, cmd) /\ NoSwitch(y)
  <2>1. cmd = "M"
    BY <1>3, PagedAreas
  <2>2. CallOK(Do("throw"), cmd) /\ Do("throw").do # "reply" /\ ~Switch(Do("throw"))
    BY <2>1 DEF CallOK, Switch, Do
  <2>3. Fits(<<Do("throw")>>, cmd) /\ NoSwitch(<<Do("throw")>>)
    BY <2>2, OneFits
  <2>4. y = <<Do("throw")>>
    BY <1>3, Zenon
  <2> HIDE DEF y
  <2> QED  BY <2>3, <2>4
<1>4. ASSUME Paged(space) /\ n = PageSize[x]
      PROVE  Fits(y, cmd) /\ NoSwitch(y)
  <2>1. C \in Nat \ {0} /\ n \in Nat
    BY <1>4, PagedAreas
  <2> DEFINE l == n \div C
  <2>2. l \in Int
    <3> HIDE DEF n, C
    <3> QED  BY <2>1
  <2>3. \A k \in 1 .. l : Part(k).do = "write"
    BY DEF WriteCommand
  <2> HIDE DEF Part, l
  <2>4. \A k \in 1 .. l : /\ CallOK(Part(k), cmd) /\ Part(k).do # "reply"
                          /\ ~Switch(Part(k))
    BY <2>3 DEF CallOK, Switch
  <2> DEFINE f == [k \in 1 .. l |-> Part(k)]
  <2>5. Fits(f, cmd) /\ NoSwitch(f)
    <3>1. f = [k \in 1 .. l |-> f[k]]
      OBVIOUS
    <3>2. \A k \in 1 .. l : CallOK(f[k], cmd) /\ f[k].do # "reply" /\ ~Switch(f[k])
      BY <2>4
    <3> HIDE DEF f
    <3> QED  BY <2>2, <3>1, <3>2, ListFits
  <2>6. y = f
    BY <1>4, Zenon DEF Part, l
  <2> HIDE DEF f, y
  <2> QED  BY <2>5, <2>6
<1>5. Fits(y, cmd) /\ NoSwitch(y)
  <2> HIDE DEF y, C
  <2> QED  BY <1>2, <1>3, <1>4
<1>6. WriteCommands(x, addr, bytes) = first \o InProgmode(space, y)
  BY DEF WriteCommands
<1> HIDE DEF y, first, space
<1>7. /\ Fits(InProgmode(space, y), cmd)
      /\ EndsIn(InProgmode(space, y), programmingEnabled, programmingEnabled)
  BY <1>5, InProgmodeFits
<1>8. EndsIn(first, programmingEnabled, programmingEnabled)
  BY <1>1 DEF EndsIn
<1>9. Fits(first \o InProgmode(space, y), cmd)
  BY <1>1, <1>7, JoinFits
<1>10. EndsIn(first \o InProgmode(space, y), programmingEnabled, programmingEnabled)
  BY <1>1, <1>7, <1>8, JoinEnds DEF Fits
<1> QED  BY <1>6, <1>9, <1>10

(* The pages of an image are written whole. *)
LEMMA FlashImageFits ==
  ASSUME TargetMemoryAssumption, NEW x \in Areas, NEW program, NEW verify, NEW cmd
  PROVE  /\ Fits(FlashImage(x, program, verify), cmd)
         /\ NoSwitch(FlashImage(x, program, verify))
<1> DEFINE N == Size[x] \div PageSize[x]
           Addr(k) == (k - 1) * PageSize[x]
           W == {jtagWrite(x, a, ImagePage(x, a)) : a \in Int} \cup {Do("try"), Do("catch")}
           R == {jtagRead(x, a, PageSize[x]) : a \in Int}
                  \cup {[do |-> "verify", area |-> x, addr |-> a] : a \in Int}
           ws == [k \in 1 .. N |-> ProgramPage(x, Addr(k))]
           rs == [k \in 1 .. N |-> ReadBack(x, Addr(k))]
<1>1. N \in Int /\ PageSize[x] \in Nat /\ \A k \in 1 .. N : Addr(k) \in Int
  <2>1. Size[x] \in Nat /\ PageSize[x] \in Nat \ {0}
    BY DEF TargetMemoryAssumption
  <2> QED  BY <2>1
<1>2. /\ \A e \in W : CallOK(e, cmd) /\ e.do # "reply" /\ ~Switch(e)
      /\ \A e \in R : CallOK(e, cmd) /\ e.do # "reply" /\ ~Switch(e)
  <2>1. ASSUME NEW a \in Int
        PROVE  LET e == jtagWrite(x, a, ImagePage(x, a))
               IN  CallOK(e, cmd) /\ e.do # "reply" /\ ~Switch(e)
    <3> DEFINE p == ImagePage(x, a)
               e == jtagWrite(x, a, p)
    <3>1. Len(p) = PageSize[x]
      BY <1>1 DEF ImagePage
    <3> HIDE DEF p
    <3>2. e.do = "jtagWrite" /\ e.area = x /\ e.bytes = p
      BY DEF jtagWrite
    <3> HIDE DEF e
    <3>3. CallOK(e, cmd) /\ e.do # "reply" /\ ~Switch(e)
      BY <1>1, <3>1, <3>2 DEF CallOK, Switch, Spaces
    <3> QED  BY <3>3 DEF e, p
  <2>2. ASSUME NEW a \in Int
        PROVE  LET e == jtagRead(x, a, PageSize[x])
               IN  CallOK(e, cmd) /\ e.do # "reply" /\ ~Switch(e)
    BY <1>1 DEF jtagRead, CallOK, Switch, Spaces
  <2>3. ASSUME NEW a \in Int
        PROVE  LET e == [do |-> "verify", area |-> x, addr |-> a]
               IN  CallOK(e, cmd) /\ e.do # "reply" /\ ~Switch(e)
    BY DEF CallOK, Switch
  <2>4. LET e == Do("catch") IN CallOK(e, cmd) /\ e.do # "reply" /\ ~Switch(e)
    BY DEF CallOK, Switch, Do
  <2>5. LET e == Do("try") IN CallOK(e, cmd) /\ e.do # "reply" /\ ~Switch(e)
    BY DEF CallOK, Switch, Do
  <2> QED  BY <2>1, <2>2, <2>3, <2>4, <2>5, Zenon
<1>3. \A k \in 1 .. N : /\ ProgramPage(x, Addr(k)) \in Seq(W)
                        /\ ReadBack(x, Addr(k)) \in Seq(R)
  <2> SUFFICES ASSUME NEW k \in 1 .. N
               PROVE  /\ ProgramPage(x, Addr(k)) \in Seq(W)
                      /\ ReadBack(x, Addr(k)) \in Seq(R)
    OBVIOUS
  <2> DEFINE a == Addr(k)
             u == jtagWrite(x, a, ImagePage(x, a))
             t == Do("try")
             v == Do("catch")
             r == jtagRead(x, a, PageSize[x])
             c == [do |-> "verify", area |-> x, addr |-> a]
  <2>1. a \in Int
    BY <1>1
  <2> HIDE DEF Addr
  <2>2. t \in W /\ u \in W /\ v \in W /\ r \in R /\ c \in R
    BY <2>1, Zenon
  <2>3. /\ ProgramPage(x, a) = <<>> \/ ProgramPage(x, a) = <<t, u, v>>
        /\ ReadBack(x, a) = <<>> \/ ReadBack(x, a) = <<r, c>>
    BY Zenon DEF ProgramPage, ReadBack
  <2> HIDE DEF a, t, u, v, r, c, W, R
  <2>4. <<>> \in Seq(W) /\ <<t, u, v>> \in Seq(W) /\ <<>> \in Seq(R) /\ <<r, c>> \in Seq(R)
    BY <2>2
  <2> QED  BY <2>3, <2>4 DEF a
<1> HIDE DEF N, Addr, W, R
<1>4. ws \in Seq(Seq(W)) /\ rs \in Seq(Seq(R))
  <2>1. ws \in [1 .. N -> Seq(W)] /\ rs \in [1 .. N -> Seq(R)]
    BY <1>3
  <2> HIDE DEF ws, rs
  <2> QED  BY <1>1, <2>1, ListIs
<1> DEFINE w == FlattenSeq(ws)
           r == FlattenSeq(rs)
<1> HIDE DEF ws, rs
<1>5. Fits(w, cmd) /\ NoSwitch(w) /\ Fits(r, cmd) /\ NoSwitch(r)
  <2>1. w \in Seq(W) /\ r \in Seq(R)
    BY <1>4, FlattenElements
  <2> QED  BY <1>2, <2>1, ElementsFit
<1> DEFINE v == Do("verified")
<1>6. Fits(<<v>>, cmd) /\ NoSwitch(<<v>>)
  <2>1. CallOK(v, cmd) /\ v.do # "reply" /\ ~Switch(v)
    BY DEF CallOK, Switch, Do
  <2> HIDE DEF v
  <2> QED  BY <2>1, OneFits
<1> HIDE DEF v, w, r
<1>7. Fits(r \o <<v>>, cmd) /\ NoSwitch(r \o <<v>>)
  BY <1>5, <1>6, JoinFits
<1> DEFINE p == IF program THEN w ELSE <<>>
           q == IF verify THEN r \o <<v>> ELSE <<>>
<1>8. Fits(p, cmd) /\ NoSwitch(p) /\ Fits(q, cmd) /\ NoSwitch(q)
  BY <1>5, <1>7, NothingFits
<1>9. FlashImage(x, program, verify) = <<>> \/ FlashImage(x, program, verify) = p \o q
  BY Zenon DEF FlashImage, w, r, ws, rs, v, N, Addr
<1> HIDE DEF p, q
<1>10. Fits(p \o q, cmd) /\ NoSwitch(p \o q)
  BY <1>8, JoinFits
<1> QED  BY <1>9, <1>10, NothingFits

OptionNames == {Options[k] : k \in DOMAIN Options}

LEMMA OptionIs ==
  ASSUME NEW k \in DOMAIN Options
  PROVE  /\ k \in 1 .. 7 /\ k < serving /\ serving = 8 /\ gone = 9
         /\ \/ Options[k] = "erase" \/ Options[k] = "readFuses"
            \/ Options[k] = "readLockBits" \/ Options[k] = "writeFuses"
            \/ Options[k] = "debug" \/ Options[k] = "download"
            \/ Options[k] = "writeLockBits"
<1>1. /\ Len(Options) = 7 /\ DOMAIN Options = 1 .. 7
      /\ Options[1] = "erase" /\ Options[2] = "readFuses"
      /\ Options[3] = "readLockBits" /\ Options[4] = "writeFuses"
      /\ Options[5] = "debug" /\ Options[6] = "download"
      /\ Options[7] = "writeLockBits"
  BY DEF Options
<1>2. serving = 8 /\ gone = 9
  BY <1>1 DEF serving, gone
<1>3. k = 1 \/ k = 2 \/ k = 3 \/ k = 4 \/ k = 5 \/ k = 6 \/ k = 7
  BY <1>1
<1>4. k \in 1 .. 7 /\ k < serving
  BY <1>1, <1>2
<1> QED  BY <1>1, <1>2, <1>3, <1>4

(* What ends with leaving programming mode. *)
LEMMA LeavesFit ==
  ASSUME NEW S, NEW a \in Seq(S), NEW cmd, Len(a) >= 1,
         a[Len(a)].do = "disable", \A e \in S : CallOK(e, cmd) /\ e.do # "reply"
  PROVE  Fits(a, cmd) /\ EndsIn(a, FALSE, FALSE)
<1> DEFINE n == Len(a)
<1>1. Sequenced(a) /\ DOMAIN a = 1 .. n /\ n \in Nat
  BY SequencedIs
<1>2. \A i \in DOMAIN a : a[i] \in S
  OBVIOUS
<1>3. n \in DOMAIN a /\ \A j \in DOMAIN a : ~(j > n)
  BY <1>1
<1>4. Switch(a[n]) /\ FALSE = (a[n].do = "enable")
  BY DEF Switch
<1> QED  BY <1>1, <1>2, <1>3, <1>4 DEF Fits, EndsIn

LEMMA JoinAssociative ==
  ASSUME NEW a, NEW b, NEW c, Sequenced(a), Sequenced(b), Sequenced(c)
  PROVE  a \o b \o c = a \o (b \o c)
<1> DEFINE S == {a[i] : i \in DOMAIN a} \cup {b[i] : i \in DOMAIN b}
                  \cup {c[i] : i \in DOMAIN c}
<1>1. a \in Seq(S) /\ b \in Seq(S) /\ c \in Seq(S)
  <2>1. \A X, Y : X \subseteq Y => Seq(X) \subseteq Seq(Y)
    OBVIOUS
  <2> QED  BY <2>1 DEF Sequenced
<1> HIDE DEF S
<1> QED  BY <1>1, ConcatAssociative

(* An option of the command line leaves the target out of programming mode. *)
LEMMA OptionFits ==
  ASSUME TargetMemoryAssumption, NEW name, name \in OptionNames,
         NEW program, NEW verify
  PROVE  /\ Fits(Option(name, program, verify), name)
         /\ EndsIn(Option(name, program, verify), FALSE, FALSE)
<1> DEFINE x == Option(name, program, verify)
           fuses == jtagRead("fuse", 0, 3)
           locks == jtagRead("lock", 0, 1)
           erase == Do("erase")
           try   == Do("try")
           catch == Do("catch")
           on    == Do("enable")
           off   == Do("disable")
           wf    == jtagWrite("fuse", 0, <<FF, FF, FF>>)
           wo    == jtagWrite("fuse", 0, <<FF>>)
           wl    == jtagWrite("lock", 0, <<FF>>)
           up    == Do("give up")
           img   == FlashImage("flash", program, verify)
                      \o FlashImage("eeprom", program, verify)
<1>1. /\ CallOK(fuses, name) /\ fuses.do # "reply" /\ ~Switch(fuses)
      /\ CallOK(locks, name) /\ locks.do # "reply" /\ ~Switch(locks)
      /\ CallOK(erase, name) /\ erase.do # "reply" /\ ~Switch(erase)
      /\ CallOK(try, name) /\ try.do # "reply" /\ ~Switch(try)
      /\ CallOK(catch, name) /\ catch.do # "reply" /\ ~Switch(catch)
      /\ CallOK(up, name) /\ up.do # "reply" /\ ~Switch(up)
  BY DEF CallOK, Switch, Do, jtagRead, Spaces
<1>2. /\ CallOK(wf, name) /\ wf.do # "reply" /\ ~Switch(wf)
      /\ CallOK(wo, name) /\ wo.do # "reply" /\ ~Switch(wo)
      /\ CallOK(wl, name) /\ wl.do # "reply" /\ ~Switch(wl)
  BY DEF CallOK, Switch, jtagWrite, Spaces, Areas
<1>3. Fits(img, name) /\ NoSwitch(img)
  BY FlashImageFits, JoinFits DEF Areas
<1> HIDE DEF fuses, locks, erase, try, catch, wf, wo, wl, up, img
<1>4. /\ Fits(<<fuses>>, name) /\ NoSwitch(<<fuses>>)
      /\ Fits(<<locks>>, name) /\ NoSwitch(<<locks>>)
      /\ Fits(<<erase>>, name) /\ NoSwitch(<<erase>>)
      /\ Fits(<<up>>, name) /\ NoSwitch(<<up>>)
      /\ Fits(<<>>, name) /\ NoSwitch(<<>>)
  BY <1>1, OneFits, NothingFits
<1>5. Fits(<<wf, catch, fuses>>, name) /\ NoSwitch(<<wf, catch, fuses>>)
  <2> DEFINE S == {wf, catch, fuses}
  <2>1. <<wf, catch, fuses>> \in Seq(S)
    OBVIOUS
  <2>2. \A e \in S : CallOK(e, name) /\ e.do # "reply" /\ ~Switch(e)
    BY <1>1, <1>2
  <2> HIDE DEF S
  <2> QED  BY <2>1, <2>2, ElementsFit
<1>6. \A u : Fits(u, name) /\ NoSwitch(u) =>
        /\ Fits(u, name) /\ EndsIn(u, FALSE, FALSE)
        /\ Fits(<<on>> \o u \o <<off>>, name)
        /\ EndsIn(<<on>> \o u \o <<off>>, FALSE, FALSE)
  BY BetweenFits DEF EndsIn
<1>7. /\ CallOK(on, name) /\ on.do # "reply"
      /\ CallOK(off, name) /\ off.do # "reply" /\ off.do = "disable"
  BY DEF CallOK, Do
<1>8. Fits(x, name) /\ EndsIn(x, FALSE, FALSE)
  <2>1. CASE name = "erase"
    <3>1. x = IF box.proto = "dw" THEN <<>> ELSE <<on, erase, off>>
      BY <2>1, Zenon DEF Option, erase
    <3> DEFINE a == <<on, erase, off>>
               S == {on, erase, off}
    <3> HIDE DEF on, off
    <3>2. a \in Seq(S) /\ Len(a) >= 1 /\ a[Len(a)] = off
      OBVIOUS
    <3>3. \A e \in S : CallOK(e, name) /\ e.do # "reply"
      BY <1>1, <1>7
    <3> HIDE DEF a, S
    <3>4. Fits(a, name) /\ EndsIn(a, FALSE, FALSE)
      BY <1>7, <3>2, <3>3, LeavesFit
    <3> QED  BY <1>4, <1>6, <3>1, <3>4, Zenon DEF a
  <2>2. CASE name = "readFuses"
    <3>1. x = <<fuses>>
      BY <2>2, Zenon DEF Option, fuses
    <3> QED  BY <1>4, <1>6, <3>1, Zenon
  <2>3. CASE name = "readLockBits"
    <3>1. x = <<on, locks, off>>
      BY <2>3, Zenon DEF Option, locks
    <3> DEFINE a == <<on, locks, off>>
               S == {on, locks, off}
    <3> HIDE DEF on, off
    <3>2. a \in Seq(S) /\ Len(a) >= 1 /\ a[Len(a)] = off
      OBVIOUS
    <3>3. \A e \in S : CallOK(e, name) /\ e.do # "reply"
      BY <1>1, <1>7
    <3> HIDE DEF a, S
    <3>4. Fits(a, name) /\ EndsIn(a, FALSE, FALSE)
      BY <1>7, <3>2, <3>3, LeavesFit
    <3> QED  BY <3>1, <3>4, Zenon DEF a
  <2>4. CASE name = "writeFuses"
    <3>1. x = <<wf, catch, fuses>>
      BY <2>4, Zenon DEF Option, wf, catch, fuses
    <3> QED  BY <1>5, <1>6, <3>1, Zenon
  <2>5. CASE name = "debug"
    <3> DEFINE o == IF program THEN <<wo>> ELSE <<>>
               u == IF box.xmega \/ box.proto = "dw" THEN <<>> ELSE <<fuses>> \o o
    <3>1. x = IF box.ice = "jtag2" THEN <<on>> \o u \o <<off>> ELSE u
      BY <2>5, Zenon DEF Option, fuses, wo
    <3>2. Fits(u, name) /\ NoSwitch(u)
      <4>1. Fits(<<wo>>, name) /\ NoSwitch(<<wo>>)
        BY <1>2, OneFits
      <4>2. Fits(o, name) /\ NoSwitch(o)
        BY <1>4, <4>1
      <4> HIDE DEF o
      <4>3. Fits(<<fuses>> \o o, name) /\ NoSwitch(<<fuses>> \o o)
        BY <1>4, <4>2, JoinFits
      <4> QED  BY <1>4, <4>3
    <3> HIDE DEF u
    <3> QED  BY <1>6, <3>1, <3>2, Zenon
  <2>6. CASE name = "download"
    <3>1. x = IF box.ice = "jtag3" THEN <<up>>
              ELSE <<on>> \o FlashImage("flash", program, verify)
                     \o FlashImage("eeprom", program, verify) \o <<off>>
      BY <2>6, Zenon DEF Option, up
    <3>2. <<on>> \o FlashImage("flash", program, verify)
            \o FlashImage("eeprom", program, verify) \o <<off>>
            = <<on>> \o img \o <<off>>
      <4> HIDE DEF on, off
      <4>1. Sequenced(<<on>>)
        BY SequencedOne
      <4>2. /\ Sequenced(FlashImage("flash", program, verify))
            /\ Sequenced(FlashImage("eeprom", program, verify))
        BY FlashImageFits DEF Areas, Fits
      <4> QED  BY <4>1, <4>2, JoinAssociative DEF img
    <3> QED  BY <1>3, <1>4, <1>6, <3>1, <3>2, Zenon
  <2>7. CASE name = "writeLockBits"
    <3>1. x = <<on, try, wl, catch, locks, off>>
      BY <2>7, Zenon DEF Option, try, wl, catch, locks
    <3> DEFINE a == <<on, try, wl, catch, locks, off>>
               S == {on, try, wl, catch, locks, off}
    <3> HIDE DEF on, off
    <3>2. a \in Seq(S) /\ Len(a) >= 1 /\ a[Len(a)] = off
      OBVIOUS
    <3>3. \A e \in S : CallOK(e, name) /\ e.do # "reply"
      BY <1>1, <1>2, <1>7
    <3> HIDE DEF a, S
    <3>4. Fits(a, name) /\ EndsIn(a, FALSE, FALSE)
      BY <1>7, <3>2, <3>3, LeavesFit
    <3> QED  BY <3>1, <3>4, Zenon DEF a
  <2> QED  BY <2>1, <2>2, <2>3, <2>4, <2>5, <2>6, <2>7, OptionIs DEF OptionNames
<1> HIDE DEF on, off
<1> QED  BY <1>8

-----------------------------------------------------------------------------
(* The inductive invariant.                                                *)

Packets == {"m", "M", "vFlashErase", "vFlashWrite", "vFlashDone"}

(* Once the answer has been given, nothing is left but the ends of tries. *)
AgendaOK ==
  /\ Well(agenda, request.cmd)
  /\ reply = "ok" => AllCatch(agenda)

StageOK ==
  /\ stage \in 0 .. gone
  /\ request.cmd \in {"none"} \cup OptionNames \cup Packets
  /\ stage < serving => request.cmd \notin Packets
  /\ stage = gone => /\ agenda = <<>> /\ reply # "ok"
                     /\ goodbye \/ request.cmd = "M"

(* The mode a request has to leave. *)
Due ==
  IF request.cmd = "vFlashErase" THEN box.proto # "dw"
  ELSE IF request.cmd \in {"m", "M", "vFlashWrite"} THEN request.found
  ELSE FALSE

(* What is left of the agenda leads to the mode that is due. *)
ModeOK ==
  /\ programmingEnabled \in BOOLEAN /\ progmode \in BOOLEAN
  /\ request.found \in BOOLEAN /\ slipped \in BOOLEAN
  /\ box.proto = "dw" => ~programmingEnabled /\ ~progmode /\ ~request.found
  /\ stage # gone /\ ~slipped =>
       /\ programmingEnabled = progmode
       /\ box.proto # "dw" => EndsIn(agenda, progmode, Due)

IInv ==
  /\ box \in Boxes
  /\ AgendaOK
  /\ StageOK
  /\ ModeOK
  /\ flashbuf.max \in Nat

LEMMA Initially ==
  ASSUME Init
  PROVE  IInv
<1>1. Sequenced(<<>>) /\ NoSwitch(<<>>) /\ DOMAIN <<>> = {}
  BY NothingFits DEF Fits
<1>2. Well(<<>>, "none") /\ AllCatch(<<>>)
  BY <1>1 DEF Well, AllCatch
<1>3. EndsIn(<<>>, FALSE, FALSE)
  BY <1>1 DEF EndsIn
<1>4. 0 \in 0 .. gone /\ gone # 0
  BY OptionIs DEF gone, Options
<1>5. /\ request.cmd = "none" /\ request.found = FALSE /\ flashbuf.max = 0
      /\ request.cmd \notin Packets
  BY DEF Init, NoRequest, NoBuffer, Packets
<1>6. AgendaOK
  BY <1>2, <1>5 DEF Init, AgendaOK
<1>7. StageOK
  BY <1>4, <1>5 DEF Init, StageOK
<1>8. ModeOK
  BY <1>3, <1>5 DEF Init, ModeOK, Due
<1> QED  BY <1>5, <1>6, <1>7, <1>8 DEF Init, IInv

(* While the agenda is under way. *)
LEMMA UnderWay ==
  ASSUME IInv, agenda # <<>>
  PROVE  /\ stage # gone
         /\ agenda[1].do # "catch" => reply # "ok"
         /\ 1 \in DOMAIN agenda /\ Head(agenda) = agenda[1]
         /\ CallOK(agenda[1], request.cmd)
         /\ Well(agenda, request.cmd) /\ Well(Rest, request.cmd)
         /\ Sequenced(Rest)
<1>1. Well(agenda, request.cmd) /\ (reply = "ok" => AllCatch(agenda))
  BY DEF IInv, AgendaOK
<1>2. stage # gone
  BY DEF IInv, StageOK
<1>3. /\ Head(agenda) = agenda[1] /\ 1 \in DOMAIN agenda
      /\ CallOK(agenda[1], request.cmd) /\ Well(Tail(agenda), request.cmd)
  BY <1>1, HeadDone
<1> QED  BY <1>1, <1>2, <1>3 DEF AllCatch, Rest, Well

-----------------------------------------------------------------------------
(* What steps do to the agenda.                                            *)

(* The first command is carried out. *)
LEMMA Proceeds ==
  ASSUME IInv, agenda # <<>>, agenda' = Rest,
         UNCHANGED <<box, request, flashbuf, stage, goodbye, slipped>>,
         reply' = "ok" => reply = "ok" \/ agenda[1].do = "reply",
         programmingEnabled' \in BOOLEAN, progmode' \in BOOLEAN,
         box.proto = "dw" => UNCHANGED mode,
         box.proto # "dw" /\ programmingEnabled = progmode =>
           /\ programmingEnabled' = progmode'
           /\ progmode' = After(agenda[1], progmode)
  PROVE  IInv'
<1>1. /\ Well(agenda, request.cmd) /\ (reply = "ok" => AllCatch(agenda))
      /\ stage # gone
  BY UnderWay DEF IInv, AgendaOK
<1>2. /\ Well(agenda', request.cmd)
      /\ AllCatch(agenda) => AllCatch(agenda')
      /\ agenda[1].do = "reply" => AllCatch(agenda')
      /\ \A m, d : EndsIn(agenda, m, d) => EndsIn(agenda', After(agenda[1], m), d)
  BY <1>1, HeadDone DEF Rest
<1>3. AgendaOK'
  BY <1>1, <1>2 DEF AgendaOK
<1>4. StageOK'
  BY <1>1 DEF IInv, StageOK
<1>5. ModeOK'
  <2>1. /\ request.found \in BOOLEAN /\ slipped \in BOOLEAN
        /\ box.proto = "dw" => ~programmingEnabled /\ ~progmode /\ ~request.found
        /\ ~slipped => /\ programmingEnabled = progmode
                       /\ box.proto # "dw" => EndsIn(agenda, progmode, Due)
    BY <1>1 DEF IInv, ModeOK
  <2>2. Due' = Due
    BY DEF Due
  <2>3. CASE slipped
    BY <2>1, <2>3 DEF ModeOK, mode
  <2>4. CASE ~slipped /\ box.proto = "dw"
    BY <2>1, <2>4 DEF ModeOK, mode
  <2>5. CASE ~slipped /\ box.proto # "dw"
    <3>1. /\ programmingEnabled' = progmode'
          /\ progmode' = After(agenda[1], progmode)
          /\ EndsIn(agenda, progmode, Due)
      BY <2>1, <2>5
    <3>2. EndsIn(agenda', progmode', Due')
      BY <1>2, <2>2, <3>1
    <3> QED  BY <2>1, <2>5, <3>1, <3>2 DEF ModeOK
  <2> QED  BY <2>1, <2>3, <2>4, <2>5
<1> QED  BY <1>3, <1>4, <1>5 DEF IInv

(* An error goes to the nearest catch, or ends the session. *)
LEMMA ThrowKept ==
  ASSUME IInv, agenda # <<>>, agenda[1].do # "catch", Throw,
         UNCHANGED <<box, request, reply, flashbuf, progmode>>,
         programmingEnabled' \in BOOLEAN,
         UNCHANGED programmingEnabled \/ (Switch(agenda[1]) /\ box.proto # "dw")
  PROVE  IInv'
<1> DEFINE catches == {k \in DOMAIN agenda :
                        /\ agenda[k].do = "catch"
                        /\ \A j \in 1 .. k : agenda[j].do # "try"}
<1>1. /\ Well(agenda, request.cmd) /\ stage # gone /\ reply # "ok"
      /\ 1 \in DOMAIN agenda /\ Sequenced(agenda)
  BY UnderWay DEF Well
<1>2. DOMAIN agenda = 1 .. Len(agenda) /\ Len(agenda) \in Nat
  BY <1>1, SequencedHas
<1>3. /\ request.found \in BOOLEAN /\ slipped \in BOOLEAN /\ progmode \in BOOLEAN
      /\ box.proto = "dw" => ~programmingEnabled /\ ~progmode /\ ~request.found
      /\ ~slipped => /\ programmingEnabled = progmode
                     /\ box.proto # "dw" => EndsIn(agenda, progmode, Due)
      /\ stage \in 0 .. gone
      /\ request.cmd \in {"none"} \cup OptionNames \cup Packets
      /\ stage < serving => request.cmd \notin Packets
      /\ box \in Boxes /\ flashbuf.max \in Nat
  BY <1>1 DEF IInv, ModeOK, StageOK
<1>4. Due' = Due
  BY DEF Due
<1>5. CASE catches # {}
  <2> DEFINE k == CHOOSE k \in catches : \A j \in catches : k <= j
             some == \E j \in 1 .. k : agenda[j].do \in {"enable", "disable"}
  <2>1. /\ agenda' = SubSeq(agenda, k + 1, Len(agenda))
        /\ slipped' = (slipped \/ some)
        /\ UNCHANGED <<stage, goodbye>>
    BY <1>5, Zenon DEF Throw
  <2>2. k \in catches
    <3>1. catches \subseteq Nat
      BY <1>2
    <3> HIDE DEF catches
    <3> QED  BY <1>5, <3>1, MinIsLeast, Zenon
  <2>3. k \in 0 .. Len(agenda) /\ 1 \in 1 .. k
    <3> HIDE DEF k
    <3> QED  BY <1>2, <2>2
  <2> HIDE DEF k
  <2>4. /\ Well(agenda', request.cmd)
        /\ (\A i \in 1 .. k : ~Switch(agenda[i])) =>
             \A m, d : EndsIn(agenda, m, d) => EndsIn(agenda', m, d)
    <3> DEFINE u == agenda'
               x == request.cmd
    <3>1. u = SubSeq(agenda, k + 1, Len(agenda)) /\ Well(agenda, x)
      BY <1>1, <2>1
    <3> HIDE DEF u, x
    <3>2. /\ Well(u, x)
          /\ (\A i \in 1 .. k : ~Switch(agenda[i])) =>
               \A m, d : EndsIn(agenda, m, d) => EndsIn(u, m, d)
      BY <2>3, <3>1, RestWell, ZenonT(60)
    <3> QED  BY <3>2 DEF u, x
  <2>5. some \in BOOLEAN /\ (~some => \A i \in 1 .. k : ~Switch(agenda[i]))
    BY DEF Switch
  <2> HIDE DEF some
  <2>6. AgendaOK'
    BY <1>1, <2>4 DEF AgendaOK
  <2>7. StageOK'
    BY <1>1, <1>3, <2>1 DEF StageOK
  <2>8. ModeOK'
    <3>1. slipped' \in BOOLEAN /\ (~slipped' => ~slipped /\ ~some)
      BY <1>3, <2>1, <2>5
    <3>2. ASSUME ~slipped'
          PROVE  /\ UNCHANGED programmingEnabled
                 /\ box.proto # "dw" => EndsIn(agenda', progmode, Due)
      <4>1. ~Switch(agenda[1])
        BY <2>3, <2>5, <3>1, <3>2
      <4> QED  BY <1>3, <2>4, <2>5, <3>1, <3>2, <4>1
    <3> QED  BY <1>3, <1>4, <3>1, <3>2 DEF ModeOK
  <2> QED  BY <1>3, <2>6, <2>7, <2>8 DEF IInv
<1>6. CASE catches = {}
  <2>1. agenda' = <<>> /\ stage' = gone /\ goodbye' = TRUE /\ UNCHANGED slipped
    BY <1>6, Zenon DEF Throw
  <2>2. Well(<<>>, request.cmd)
    <3>1. Sequenced(<<>>) /\ DOMAIN <<>> = {}
      BY NothingFits DEF Fits
    <3> QED  BY <3>1 DEF Well
  <2>3. gone \in 0 .. gone /\ ~(gone < serving)
    BY OptionIs DEF Options
  <2>4. AgendaOK'
    BY <1>1, <2>1, <2>2 DEF AgendaOK
  <2>5. StageOK'
    BY <1>1, <1>3, <2>1, <2>3 DEF StageOK
  <2>6. ModeOK'
    BY <1>3, <2>1 DEF ModeOK
  <2> QED  BY <1>3, <2>4, <2>5, <2>6 DEF IInv
<1> QED  BY <1>5, <1>6

(* A call is replaced by commands that leave the mode as it was. *)
LEMMA ExpandKept ==
  ASSUME IInv, agenda # <<>>, agenda[1].do \in {"jtagRead", "jtagWrite", "bytes"},
         NEW x, Fits(x, request.cmd),
         EndsIn(x, programmingEnabled, programmingEnabled), agenda' = x \o Rest,
         UNCHANGED <<box, mode, request, reply, flashbuf, stage, goodbye, slipped>>
  PROVE  IInv'
<1>1. /\ Well(Rest, request.cmd) /\ stage # gone /\ reply # "ok" /\ Sequenced(Rest)
      /\ Well(agenda, request.cmd)
  BY UnderWay
<1>2. Well(agenda', request.cmd)
  BY <1>1, JoinWell
<1>3. \A m, d : EndsIn(agenda, m, d) => EndsIn(Rest, m, d)
  <2>1. ~Switch(agenda[1])
    BY DEF Switch
  <2> QED  BY <1>1, <2>1, HeadDone DEF After, Rest
<1>4. Due' = Due
  BY DEF Due
<1>5. AgendaOK'
  BY <1>1, <1>2 DEF AgendaOK
<1>6. StageOK'
  BY <1>1 DEF IInv, StageOK
<1>7. ModeOK'
  <2>1. ASSUME ~slipped, box.proto # "dw"
        PROVE  EndsIn(agenda', progmode, Due)
    <3>1. programmingEnabled = progmode /\ EndsIn(agenda, progmode, Due)
      BY <1>1, <2>1 DEF IInv, ModeOK
    <3>2. EndsIn(Rest, progmode, Due) /\ EndsIn(x, progmode, progmode)
      BY <1>3, <3>1
    <3> QED  BY <1>1, <3>2, JoinEnds DEF Fits
  <2> QED  BY <1>1, <1>4, <2>1 DEF IInv, ModeOK, mode
<1> QED  BY <1>5, <1>6, <1>7 DEF IInv, mode

(* A request is begun. *)
LEMMA StartKept ==
  ASSUME IInv, Idle, stage < gone,
         Well(agenda', request'.cmd), reply' # "ok",
         ~slipped /\ box.proto # "dw" => EndsIn(agenda', progmode, Due'),
         UNCHANGED <<box, mode, goodbye, slipped>>,
         request'.found = programmingEnabled, flashbuf'.max \in Nat,
         stage' \in 0 .. serving,
         request'.cmd \in OptionNames \/ (stage' = serving /\ request'.cmd \in Packets)
  PROVE  IInv'
<1>1. /\ programmingEnabled \in BOOLEAN /\ progmode \in BOOLEAN /\ slipped \in BOOLEAN
      /\ box.proto = "dw" => ~programmingEnabled /\ ~progmode
      /\ ~slipped => programmingEnabled = progmode
      /\ box \in Boxes
  <2>1. stage # gone
    BY OptionIs DEF IInv, StageOK, Options
  <2> QED  BY <2>1 DEF IInv, ModeOK
<1>2. serving = 8 /\ gone = 9
  BY OptionIs DEF Options
<1>3. \A n \in OptionNames : n \notin Packets
  BY OptionIs DEF OptionNames, Packets
<1>4. stage' \in 0 .. gone /\ stage' # gone
  BY <1>2
<1>5. AgendaOK'
  BY DEF AgendaOK
<1>6. StageOK'
  <2>1. stage' < serving => request'.cmd \notin Packets
    BY <1>2, <1>3
  <2> QED  BY <1>4, <2>1 DEF StageOK
<1>7. ModeOK'
  BY <1>1 DEF ModeOK, mode
<1> QED  BY <1>1, <1>5, <1>6, <1>7 DEF IInv

-----------------------------------------------------------------------------
(* The steps of the work.                                                  *)

LEMMA HeadIs ==
  ASSUME IInv, NEW what, Doing(what)
  PROVE  agenda # <<>> /\ Head(agenda) = agenda[1] /\ agenda[1].do = what
  BY UnderWay DEF Doing

(* A command that does not change the mode. *)
LEMMA CarriedOut ==
  ASSUME IInv, agenda # <<>>, ~Switch(agenda[1]), agenda' = Rest,
         UNCHANGED <<box, mode, request, flashbuf, stage, goodbye, slipped>>,
         reply' = "ok" => reply = "ok" \/ agenda[1].do = "reply"
  PROVE  IInv'
<1>1. programmingEnabled \in BOOLEAN /\ progmode \in BOOLEAN
  BY DEF IInv, ModeOK
<1> QED  BY <1>1, Proceeds DEF After, mode

(* A command that is refused, the mode being what it was. *)
LEMMA Refused ==
  ASSUME IInv, agenda # <<>>, agenda[1].do # "catch", Throw,
         UNCHANGED <<box, mode, request, reply, flashbuf>>
  PROVE  IInv'
<1>1. programmingEnabled \in BOOLEAN
  BY DEF IInv, ModeOK
<1> QED  BY <1>1, ThrowKept DEF mode

LEMMA CallReadKeeps ==
  ASSUME TargetMemoryAssumption, IInv, CallRead
  PROVE  IInv'
<1>1. agenda # <<>> /\ Head(agenda) = agenda[1] /\ agenda[1].do = "jtagRead"
  BY HeadIs DEF CallRead
<1> DEFINE x == ReadCommands(agenda[1].area, agenda[1].addr, agenda[1].n)
<1>2. agenda' = x \o Rest
  BY <1>1, Zenon DEF CallRead
<1>3. /\ agenda[1].area \in Spaces /\ agenda[1].addr \in Int /\ agenda[1].n \in Int
      /\ programmingEnabled \in BOOLEAN
  BY <1>1, UnderWay DEF CallOK, IInv, ModeOK
<1>4. Fits(x, request.cmd) /\ EndsIn(x, programmingEnabled, programmingEnabled)
  BY <1>3, ReadFits
<1> HIDE DEF x
<1>5. UNCHANGED <<box, mode, request, reply, flashbuf, stage, goodbye, slipped>>
  BY DEF CallRead, mode, gdb, session
<1> QED  BY <1>1, <1>2, <1>4, <1>5, ExpandKept

LEMMA CallWriteKeeps ==
  ASSUME TargetMemoryAssumption, IInv, CallWrite
  PROVE  IInv'
<1>1. agenda # <<>> /\ Head(agenda) = agenda[1] /\ agenda[1].do = "jtagWrite"
  BY HeadIs DEF CallWrite
<1> DEFINE w == WriteCommands(agenda[1].area, agenda[1].addr, agenda[1].bytes)
           x == IF agenda[1].bytes = <<>> THEN <<>> ELSE w
<1>2. agenda' = x \o Rest
  BY <1>1, Zenon DEF CallWrite
<1>3. /\ agenda[1].area \in Spaces /\ Len(agenda[1].bytes) \in Nat
      /\ request.cmd # "M" /\ agenda[1].area \in Areas =>
           Len(agenda[1].bytes) = PageSize[agenda[1].area]
      /\ programmingEnabled \in BOOLEAN
  BY <1>1, UnderWay DEF CallOK, IInv, ModeOK
<1>4. Fits(w, request.cmd) /\ EndsIn(w, programmingEnabled, programmingEnabled)
  BY <1>3, WriteFits
<1> HIDE DEF w
<1>5. Fits(x, request.cmd) /\ EndsIn(x, programmingEnabled, programmingEnabled)
  BY <1>4, NothingFits DEF EndsIn
<1> HIDE DEF x
<1>6. UNCHANGED <<box, mode, request, reply, flashbuf, stage, goodbye, slipped>>
  BY DEF CallWrite, mode, gdb, session, answer
<1> QED  BY <1>1, <1>2, <1>5, <1>6, ExpandKept

(* Only a packet 'M' is written short. *)
LEMMA ThrowTextKeeps ==
  ASSUME IInv, ThrowText
  PROVE  IInv'
<1>1. /\ agenda # <<>> /\ agenda[1].do = "throw" /\ request.cmd = "M"
      /\ reply # "ok"
  BY HeadIs, UnderWay DEF ThrowText, CallOK
<1>2. /\ agenda' = <<>> /\ stage' = gone
      /\ UNCHANGED <<box, mode, request, reply, flashbuf, slipped>>
  BY DEF ThrowText, gdb, answer
<1>3. Well(<<>>, request.cmd) /\ gone \in 0 .. gone /\ ~(gone < serving)
  <2>1. Sequenced(<<>>) /\ DOMAIN <<>> = {}
    BY NothingFits DEF Fits
  <2> QED  BY <2>1, OptionIs DEF Options, Well
<1>4. AgendaOK'
  BY <1>1, <1>2, <1>3 DEF AgendaOK
<1>5. StageOK'
  BY <1>1, <1>2, <1>3 DEF IInv, StageOK
<1>6. ModeOK'
  BY <1>2 DEF IInv, ModeOK, mode
<1> QED  BY <1>2, <1>4, <1>5, <1>6 DEF IInv

LEMMA TryBlockKeeps ==
  ASSUME IInv, TryBlock
  PROVE  IInv'
<1>1. agenda # <<>> /\ (agenda[1].do = "try" \/ agenda[1].do = "catch")
  BY HeadIs DEF TryBlock
<1> QED  BY <1>1, CarriedOut DEF TryBlock, Switch, gdb, session, answer

LEMMA AnswerKeeps ==
  ASSUME IInv, Answer
  PROVE  IInv'
<1>1. agenda # <<>> /\ agenda[1].do = "reply"
  BY HeadIs DEF Answer
<1> QED  BY <1>1, CarriedOut DEF Answer, Switch, gdb, session

LEMMA SetModeKeeps ==
  ASSUME IInv, NEW on \in BOOLEAN, SetMode(on)
  PROVE  IInv'
<1>1. /\ agenda # <<>> /\ agenda[1].do = IF on THEN "enable" ELSE "disable"
      /\ Switch(agenda[1]) /\ on = After(agenda[1], progmode)
  BY HeadIs DEF SetMode, Switch, After
<1>2. UNCHANGED <<box, request, reply, flashbuf>>
  BY DEF SetMode, gdb, answer
<1>3. programmingEnabled \in BOOLEAN /\ progmode \in BOOLEAN
  BY DEF IInv, ModeOK
<1>4. CASE box.proto = "dw"
  <2>1. agenda' = Rest /\ UNCHANGED <<mode, session>>
    BY <1>4 DEF SetMode
  <2> QED  BY <1>1, <1>2, <1>3, <1>4, <2>1, Proceeds DEF mode, session
<1>5. CASE /\ box.proto # "dw" /\ programmingEnabled' = on /\ progmode' = on
           /\ agenda' = Rest /\ UNCHANGED <<session, faults>>
  <2>1. UNCHANGED <<stage, goodbye, slipped>>
    BY <1>5 DEF session
  <2> QED  BY <1>1, <1>2, <1>3, <1>5, <2>1, Proceeds
<1>6. CASE /\ box.proto # "dw" /\ programmingEnabled' = on
           /\ Throw /\ UNCHANGED progmode
  <2>1. agenda[1].do # "catch"
    BY <1>1
  <2> QED  BY <1>1, <1>2, <1>3, <1>6, <2>1, ThrowKept
<1> QED  BY <1>4, <1>5, <1>6 DEF SetMode

LEMMA EraseKeeps ==
  ASSUME IInv, EraseProgramMemory
  PROVE  IInv'
<1>1. agenda # <<>> /\ agenda[1].do = "erase"
  BY HeadIs DEF EraseProgramMemory
<1>2. UNCHANGED <<box, mode, request, reply, flashbuf>>
  BY DEF EraseProgramMemory, gdb, answer
<1>3. (agenda' = Rest /\ UNCHANGED session) \/ Throw
  BY DEF EraseProgramMemory
<1>4. CASE agenda' = Rest /\ UNCHANGED session
  BY <1>1, <1>2, <1>4, CarriedOut DEF Switch, session
<1>5. CASE Throw
  BY <1>1, <1>2, <1>5, Refused
<1> QED  BY <1>3, <1>4, <1>5

LEMMA ReadPageKeeps ==
  ASSUME IInv, ReadPage
  PROVE  IInv'
<1>1. agenda # <<>> /\ agenda[1].do = "page"
  BY HeadIs DEF ReadPage
<1>2. UNCHANGED <<box, mode, request, reply, flashbuf>>
  BY DEF ReadPage, gdb
<1>3. (agenda' = Rest /\ UNCHANGED session) \/ Throw
  BY Zenon DEF ReadPage
<1>4. CASE agenda' = Rest /\ UNCHANGED session
  BY <1>1, <1>2, <1>4, CarriedOut DEF Switch, session
<1>5. CASE Throw
  BY <1>1, <1>2, <1>5, Refused
<1> QED  BY <1>3, <1>4, <1>5

LEMMA ReadBytesKeeps ==
  ASSUME IInv, ReadBytes
  PROVE  IInv'
<1>1. agenda # <<>> /\ agenda[1].do = "bytes" /\ Head(agenda) = agenda[1]
  BY HeadIs DEF ReadBytes
<1>2. UNCHANGED <<box, mode, request, reply, flashbuf>>
  BY DEF ReadBytes, gdb
<1> DEFINE c == [agenda[1] EXCEPT !.cnt = 1]
<1>3. \/ agenda' = Rest /\ UNCHANGED session
      \/ Throw
      \/ agenda' = <<c>> \o Rest /\ UNCHANGED session
  BY <1>1, Zenon DEF ReadBytes
<1>4. CASE agenda' = Rest /\ UNCHANGED session
  BY <1>1, <1>2, <1>4, CarriedOut DEF Switch, session
<1>5. CASE Throw
  BY <1>1, <1>2, <1>5, Refused
<1>6. CASE agenda' = <<c>> \o Rest /\ UNCHANGED session
  <2>1. c.do = "bytes"
    BY <1>1
  <2> HIDE DEF c
  <2>2. Fits(<<c>>, request.cmd) /\ NoSwitch(<<c>>)
    <3>1. CallOK(c, request.cmd) /\ c.do # "reply" /\ ~Switch(c)
      BY <2>1 DEF CallOK, Switch
    <3> QED  BY <3>1, OneFits
  <2>3. EndsIn(<<c>>, programmingEnabled, programmingEnabled)
    BY <2>2 DEF EndsIn
  <2> QED  BY <1>1, <1>2, <1>6, <2>2, <2>3, ExpandKept DEF session
<1> QED  BY <1>3, <1>4, <1>5, <1>6

LEMMA WriteBytesKeeps ==
  ASSUME IInv, WriteBytes
  PROVE  IInv'
<1>1. agenda # <<>> /\ agenda[1].do = "write"
  BY HeadIs DEF WriteBytes
<1>2. UNCHANGED <<box, mode, request, reply, flashbuf>>
  BY DEF WriteBytes, gdb, answer
<1>3. (agenda' = Rest /\ UNCHANGED session) \/ Throw
  BY Zenon DEF WriteBytes
<1>4. CASE agenda' = Rest /\ UNCHANGED session
  BY <1>1, <1>2, <1>4, CarriedOut DEF Switch, session
<1>5. CASE Throw
  BY <1>1, <1>2, <1>5, Refused
<1> QED  BY <1>3, <1>4, <1>5

LEMMA VerifyKeeps ==
  ASSUME IInv, VerifyPage \/ Verified \/ GiveUp
  PROVE  IInv'
<1>1. CASE VerifyPage
  <2>1. agenda # <<>> /\ agenda[1].do = "verify"
    BY <1>1, HeadIs DEF VerifyPage
  <2> QED  BY <1>1, <2>1, CarriedOut DEF VerifyPage, Switch, gdb, session
<1>2. CASE Verified
  <2>1. agenda # <<>> /\ agenda[1].do = "verified"
    BY <1>2, HeadIs DEF Verified
  <2>2. UNCHANGED <<box, mode, request, reply, flashbuf>>
    BY <1>2 DEF Verified, gdb, answer
  <2>3. (agenda' = Rest /\ UNCHANGED session) \/ Throw
    BY <1>2, Zenon DEF Verified
  <2>4. CASE agenda' = Rest /\ UNCHANGED session
    BY <2>1, <2>2, <2>4, CarriedOut DEF Switch, session
  <2>5. CASE Throw
    BY <2>1, <2>2, <2>5, Refused
  <2> QED  BY <2>3, <2>4, <2>5
<1>3. CASE GiveUp
  <2>1. agenda # <<>> /\ agenda[1].do = "give up"
    BY <1>3, HeadIs DEF GiveUp
  <2>2. UNCHANGED <<box, mode, request, reply, flashbuf>> /\ Throw
    BY <1>3 DEF GiveUp, gdb, answer
  <2> QED  BY <2>1, <2>2, Refused
<1> QED  BY <1>1, <1>2, <1>3

-----------------------------------------------------------------------------
(* The requests.                                                           *)

(* Between requests the mode is the one the last had to leave. *)
LEMMA AtRest ==
  ASSUME IInv, Idle, stage < gone
  PROVE  ~slipped /\ box.proto # "dw" => programmingEnabled = progmode /\ progmode = Due
<1>1. stage # gone
  BY OptionIs DEF IInv, StageOK, Options
<1>2. \A m, d : EndsIn(<<>>, m, d) => d = m
  BY NothingFits DEF EndsIn
<1> QED  BY <1>1, <1>2 DEF IInv, ModeOK, Idle

(* The answer behind what fits. *)
LEMMA ReplyWell ==
  ASSUME NEW cmd
  PROVE  /\ Well(<<Do("reply")>>, cmd) /\ NoSwitch(<<Do("reply")>>)
         /\ Well(<<Do("reply"), Do("catch")>>, cmd)
         /\ NoSwitch(<<Do("reply"), Do("catch")>>)
<1> DEFINE r == Do("reply")
           c == Do("catch")
           S == {r, c}
           one == <<r>>
           two == <<r, c>>
<1>1. /\ CallOK(r, cmd) /\ ~Switch(r) /\ CallOK(c, cmd) /\ ~Switch(c)
      /\ c.do = "catch" /\ r.do = "reply"
  BY DEF CallOK, Switch, Do
<1> HIDE DEF r, c
<1>2. /\ one \in Seq(S) /\ DOMAIN one = {1} /\ one[1] = r
      /\ two \in Seq(S) /\ DOMAIN two = {1, 2} /\ two[1] = r /\ two[2] = c
  BY DEF one, two
<1> HIDE DEF S, one, two
<1>3. Sequenced(one) /\ Sequenced(two)
  BY <1>2, SequencedIs
<1>4. Well(one, cmd) /\ NoSwitch(one)
  BY <1>1, <1>2, <1>3 DEF Well, NoSwitch
<1>5. Well(two, cmd) /\ NoSwitch(two)
  <2>1. \A j \in DOMAIN two : \A i \in DOMAIN two : j > i => j = 2
    BY <1>2
  <2> QED  BY <1>1, <1>2, <1>3, <2>1 DEF Well, NoSwitch
<1> QED  BY <1>4, <1>5 DEF one, two, r, c

(* A call, the answer, and the end of the try block. *)
LEMMA CallWell ==
  ASSUME NEW c, NEW cmd, CallOK(c, cmd), c.do # "reply", ~Switch(c)
  PROVE  /\ Well(<<c, Do("reply"), Do("catch")>>, cmd)
         /\ NoSwitch(<<c, Do("reply"), Do("catch")>>)
<1> DEFINE r == Do("reply")
           e == Do("catch")
           S == {c, r, e}
           a == <<c, r, e>>
<1>1. /\ CallOK(r, cmd) /\ ~Switch(r) /\ CallOK(e, cmd) /\ ~Switch(e)
      /\ e.do = "catch" /\ r.do = "reply"
  BY DEF CallOK, Switch, Do
<1> HIDE DEF r, e
<1>2. /\ a \in Seq(S) /\ DOMAIN a = {1, 2, 3}
      /\ a[1] = c /\ a[2] = r /\ a[3] = e
  BY DEF a
<1> HIDE DEF S, a
<1>3. Sequenced(a)
  BY <1>2, SequencedIs
<1>4. \A i, j \in DOMAIN a : j > i /\ i # 1 => j = 3
  BY <1>2
<1>5. Well(a, cmd) /\ NoSwitch(a)
  BY <1>1, <1>2, <1>3, <1>4 DEF Well, NoSwitch
<1> QED  BY <1>5 DEF a, r, e

LEMMA TakeOptionKeeps ==
  ASSUME TargetMemoryAssumption, IInv, NEW k \in DOMAIN Options,
         NEW program \in BOOLEAN, NEW verify \in BOOLEAN, TakeOption(k, program, verify)
  PROVE  IInv'
<1> DEFINE name == Options[k]
           x == Option(name, program, verify)
           r == <<Do("reply")>>
<1>1. /\ stage < k /\ Idle /\ stage' = k
      /\ agenda' = x \o r
      /\ request'.cmd = name /\ request'.found = programmingEnabled
      /\ reply' = "none"
      /\ UNCHANGED <<box, mode, flashbuf, goodbye, slipped>>
  BY DEF TakeOption, NoRequest, gdb
<1>2. name \in OptionNames /\ name \notin Packets
  BY OptionIs DEF OptionNames, Packets
<1>3. Fits(x, name) /\ EndsIn(x, FALSE, FALSE)
  BY <1>2, OptionFits
<1> HIDE DEF name, x, r
<1>4. Well(r, name) /\ NoSwitch(r)
  BY ReplyWell DEF r
<1>5. /\ stage < serving /\ stage < gone /\ stage' \in 0 .. serving
      /\ stage \in 0 .. gone
  <2>1. stage \in 0 .. gone
    BY DEF IInv, StageOK
  <2>2. k \in 1 .. 7 /\ serving = 8 /\ gone = 9
    BY OptionIs
  <2>3. stage < k /\ stage' = k
    BY <1>1
  <2> QED  BY <2>1, <2>2, <2>3
<1>6. Due = FALSE /\ Due' = FALSE
  <2>1. request.cmd \notin Packets
    BY <1>5 DEF IInv, StageOK
  <2> QED  BY <1>1, <1>2, <2>1 DEF Due, Packets
<1>7. Well(agenda', request'.cmd)
  BY <1>1, <1>3, <1>4, JoinWell
<1>8. ~slipped /\ box.proto # "dw" => EndsIn(agenda', progmode, Due')
  <2>1. EndsIn(r, FALSE, FALSE)
    BY <1>4 DEF EndsIn
  <2>2. EndsIn(agenda', FALSE, FALSE)
    BY <1>1, <1>3, <1>4, <2>1, JoinEnds DEF Fits, Well
  <2> QED  BY <1>1, <1>5, <1>6, <2>2, AtRest
<1>9. flashbuf'.max \in Nat
  BY <1>1 DEF IInv
<1> QED  BY <1>1, <1>2, <1>5, <1>7, <1>8, <1>9, StartKept

LEMMA ServeKeeps ==
  ASSUME IInv, Serve
  PROVE  IInv'
<1>1. serving = 8 /\ gone = 9
  BY OptionIs DEF Options
<1>2. /\ stage < serving /\ stage' = serving /\ stage \in 0 .. gone
      /\ UNCHANGED <<box, mode, request, reply, flashbuf, agenda, goodbye, slipped>>
  BY DEF IInv, StageOK, Serve, gdb, answer
<1>3. stage # gone /\ stage' # gone /\ stage' \in 0 .. gone
  BY <1>1, <1>2
<1>4. StageOK'
  <2>1. ~(stage' < serving)
    BY <1>1, <1>2
  <2> QED  BY <1>2, <1>3, <2>1 DEF IInv, StageOK
<1>5. AgendaOK'
  BY <1>2 DEF IInv, AgendaOK
<1>6. ModeOK'
  <2>1. Due' = Due
    BY <1>2 DEF Due
  <2> QED  BY <1>2, <1>3, <2>1 DEF IInv, ModeOK, mode
<1> QED  BY <1>2, <1>4, <1>5, <1>6 DEF IInv

(* A packet of GDB. *)
LEMMA PacketKeeps ==
  ASSUME IInv, NEW cmd \in Packets, NEW x, NEW addr, NEW n, NEW todo,
         Packet(cmd, x, addr, n, todo), flashbuf'.max \in Nat, Well(todo, cmd),
         ~slipped /\ box.proto # "dw" => EndsIn(todo, progmode, Due')
  PROVE  IInv'
<1>1. /\ stage = serving /\ Idle /\ UNCHANGED stage /\ agenda' = todo
      /\ request'.cmd = cmd /\ request'.found = programmingEnabled
      /\ reply' = "error"
      /\ UNCHANGED <<box, mode, goodbye, slipped>>
  BY DEF Packet, session
<1>2. serving = 8 /\ gone = 9
  BY OptionIs DEF Options
<1>3. stage < gone /\ stage' = serving /\ stage' \in 0 .. serving
  BY <1>1, <1>2
<1> QED  BY <1>1, <1>3, StartKept

LEMMA PacketIs ==
  ASSUME IInv, NEW cmd, NEW x, NEW addr, NEW n, NEW todo,
         Packet(cmd, x, addr, n, todo)
  PROVE  /\ request'.cmd = cmd /\ request'.found = programmingEnabled
         /\ UNCHANGED box
         /\ ~slipped /\ box.proto # "dw" => programmingEnabled = progmode
<1>1. serving = 8 /\ gone = 9
  BY OptionIs DEF Options
<1>2. stage < gone /\ Idle
  BY <1>1 DEF Packet
<1> QED  BY <1>2, AtRest DEF Packet

LEMMA ReadMemoryKeeps ==
  ASSUME TargetMemoryAssumption, IInv, NEW x \in Areas, NEW r \in Ranges[x],
         ReadMemory(x, r[1], r[2])
  PROVE  IInv'
<1> DEFINE c == jtagRead(x, r[1], r[2])
           t == <<Do("reply"), Do("catch")>>
           todo == <<c, Do("reply"), Do("catch")>>
<1>1. Packet("m", x, r[1], r[2], todo) /\ UNCHANGED flashbuf
  BY DEF ReadMemory
<1>2. CallOK(c, "m") /\ c.do # "reply" /\ ~Switch(c)
  <2>1. r[1] \in Int /\ r[2] \in Int
    BY DEF TargetMemoryAssumption
  <2> QED  BY <2>1 DEF CallOK, Switch, jtagRead, Spaces
<1> HIDE DEF c
<1>3. Well(todo, "m") /\ NoSwitch(todo)
  BY <1>2, CallWell
<1>4. Due' = programmingEnabled
      /\ (~slipped /\ box.proto # "dw" => programmingEnabled = progmode)
  <2> HIDE DEF todo
  <2>1. /\ request'.cmd = "m" /\ request'.found = programmingEnabled
        /\ (~slipped /\ box.proto # "dw" => programmingEnabled = progmode)
    BY <1>1, PacketIs
  <2> QED  BY <2>1 DEF Due
<1>5. flashbuf'.max \in Nat /\ "m" \in Packets
  BY <1>1 DEF IInv, Packets
<1>6. ~slipped /\ box.proto # "dw" => EndsIn(todo, progmode, Due')
  BY <1>3, <1>4 DEF EndsIn
<1> HIDE DEF todo
<1> QED  BY <1>1, <1>3, <1>5, <1>6, PacketKeeps

LEMMA WriteMemoryKeeps ==
  ASSUME TargetMemoryAssumption, IInv, NEW x \in Areas, NEW r \in Ranges[x],
         WriteMemory(x, r[1], r[2])
  PROVE  IInv'
<1> DEFINE addr   == r[1]
           n      == r[2]
           lead   == addr % 2 = 1 /\ request.cmd = "M" /\ orphan.pending
           sent   == Sent(addr, n)
           buffer == IF lead THEN <<orphan.byte>> \o sent ELSE sent
           odd    == x = "flash" /\ Len(buffer) % 2 = 1
           bytes  == IF odd THEN Front(buffer) ELSE buffer
           c == jtagWrite(x, IF lead THEN addr - 1 ELSE addr, bytes)
           todo == <<c, Do("reply"), Do("catch")>>
<1>1. Packet("M", x, r[1], r[2], todo) /\ UNCHANGED flashbuf
  BY Zenon DEF WriteMemory
<1>2. Len(bytes) \in Nat
  <2>1. n \in Nat
    BY DEF TargetMemoryAssumption
  <2> DEFINE S == {orphan.byte} \cup {sent[i] : i \in 1 .. n}
  <2>2. sent \in Seq(S)
    <3>1. sent \in [1 .. n -> S]
      BY DEF Sent
    <3> HIDE DEF sent, S, n
    <3> QED  BY <2>1, <3>1, ListIs
  <2>3. <<orphan.byte>> \in Seq(S)
    <3>1. orphan.byte \in S
      OBVIOUS
    <3> HIDE DEF S
    <3> QED  BY <3>1
  <2> HIDE DEF S, sent
  <2>4. <<orphan.byte>> \o sent \in Seq(S)
    BY <2>2, <2>3, ConcatProperties
  <2>5. buffer \in Seq(S)
    BY <2>2, <2>4
  <2> HIDE DEF buffer
  <2>6. Front(buffer) \in Seq(S)
    <3> DEFINE m == Len(buffer) - 1
    <3>1. m \in Int /\ 1 \in Int /\ \A i \in 1 .. m : buffer[i] \in S
      BY <2>5
    <3> HIDE DEF m
    <3>2. SubSeq(buffer, 1, m) \in Seq(S)
      BY <3>1, SubSeqProperties
    <3> QED  BY <3>2 DEF m, Front
  <2>7. bytes \in Seq(S)
    BY <2>5, <2>6
  <2> QED  BY <2>7
<1> HIDE DEF bytes
<1>3. CallOK(c, "M") /\ c.do # "reply" /\ ~Switch(c)
  BY <1>2 DEF CallOK, Switch, jtagWrite, Spaces
<1> HIDE DEF c
<1>4. Well(todo, "M") /\ NoSwitch(todo)
  BY <1>3, CallWell
<1>5. Due' = programmingEnabled
      /\ (~slipped /\ box.proto # "dw" => programmingEnabled = progmode)
  <2> HIDE DEF todo
  <2>1. /\ request'.cmd = "M" /\ request'.found = programmingEnabled
        /\ (~slipped /\ box.proto # "dw" => programmingEnabled = progmode)
    BY <1>1, PacketIs
  <2> QED  BY <2>1 DEF Due
<1>6. flashbuf'.max \in Nat /\ "M" \in Packets
  BY <1>1 DEF IInv, Packets
<1>7. ~slipped /\ box.proto # "dw" => EndsIn(todo, progmode, Due')
  BY <1>4, <1>5 DEF EndsIn
<1> HIDE DEF todo
<1> QED  BY <1>1, <1>4, <1>6, <1>7, PacketKeeps

LEMMA FlashEraseKeeps ==
  ASSUME IInv, FlashErase
  PROVE  IInv'
<1> DEFINE on == Do("enable")
           e  == Do("erase")
           r  == Do("reply")
           todo == <<on, e, r>>
           S == {on, e, r}
<1>1. Packet("vFlashErase", "flash", 0, 0, todo) /\ flashbuf'.max = 0
  BY DEF FlashErase, NoBuffer
<1>2. /\ CallOK(on, "vFlashErase") /\ Switch(on) /\ on.do = "enable"
      /\ CallOK(e, "vFlashErase") /\ ~Switch(e) /\ e.do # "reply"
      /\ CallOK(r, "vFlashErase") /\ ~Switch(r) /\ on.do # "reply"
  BY DEF CallOK, Switch, Do
<1> HIDE DEF on, e, r
<1>3. /\ todo \in Seq(S) /\ DOMAIN todo = {1, 2, 3}
      /\ todo[1] = on /\ todo[2] = e /\ todo[3] = r
  OBVIOUS
<1> HIDE DEF todo, S
<1>4. Sequenced(todo)
  BY <1>3, SequencedIs
<1>5. \A i, j \in DOMAIN todo : j > i => i # 3 /\ j # 1
  BY <1>3
<1>6. Well(todo, "vFlashErase")
  BY <1>2, <1>3, <1>4, <1>5 DEF Well
<1>7. \A m : EndsIn(todo, m, TRUE)
  <2>1. \A j \in DOMAIN todo : j > 1 => ~Switch(todo[j])
    BY <1>2, <1>3, <1>5
  <2>2. 1 \in DOMAIN todo /\ Switch(todo[1]) /\ TRUE = (todo[1].do = "enable")
    BY <1>2, <1>3
  <2> QED  BY <2>1, <2>2 DEF EndsIn
<1>8. box.proto # "dw" => Due' = TRUE
  <2>1. request'.cmd = "vFlashErase" /\ UNCHANGED box
    BY <1>1, PacketIs
  <2> QED  BY <2>1 DEF Due
<1>9. "vFlashErase" \in Packets /\ flashbuf'.max \in Nat
  BY <1>1 DEF Packets
<1>10. ~slipped /\ box.proto # "dw" => EndsIn(todo, progmode, Due')
  BY <1>7, <1>8
<1> QED  BY <1>1, <1>6, <1>9, <1>10, PacketKeeps

LEMMA FlashWriteKeeps ==
  ASSUME TargetMemoryAssumption, IInv, NEW s \in Ranges["flash"], FlashWrite(s[1], s[2])
  PROVE  IInv'
<1> DEFINE todo == <<Do("reply")>>
<1>1. /\ Packet("vFlashWrite", "flash", s[1], s[2], todo)
      /\ flashbuf' = [flashbuf EXCEPT !.data = Overlaid(@, s[1], Sent(s[1], s[2])),
                                      !.max = IF s[1] + s[2] > @ THEN s[1] + s[2] ELSE @]
  BY DEF FlashWrite
<1>2. Well(todo, "vFlashWrite") /\ NoSwitch(todo)
  BY ReplyWell
<1> HIDE DEF todo
<1>3. flashbuf'.max \in Nat
  <2>1. s[1] \in Nat /\ s[2] \in Nat /\ flashbuf.max \in Nat
    BY DEF TargetMemoryAssumption, Areas, IInv
  <2>2. \/ flashbuf'.max = s[1] + s[2]
        \/ flashbuf'.max = flashbuf.max
    BY <1>1
  <2> QED  BY <2>1, <2>2
<1>4. Due' = programmingEnabled
      /\ (~slipped /\ box.proto # "dw" => programmingEnabled = progmode)
  <2>1. /\ request'.cmd = "vFlashWrite" /\ request'.found = programmingEnabled
        /\ (~slipped /\ box.proto # "dw" => programmingEnabled = progmode)
    BY <1>1, PacketIs
  <2> QED  BY <2>1 DEF Due
<1>5. ~slipped /\ box.proto # "dw" => EndsIn(todo, progmode, Due')
  BY <1>2, <1>4 DEF EndsIn
<1>6. "vFlashWrite" \in Packets
  BY DEF Packets
<1> QED  BY <1>1, <1>2, <1>3, <1>5, <1>6, PacketKeeps

(* The pages of vFlashDone are whole. *)
LEMMA PagesFit ==
  ASSUME TargetMemoryAssumption, NEW max \in Nat, NEW cmd
  PROVE  Fits(Pages(max), cmd) /\ NoSwitch(Pages(max))
<1> DEFINE P == PageSize["flash"]
           n == (max + P - 1) \div P
           f == Pages(max)
<1>1. P \in Nat \ {0}
  BY DEF TargetMemoryAssumption, Areas
<1>2. n \in Int
  <2> HIDE DEF P
  <2> QED  BY <1>1
<1>3. /\ f = [k \in 1 .. n |-> f[k]]
      /\ \A k \in 1 .. n : f[k] = BufferedPage((k - 1) * P, P)
  BY DEF Pages
<1>4. \A a : LET e == BufferedPage(a, P)
             IN  CallOK(e, cmd) /\ e.do # "reply" /\ ~Switch(e)
  <2> TAKE a
  <2> DEFINE b == [i \in 1 .. P |-> flashbuf.data[a + i - 1]]
             e == BufferedPage(a, P)
  <2>1. Len(b) = P
    <3> HIDE DEF P
    <3> QED  BY <1>1
  <2>2. e.do = "jtagWrite" /\ e.area = "flash" /\ e.bytes = b
    BY DEF BufferedPage, jtagWrite
  <2> HIDE DEF e, b
  <2>3. CallOK(e, cmd) /\ e.do # "reply" /\ ~Switch(e)
    BY <1>1, <2>1, <2>2 DEF CallOK, Switch, Spaces, Areas
  <2> QED  BY <2>3 DEF e
<1> HIDE DEF f, n, P
<1>5. \A k \in 1 .. n : CallOK(f[k], cmd) /\ f[k].do # "reply" /\ ~Switch(f[k])
  <2> SUFFICES ASSUME NEW k \in 1 .. n
               PROVE  CallOK(f[k], cmd) /\ f[k].do # "reply" /\ ~Switch(f[k])
    OBVIOUS
  <2> DEFINE e == f[k]
  <2>1. e = BufferedPage((k - 1) * P, P)
    BY <1>3
  <2> HIDE DEF e
  <2>2. CallOK(e, cmd) /\ e.do # "reply" /\ ~Switch(e)
    BY <1>4, <2>1, Zenon
  <2> QED  BY <2>2 DEF e
<1>6. Fits(f, cmd) /\ NoSwitch(f)
  BY <1>2, <1>3, <1>5, ListFits
<1> QED  BY <1>6 DEF f

LEMMA FlashDoneKeeps ==
  ASSUME TargetMemoryAssumption, IInv, FlashDone
  PROVE  IInv'
<1> DEFINE off  == Do("disable")
           r    == Do("reply")
           ends == <<off, r>>
           pages == Pages(flashbuf.max)
           todo == pages \o ends
           S == {off, r}
<1>1. /\ Packet("vFlashDone", "flash", 0, flashbuf.max, todo)
      /\ flashbuf' = [flashbuf EXCEPT !.erased = FALSE]
  BY DEF FlashDone
<1>2. /\ CallOK(off, "vFlashDone") /\ Switch(off) /\ off.do # "enable"
      /\ off.do # "reply" /\ CallOK(r, "vFlashDone") /\ ~Switch(r)
  BY DEF CallOK, Switch, Do
<1> HIDE DEF off, r
<1>3. /\ ends \in Seq(S) /\ DOMAIN ends = {1, 2}
      /\ ends[1] = off /\ ends[2] = r
  OBVIOUS
<1> HIDE DEF ends, S, pages
<1>4. Sequenced(ends)
  BY <1>3, SequencedIs
<1>5. \A i, j \in DOMAIN ends : j > i => i = 1 /\ j = 2
  BY <1>3
<1>6. Well(ends, "vFlashDone")
  BY <1>2, <1>3, <1>4, <1>5 DEF Well
<1>7. \A m : EndsIn(ends, m, FALSE)
  <2>1. \A j \in DOMAIN ends : j > 1 => ~Switch(ends[j])
    BY <1>2, <1>3
  <2>2. 1 \in DOMAIN ends /\ Switch(ends[1]) /\ FALSE = (ends[1].do = "enable")
    BY <1>2, <1>3
  <2> QED  BY <2>1, <2>2 DEF EndsIn
<1>8. flashbuf.max \in Nat /\ flashbuf'.max \in Nat
  BY <1>1 DEF IInv
<1>9. Fits(pages, "vFlashDone") /\ NoSwitch(pages)
  BY <1>8, PagesFit DEF pages
<1>10. Well(todo, "vFlashDone")
  BY <1>6, <1>9, JoinWell
<1>11. EndsIn(todo, progmode, FALSE)
  <2>1. EndsIn(pages, progmode, progmode)
    BY <1>9 DEF EndsIn
  <2> QED  BY <1>4, <1>7, <1>9, <2>1, JoinEnds DEF Fits
<1> HIDE DEF todo
<1>12. Due' = FALSE
  <2>1. request'.cmd = "vFlashDone"
    BY <1>1, PacketIs
  <2> QED  BY <2>1 DEF Due
<1>13. "vFlashDone" \in Packets
  BY DEF Packets
<1> QED  BY <1>1, <1>8, <1>10, <1>11, <1>12, <1>13, PacketKeeps

-----------------------------------------------------------------------------
(* The theorems.                                                           *)

LEMMA WorkKeeps ==
  ASSUME TargetMemoryAssumption, IInv, Work
  PROVE  IInv'
<1>1. enableProgramming => IInv'
  BY SetModeKeeps DEF enableProgramming
<1>2. disableProgramming => IInv'
  BY SetModeKeeps DEF disableProgramming
<1> QED  BY <1>1, <1>2, CallReadKeeps, CallWriteKeeps, ThrowTextKeeps, TryBlockKeeps,
            AnswerKeeps, EraseKeeps, ReadPageKeeps, ReadBytesKeeps, WriteBytesKeeps,
            VerifyKeeps DEF Work

LEMMA NextKeeps ==
  ASSUME TargetMemoryAssumption, IInv, [Next]_vars
  PROVE  IInv'
<1>1. CASE Work
  BY <1>1, WorkKeeps
<1>2. CASE \E k \in DOMAIN Options, program, verify \in BOOLEAN :
             TakeOption(k, program, verify)
  BY <1>2, TakeOptionKeeps
<1>3. CASE Serve
  BY <1>3, ServeKeeps
<1>4. CASE \E x \in Areas : \E r \in Ranges[x] : ReadMemory(x, r[1], r[2])
  BY <1>4, ReadMemoryKeeps
<1>5. CASE \E x \in Areas : \E r \in Ranges[x] : WriteMemory(x, r[1], r[2])
  BY <1>5, WriteMemoryKeeps
<1>6. CASE FlashErase
  BY <1>6, FlashEraseKeeps
<1>7. CASE \E r \in Ranges["flash"] : FlashWrite(r[1], r[2])
  BY <1>7, FlashWriteKeeps
<1>8. CASE FlashDone
  BY <1>8, FlashDoneKeeps
<1>9. CASE UNCHANGED vars
  <2>1. UNCHANGED <<box, programmingEnabled, progmode, agenda, request, reply, stage,
                    goodbye, slipped, flashbuf>>
    BY <1>9 DEF vars, mode, answer, gdb, session
  <2>2. Due' = Due
    BY <2>1 DEF Due
  <2> QED  BY <2>1, <2>2 DEF IInv, AgendaOK, StageOK, ModeOK
<1> QED  BY <1>1, <1>2, <1>3, <1>4, <1>5, <1>6, <1>7, <1>8, <1>9 DEF Next

LEMMA Invariant == Spec => []IInv
<1>1. Init => IInv
  BY Initially
<1>2. IInv /\ [Next]_vars => IInv'
  BY TargetMemoryAssumption, NextKeeps
<1> QED  BY <1>1, <1>2, PTL DEF Spec

(* A command that was carried out leaves the target in the mode it has to, *)
(* and the class knows it: whatever a read or a write needs in programming *)
(* mode is undone after it, and the errors that keep it from being undone  *)
(* are the only exception.                                                 *)
THEOREM MemoryModeAsFound == Spec => []ModeAsFound
<1>1. IInv => ModeAsFound
  <2> SUFFICES ASSUME IInv, Idle, reply = "ok", ~slipped
               PROVE  /\ programmingEnabled = progmode
                      /\ progmode = Due
    <3>1. Due = CASE request.cmd = "vFlashErase" -> box.proto # "dw"
                  [] request.cmd \in {"m", "M", "vFlashWrite"} -> request.found
                  [] OTHER -> FALSE
      <4>1. "vFlashErase" \notin {"m", "M", "vFlashWrite"}
        OBVIOUS
      <4> QED  BY <4>1, Zenon DEF Due
    <3> QED  BY <3>1, Zenon DEF ModeAsFound
  <2>1. stage # gone /\ stage < gone
    <3>1. gone = 9 /\ stage \in 0 .. gone /\ stage # gone
      BY OptionIs DEF Options, IInv, StageOK
    <3> QED  BY <3>1
  <2>2. CASE box.proto # "dw"
    BY <2>1, <2>2, AtRest
  <2>3. CASE box.proto = "dw"
    <3>1. ~programmingEnabled /\ ~progmode /\ ~request.found
      BY <2>3 DEF IInv, ModeOK
    <3>2. programmingEnabled \in BOOLEAN /\ progmode \in BOOLEAN
          /\ request.found \in BOOLEAN
      BY DEF IInv, ModeOK
    <3> QED  BY <2>3, <3>1, <3>2 DEF Due
  <2> QED  BY <2>2, <2>3
<1> QED  BY <1>1, Invariant, PTL

(* Nothing but a packet 'M' of another size than a page ends the session   *)
(* without a good-bye to the box.                                          *)
THEOREM MemoryGoodbye == Spec => []GoodbyeUnlessMissized
<1>1. IInv => GoodbyeUnlessMissized
  BY DEF IInv, StageOK, GoodbyeUnlessMissized
<1> QED  BY <1>1, Invariant, PTL

-----------------------------------------------------------------------------
(* What reads and what writes.                                             *)

Reader(e) == e.do \in {"jtagRead", "page", "bytes"}
Writer(e) == e.do \in {"jtagWrite", "write", "erase"}

(* The requests whose data is followed; an error of theirs drops the answer. *)
Accesses == {"m", "M", "vFlashDone"}

(* A call to write: within the request, and from a page's start if the      *)
(* request begins at one.                                                  *)
WriteFor(e, q) ==
  /\ e.area = q.area /\ e.addr \in Nat
  /\ Len(e.bytes) \in Nat /\ DOMAIN e.bytes = 1 .. Len(e.bytes)
  /\ q.addr % PageSize[q.area] = 0 => e.addr % PageSize[q.area] = 0

(* What the agenda of request q on a target of protocol p may hold.         *)
ElementOK(e, q, p) ==
  /\ q.cmd \in {"m", "M"} /\ p # "dw" => ~Switch(e)
  /\ q.cmd = "m" => ~Writer(e)
  /\ q.cmd = "m" /\ e.do = "jtagRead" => e = jtagRead(q.area, q.addr, q.n)
  /\ q.cmd \in {"M", "vFlashDone"} =>
       /\ ~Reader(e)
       /\ e.do = "jtagWrite" => WriteFor(e, q)

Shape(a, q, p) ==
  /\ Sequenced(a)
  /\ \A i \in DOMAIN a : ElementOK(a[i], q, p)
  /\ q.cmd \in Accesses =>
       \A i, j \in DOMAIN a : a[i].do = "catch" /\ a[j].do = "reply" => j < i

RequestOK(q) ==
  /\ q.area \in Areas /\ q.addr \in Nat /\ q.n \in Nat
  /\ q.cmd \in {"m", "M"} => q.n > 0 /\ q.addr + q.n <= Size[q.area]
  /\ q.cmd = "vFlashDone" => q.area = "flash" /\ q.addr = 0

MemOK == DOMAIN mem = Areas /\ \A x \in Areas : DOMAIN mem[x] = 0 .. Size[x] - 1

Shaped ==
  RequestOK(request) /\ MemOK /\ Shape(agenda, request, box.proto) /\ served \in Nat

(* The answer is given already, or to come and not cut off. *)
Promised(a, r) ==
  /\ r = "ok" \/ \E i \in DOMAIN a : a[i].do = "reply"
  /\ \A i \in DOMAIN a : a[i].do # "throw"

Kinds(a, K) == Sequenced(a) /\ \A i \in DOMAIN a : a[i].do \in K

LEMMA RestShape ==
  ASSUME NEW a, NEW q, NEW p, Shape(a, q, p), NEW k \in 0 .. Len(a), NEW u,
         u = SubSeq(a, k + 1, Len(a))
  PROVE  Shape(u, q, p)
<1>1. /\ Sequenced(u)
      /\ \A i \in DOMAIN u : i + k \in DOMAIN a /\ u[i] = a[i + k]
      /\ DOMAIN u = 1 .. Len(a) - k
  BY RestIs, ZenonT(60) DEF Shape
<1>2. \A i \in DOMAIN u : ElementOK(u[i], q, p)
  BY <1>1 DEF Shape
<1>3. ASSUME q.cmd \in Accesses, NEW i \in DOMAIN u, NEW j \in DOMAIN u,
             u[i].do = "catch", u[j].do = "reply"
      PROVE  j < i
  <2> DEFINE v == i + k
             w == j + k
  <2>1. v \in DOMAIN a /\ w \in DOMAIN a /\ a[v].do = "catch" /\ a[w].do = "reply"
    BY <1>1, <1>3
  <2> HIDE DEF v, w
  <2>2. w < v
    BY <1>3, <2>1 DEF Shape
  <2>3. i \in Int /\ j \in Int /\ k \in Int
    BY <1>1
  <2> QED  BY <2>2, <2>3 DEF v, w
<1> QED  BY <1>1, <1>2, <1>3 DEF Shape

LEMMA HeadShape ==
  ASSUME NEW a, NEW q, NEW p, Shape(a, q, p), a # <<>>
  PROVE  /\ Len(a) \in Nat /\ Len(a) >= 1 /\ DOMAIN a = 1 .. Len(a) /\ 1 \in DOMAIN a
         /\ Head(a) = a[1] /\ ElementOK(a[1], q, p)
         /\ Shape(Tail(a), q, p)
         /\ DOMAIN Tail(a) = 1 .. Len(a) - 1
         /\ \A i \in DOMAIN Tail(a) : i + 1 \in DOMAIN a /\ Tail(a)[i] = a[i + 1]
<1> DEFINE n == Len(a)
           u == Tail(a)
<1>1. Sequenced(a)
  BY DEF Shape
<1>2. /\ Head(a) = a[1] /\ n \in Nat /\ n >= 1 /\ DOMAIN a = 1 .. n
      /\ 1 \in DOMAIN a /\ u = SubSeq(a, 2, n)
  BY <1>1, SequencedHas DEF Sequenced
<1>3. 1 \in 0 .. Len(a) /\ u = SubSeq(a, 1 + 1, Len(a))
  BY <1>2
<1>4. /\ DOMAIN u = 1 .. n - 1
      /\ \A i \in DOMAIN u : i + 1 \in DOMAIN a /\ u[i] = a[i + 1]
  BY <1>1, <1>3, RestIs
<1>5. Shape(u, q, p)
  BY <1>3, RestShape
<1> HIDE DEF n, u
<1>6. ElementOK(a[1], q, p)
  BY <1>2 DEF Shape
<1> QED  BY <1>2, <1>4, <1>5, <1>6 DEF n, u

(* A call is replaced by commands. *)
LEMMA JoinShape ==
  ASSUME NEW a, NEW b, NEW q, NEW p, Sequenced(a), Shape(b, q, p),
         \A i \in DOMAIN a : ElementOK(a[i], q, p) /\ a[i].do \notin {"reply", "catch"}
  PROVE  Shape(a \o b, q, p)
<1> DEFINE c == a \o b
           m == Len(a)
<1>1. /\ Sequenced(c) /\ m \in Nat /\ DOMAIN c \subseteq Int
      /\ \A i \in DOMAIN c :
           \/ i \in DOMAIN a /\ c[i] = a[i]
           \/ i > m /\ i - m \in DOMAIN b /\ c[i] = b[i - m]
  <2>1. Sequenced(a) /\ Sequenced(b)
    BY DEF Shape
  <2> QED  BY <2>1, JoinIs, SequencedHas
<1> HIDE DEF c, m
<1>2. \A i \in DOMAIN c : ElementOK(c[i], q, p)
  BY <1>1 DEF Shape
<1>3. ASSUME q.cmd \in Accesses, NEW i \in DOMAIN c, NEW j \in DOMAIN c,
             c[i].do = "catch", c[j].do = "reply"
      PROVE  j < i
  <2> DEFINE v == i - m
             w == j - m
  <2>1. v \in DOMAIN b /\ w \in DOMAIN b /\ b[v].do = "catch" /\ b[w].do = "reply"
    BY <1>1, <1>3
  <2> HIDE DEF v, w
  <2>2. w < v
    BY <1>3, <2>1 DEF Shape
  <2> QED  BY <1>1, <2>2 DEF v, w
<1> QED  BY <1>1, <1>2, <1>3 DEF Shape, c

(* An error of a request that is followed drops the answer. *)
LEMMA ThrowShape ==
  ASSUME Shaped, agenda # <<>>, Throw
  PROVE  /\ Shape(agenda', request, box.proto)
         /\ request.cmd \in Accesses => \A i \in DOMAIN agenda' : agenda'[i].do # "reply"
<1> DEFINE catches == {k \in DOMAIN agenda :
                        /\ agenda[k].do = "catch"
                        /\ \A j \in 1 .. k : agenda[j].do # "try"}
           q == request
           p == box.proto
<1>1. /\ Shape(agenda, q, p) /\ Sequenced(agenda)
      /\ DOMAIN agenda = 1 .. Len(agenda) /\ Len(agenda) \in Nat
  BY SequencedHas DEF Shaped, Shape
<1> HIDE DEF q, p
<1>2. CASE catches # {}
  <2> DEFINE k == CHOOSE k \in catches : \A j \in catches : k <= j
  <2>1. agenda' = SubSeq(agenda, k + 1, Len(agenda))
    BY <1>2, Zenon DEF Throw
  <2>2. k \in catches
    <3>1. catches \subseteq Nat
      BY <1>1
    <3> HIDE DEF catches
    <3> QED  BY <1>2, <3>1, MinIsLeast, Zenon
  <2>3. k \in 0 .. Len(agenda) /\ k \in DOMAIN agenda /\ agenda[k].do = "catch"
    <3> HIDE DEF k
    <3> QED  BY <1>1, <2>2
  <2> DEFINE u == agenda'
  <2> HIDE DEF k
  <2>4. u = SubSeq(agenda, k + 1, Len(agenda))
    BY <2>1
  <2> HIDE DEF u
  <2>5. Shape(u, q, p)
    BY <1>1, <2>3, <2>4, RestShape, ZenonT(60)
  <2>6. \A i \in DOMAIN u : i + k \in DOMAIN agenda /\ u[i] = agenda[i + k] /\ i > 0
    <3>1. /\ DOMAIN u = 1 .. Len(agenda) - k
          /\ \A i \in DOMAIN u : i + k \in DOMAIN agenda /\ u[i] = agenda[i + k]
      BY <1>1, <2>3, <2>4, RestIs, ZenonT(60)
    <3> QED  BY <1>1, <2>3, <3>1
  <2>7. ASSUME q.cmd \in Accesses, NEW i \in DOMAIN u, u[i].do = "reply"
        PROVE  FALSE
    <3> DEFINE l == i + k
    <3>1. l \in DOMAIN agenda /\ agenda[l].do = "reply"
      BY <2>6, <2>7
    <3>2. l > k
      <4>1. k \in Int /\ i \in Int /\ i > 0
        <5>1. i + k \in DOMAIN agenda /\ DOMAIN u = 1 .. Len(agenda) - k
          BY <1>1, <2>3, <2>4, <2>6, RestIs, ZenonT(60)
        <5> QED  BY <1>1, <2>3, <2>6, <5>1
      <4> QED  BY <4>1
    <3> HIDE DEF l
    <3>3. l < k
      BY <1>1, <2>3, <2>7, <3>1 DEF Shape
    <3> QED  BY <1>1, <2>3, <3>1, <3>2, <3>3
  <2> QED  BY <2>5, <2>7 DEF u, q, p
<1>3. CASE catches = {}
  <2>1. agenda' = <<>>
    BY <1>3, Zenon DEF Throw
  <2>2. Sequenced(<<>>) /\ DOMAIN <<>> = {}
    BY NothingFits DEF Fits
  <2> QED  BY <2>1, <2>2 DEF Shape
<1> QED  BY <1>2, <1>3
-----------------------------------------------------------------------------
(* What calls are replaced by.                                             *)

LEMMA JoinKinds ==
  ASSUME NEW K, NEW a, NEW b, Kinds(a, K), Kinds(b, K)
  PROVE  Kinds(a \o b, K)
<1> DEFINE c == a \o b
           m == Len(a)
<1>1. /\ Sequenced(a) /\ \A i \in DOMAIN a : a[i].do \in K
      /\ Sequenced(b) /\ \A i \in DOMAIN b : b[i].do \in K
  BY DEF Kinds
<1>2. /\ Sequenced(c)
      /\ \A i \in DOMAIN c :
           \/ i \in DOMAIN a /\ c[i] = a[i]
           \/ i > m /\ i - m \in DOMAIN b /\ c[i] = b[i - m]
  BY <1>1, JoinIs, SequencedHas
<1> HIDE DEF c, m
<1>3. \A i \in DOMAIN c : c[i].do \in K
  BY <1>1, <1>2
<1>4. Kinds(c, K)
  BY <1>2, <1>3 DEF Kinds
<1> QED  BY <1>4 DEF c

LEMMA OneKind ==
  ASSUME NEW K, NEW e, e.do \in K
  PROVE  Kinds(<<e>>, K) /\ Kinds(<<>>, K)
<1>1. Sequenced(<<e>>) /\ DOMAIN <<e>> = {1} /\ <<e>>[1] = e
  BY SequencedOne
<1>2. Sequenced(<<>>) /\ DOMAIN <<>> = {}
  BY NothingFits DEF Fits
<1> QED  BY <1>1, <1>2 DEF Kinds

LEMMA InProgmodeKinds ==
  ASSUME NEW K, {"enable", "disable"} \subseteq K, NEW y, Kinds(y, K), NEW space
  PROVE  Kinds(InProgmode(space, y), K)
<1> DEFINE on == Do("enable")
           off == Do("disable")
<1>1. on.do \in K /\ off.do \in K
  BY DEF Do
<1> HIDE DEF on, off
<1>2. Kinds((<<on>> \o y) \o <<off>>, K)
  BY <1>1, OneKind, JoinKinds
<1> QED  BY <1>2, Zenon DEF InProgmode, on, off

(* Flash and EEPROM are accessed in the mode there is, but for debugWIRE.  *)
LEMMA AsItIs ==
  ASSUME NEW x \in Areas, box.proto # "dw", NEW y
  PROVE  InProgmode(MemorySpace(x), y) = y
<1>1. x = "flash" \/ x = "eeprom"
  BY DEF Areas
<1>2. x = "eeprom" => MemorySpace(x) = IF programmingEnabled THEN "EEPROM_PAGE" ELSE "EEPROM"
  BY Zenon DEF MemorySpace
<1>3. x = "flash" => MemorySpace(x) = IF box.xmega THEN "XMEGA_APP_FLASH"
                                      ELSE IF programmingEnabled THEN "FLASH_PAGE" ELSE "SPM"
  <2>1. "flash" # "eeprom"
    OBVIOUS
  <2> QED  BY <2>1, Zenon DEF MemorySpace
<1>4. ~(NeedProgmode(MemorySpace(x)) /\ ~programmingEnabled)
  BY <1>1, <1>2, <1>3 DEF NeedProgmode
<1> QED  BY <1>4 DEF InProgmode

Commands == {"page", "bytes", "write", "erase", "throw", "enable", "disable"}

LEMMA ReadKinds ==
  ASSUME TargetMemoryAssumption, NEW x \in Spaces, NEW addr \in Int, NEW n \in Int
  PROVE  /\ Kinds(ReadCommands(x, addr, n), {"page", "bytes", "enable", "disable"})
         /\ x \in Areas /\ box.proto # "dw"
              => Kinds(ReadCommands(x, addr, n), {"page", "bytes"})
<1> DEFINE space == MemorySpace(x)
           c == ByteCommand(x, space, addr, n)
           y == IF Paged(space) THEN PageCommands(x, addr, n) ELSE <<c>>
           L == {"page", "bytes"}
           K == {"page", "bytes", "enable", "disable"}
<1>1. Kinds(y, L) /\ Kinds(y, K)
  <2>1. CASE Paged(space)
    <3> DEFINE f == PageCommands(x, addr, n)
    <3>1. Sequenced(f)
      BY <2>1, PagedAreas, PageCommandsFit DEF Fits
    <3>2. \A i \in DOMAIN f : f[i].do = "page"
      BY DEF PageCommands
    <3> HIDE DEF f
    <3>3. Kinds(f, L) /\ Kinds(f, K)
      BY <3>1, <3>2 DEF Kinds
    <3> QED  BY <2>1, <3>3, Zenon DEF f
  <2>2. CASE ~Paged(space)
    <3>1. c.do = "bytes"
      BY DEF ByteCommand
    <3> HIDE DEF c
    <3>2. Kinds(<<c>>, L) /\ Kinds(<<c>>, K)
      BY <3>1, OneKind
    <3> QED  BY <2>2, <3>2, Zenon
  <2> QED  BY <2>1, <2>2
<1>2. ReadCommands(x, addr, n) = InProgmode(space, y)
  BY DEF ReadCommands
<1>3. {"enable", "disable"} \subseteq K
  OBVIOUS
<1> HIDE DEF y, K, L
<1>4. Kinds(InProgmode(space, y), K)
  BY <1>1, <1>3, InProgmodeKinds
<1>5. x \in Areas /\ box.proto # "dw" => InProgmode(space, y) = y
  BY AsItIs
<1> QED  BY <1>1, <1>2, <1>4, <1>5 DEF K, L

(* The parts of jtagWrite(): an erase before, then the page in blocks. *)
Load(x, addr, n) ==
  box.proto # "dw" /\ MemorySpace(x) = "SPM" /\ addr = 0 /\ n > LoadBytes

Part(x, addr, bytes, k) ==
  WriteCommand(x, MemorySpace(x), PageStart(addr, PageSize[x]) + (k - 1) * Carried(x),
               BlockOf(bytes, k, Carried(x)))

Parts(x, addr, bytes) ==
  IF ~Paged(MemorySpace(x)) THEN <<WriteCommand(x, MemorySpace(x), addr, bytes)>>
  ELSE IF Len(bytes) # PageSize[x] THEN <<Do("throw")>>
  ELSE [k \in 1 .. (Len(bytes) \div Carried(x)) |-> Part(x, addr, bytes, k)]

LEMMA WriteParts ==
  ASSUME NEW x, NEW addr, NEW bytes
  PROVE  WriteCommands(x, addr, bytes) =
           (IF Load(x, addr, Len(bytes)) THEN <<Do("erase")>> ELSE <<>>)
             \o InProgmode(MemorySpace(x), Parts(x, addr, bytes))
  BY Zenon DEF WriteCommands, Parts, Part, Load

LEMMA PartsKinds ==
  ASSUME TargetMemoryAssumption, NEW x \in Spaces, NEW addr, NEW bytes, Len(bytes) \in Nat,
         NEW K, {"write", "throw"} \subseteq K
  PROVE  /\ Kinds(Parts(x, addr, bytes), K)
         /\ \A i \in DOMAIN Parts(x, addr, bytes) : ~Switch(Parts(x, addr, bytes)[i])
<1> DEFINE w == WriteCommand(x, MemorySpace(x), addr, bytes)
           t == Do("throw")
           n == Len(bytes) \div Carried(x)
           f == [k \in 1 .. n |-> Part(x, addr, bytes, k)]
           L == {"write", "throw"}
           y == Parts(x, addr, bytes)
<1>1. w.do = "write" /\ t.do = "throw"
  BY DEF WriteCommand, Do
<1>2. \A k \in 1 .. n : f[k].do = "write"
  BY DEF Part, WriteCommand
<1>3. Paged(MemorySpace(x)) => n \in Int
  <2> SUFFICES ASSUME Paged(MemorySpace(x)) PROVE n \in Int
    OBVIOUS
  <2>1. Carried(x) \in Nat \ {0}
    BY PagedAreas
  <2> QED  BY <2>1
<1>4. y = IF ~Paged(MemorySpace(x)) THEN <<w>>
          ELSE IF Len(bytes) # PageSize[x] THEN <<t>> ELSE f
  BY Zenon DEF Parts
<1> HIDE DEF w, t, n, y
<1>5. Kinds(<<w>>, L) /\ Kinds(<<t>>, L)
  BY <1>1, OneKind
<1>6. ASSUME Paged(MemorySpace(x))
      PROVE  Kinds(f, L)
  <2> DEFINE S == {f[k] : k \in 1 .. n}
  <2>1. f \in [1 .. n -> S] /\ n \in Int
    BY <1>3, <1>6
  <2> HIDE DEF f, S
  <2>2. Sequenced(f) /\ DOMAIN f = 1 .. n
    BY <2>1, ListIs
  <2> QED  BY <1>2, <2>2 DEF Kinds
<1> HIDE DEF f
<1>7. Kinds(y, L)
  <2> HIDE DEF L
  <2> QED  BY <1>4, <1>5, <1>6, Zenon
<1>8. \A i \in DOMAIN y : y[i].do \in K /\ ~Switch(y[i])
  BY <1>7 DEF Kinds, Switch
<1>9. Kinds(y, K)
  BY <1>7, <1>8 DEF Kinds
<1> QED  BY <1>8, <1>9 DEF y

LEMMA WriteKinds ==
  ASSUME TargetMemoryAssumption, NEW x \in Spaces, NEW addr, NEW bytes, Len(bytes) \in Nat
  PROVE  /\ Kinds(WriteCommands(x, addr, bytes),
                  {"write", "erase", "throw", "enable", "disable"})
         /\ x \in Areas /\ box.proto # "dw"
              => Kinds(WriteCommands(x, addr, bytes), {"write", "erase", "throw"})
<1> DEFINE y == Parts(x, addr, bytes)
           e == Do("erase")
           o == IF Load(x, addr, Len(bytes)) THEN <<e>> ELSE <<>>
           L == {"write", "erase", "throw"}
           K == {"write", "erase", "throw", "enable", "disable"}
           z == InProgmode(MemorySpace(x), y)
<1>1. Kinds(y, L) /\ Kinds(y, K)
  BY PartsKinds
<1>2. e.do \in L /\ e.do \in K
  BY DEF Do
<1>3. {"enable", "disable"} \subseteq K
  OBVIOUS
<1>4. WriteCommands(x, addr, bytes) = o \o z
  BY WriteParts
<1>5. x \in Areas /\ box.proto # "dw" => z = y
  BY AsItIs
<1> HIDE DEF e, y, L, K
<1>6. Kinds(z, K)
  BY <1>1, <1>3, InProgmodeKinds
<1> HIDE DEF z
<1>7. Kinds(o, L) /\ Kinds(o, K)
  BY <1>2, OneKind
<1> HIDE DEF o
<1>8. Kinds(o \o z, K) /\ Kinds(o \o y, L)
  BY <1>1, <1>6, <1>7, JoinKinds
<1> QED  BY <1>4, <1>5, <1>8 DEF K, L
-----------------------------------------------------------------------------
(* The steps of the work keep the shape of the agenda.                     *)

LEMMA FirstIs ==
  ASSUME IInv, Shaped, agenda # <<>>
  PROVE  /\ Head(agenda) = agenda[1] /\ ElementOK(agenda[1], request, box.proto)
         /\ CallOK(agenda[1], request.cmd) /\ Shape(Rest, request, box.proto)
         /\ Sequenced(Rest)
  BY UnderWay, HeadShape DEF Shaped, Rest

(* A call is carried out. *)
LEMMA ReplacedShape ==
  ASSUME IInv, Shaped, agenda # <<>>, NEW x, agenda' = x \o Rest,
         Kinds(x, {"page", "bytes", "write", "erase", "throw", "enable", "disable"}),
         request.cmd \in {"m", "M"} /\ box.proto # "dw" =>
           Kinds(x, {"page", "bytes", "write", "erase", "throw"}),
         request.cmd = "m" => Kinds(x, {"page", "bytes", "enable", "disable"}),
         request.cmd \in {"M", "vFlashDone"} =>
           Kinds(x, {"write", "erase", "throw", "enable", "disable"})
  PROVE  Shape(agenda', request, box.proto)
<1> DEFINE q == request
           p == box.proto
<1>1. Sequenced(x)
  BY DEF Kinds
<1>2. \A i \in DOMAIN x : x[i].do \notin {"reply", "catch", "jtagRead", "jtagWrite"}
  BY DEF Kinds
<1>3. \A i \in DOMAIN x : q.cmd \in {"m", "M"} /\ p # "dw" => ~Switch(x[i])
  BY DEF Kinds, Switch
<1>4. \A i \in DOMAIN x : q.cmd = "m" => ~Writer(x[i])
  BY DEF Kinds, Writer
<1>5. \A i \in DOMAIN x : q.cmd \in {"M", "vFlashDone"} => ~Reader(x[i])
  BY DEF Kinds, Reader
<1>6. \A i \in DOMAIN x : ElementOK(x[i], q, p)
  BY <1>2, <1>3, <1>4, <1>5 DEF ElementOK
<1> QED  BY <1>1, <1>2, <1>6, FirstIs, JoinShape

LEMMA CallReadShape ==
  ASSUME TargetMemoryAssumption, IInv, Shaped, CallRead
  PROVE  Shape(agenda', request, box.proto)
<1>1. agenda # <<>> /\ Head(agenda) = agenda[1] /\ agenda[1].do = "jtagRead"
  BY HeadIs DEF CallRead
<1> DEFINE c == agenda[1]
           x == ReadCommands(c.area, c.addr, c.n)
<1>2. agenda' = x \o Rest
  BY <1>1, Zenon DEF CallRead
<1>3. /\ c.area \in Spaces /\ c.addr \in Int /\ c.n \in Int
      /\ request.cmd = "m" => c.area \in Areas
      /\ request.cmd \notin {"M", "vFlashDone"}
  <2>1. request.cmd = "m" => c = jtagRead(request.area, request.addr, request.n)
    BY <1>1, FirstIs DEF ElementOK
  <2>2. request.cmd = "m" => c.area = request.area
    BY <2>1 DEF jtagRead
  <2> QED  BY <1>1, <2>2, FirstIs DEF CallOK, ElementOK, Reader, Shaped, RequestOK
<1>4. /\ Kinds(x, {"page", "bytes", "enable", "disable"})
      /\ c.area \in Areas /\ box.proto # "dw" => Kinds(x, {"page", "bytes"})
  BY <1>3, ReadKinds
<1> HIDE DEF x
<1>5. /\ Kinds(x, {"page", "bytes", "write", "erase", "throw", "enable", "disable"})
      /\ request.cmd \in {"m", "M"} /\ box.proto # "dw" =>
           Kinds(x, {"page", "bytes", "write", "erase", "throw"})
  BY <1>3, <1>4 DEF Kinds
<1> QED  BY <1>1, <1>2, <1>3, <1>4, <1>5, ReplacedShape

LEMMA CallWriteShape ==
  ASSUME TargetMemoryAssumption, IInv, Shaped, CallWrite
  PROVE  Shape(agenda', request, box.proto)
<1>1. agenda # <<>> /\ Head(agenda) = agenda[1] /\ agenda[1].do = "jtagWrite"
  BY HeadIs DEF CallWrite
<1> DEFINE c == agenda[1]
           w == WriteCommands(c.area, c.addr, c.bytes)
           x == IF c.bytes = <<>> THEN <<>> ELSE w
<1>2. agenda' = x \o Rest
  BY <1>1, Zenon DEF CallWrite
<1>3. /\ c.area \in Spaces /\ Len(c.bytes) \in Nat
      /\ request.cmd = "M" => c.area \in Areas
      /\ request.cmd # "m"
  BY <1>1, FirstIs DEF CallOK, ElementOK, Writer, WriteFor, Shaped, RequestOK
<1>4. /\ Kinds(w, {"write", "erase", "throw", "enable", "disable"})
      /\ c.area \in Areas /\ box.proto # "dw" => Kinds(w, {"write", "erase", "throw"})
  BY <1>3, WriteKinds
<1> HIDE DEF w
<1>5. \A K : Kinds(w, K) => Kinds(x, K)
  <2>1. Sequenced(<<>>) /\ DOMAIN <<>> = {}
    BY NothingFits DEF Fits
  <2> QED  BY <2>1 DEF Kinds
<1>6. /\ Kinds(x, {"write", "erase", "throw", "enable", "disable"})
      /\ c.area \in Areas /\ box.proto # "dw" => Kinds(x, {"write", "erase", "throw"})
  BY <1>4, <1>5
<1> HIDE DEF x
<1>7. /\ Kinds(x, {"page", "bytes", "write", "erase", "throw", "enable", "disable"})
      /\ request.cmd \in {"m", "M"} /\ box.proto # "dw" =>
           Kinds(x, {"page", "bytes", "write", "erase", "throw"})
  BY <1>3, <1>6 DEF Kinds
<1> QED  BY <1>1, <1>2, <1>3, <1>6, <1>7, ReplacedShape

LEMMA RetryShape ==
  ASSUME IInv, Shaped, agenda # <<>>, agenda[1].do = "bytes",
         agenda' = <<[agenda[1] EXCEPT !.cnt = 1]>> \o Rest
  PROVE  Shape(agenda', request, box.proto)
<1> DEFINE c == [agenda[1] EXCEPT !.cnt = 1]
           q == request
<1>1. c.do = "bytes"
  OBVIOUS
<1>2. q.cmd \notin {"M", "vFlashDone"}
  BY FirstIs DEF ElementOK, Reader
<1> HIDE DEF c
<1>3. ElementOK(c, q, box.proto)
  BY <1>1, <1>2 DEF ElementOK, Switch, Writer
<1>4. Sequenced(<<c>>) /\ DOMAIN <<c>> = {1} /\ <<c>>[1] = c
  BY SequencedOne
<1>5. \A i \in DOMAIN <<c>> : /\ ElementOK(<<c>>[i], q, box.proto)
                              /\ <<c>>[i].do \notin {"reply", "catch"}
  BY <1>1, <1>3, <1>4
<1>6. Shape(<<c>> \o Rest, q, box.proto)
  BY <1>4, <1>5, FirstIs, JoinShape
<1> QED  BY <1>6 DEF c

LEMMA NothingShape ==
  ASSUME NEW q, NEW p
  PROVE  Shape(<<>>, q, p)
<1>1. Sequenced(<<>>) /\ DOMAIN <<>> = {}
  BY NothingFits DEF Fits
<1> QED  BY <1>1 DEF Shape

(* Every step of the work changes the agenda in one of four ways. *)
LEMMA WorkIs ==
  ASSUME IInv, Work
  PROVE  /\ agenda # <<>> /\ UNCHANGED <<box, request, gdb>>
         /\ \/ agenda' = Rest
            \/ Throw
            \/ ThrowText
            \/ CallRead
            \/ CallWrite
            \/ agenda[1].do = "bytes" /\ agenda' = <<[agenda[1] EXCEPT !.cnt = 1]>> \o Rest
<1>1. CASE CallRead \/ CallWrite \/ ThrowText \/ TryBlock \/ Answer
  <2>1. agenda # <<>>
    BY <1>1 DEF CallRead, CallWrite, ThrowText, TryBlock, Answer, Doing
  <2>2. UNCHANGED <<box, request, gdb>>
    BY <1>1 DEF CallRead, CallWrite, ThrowText, TryBlock, Answer, answer
  <2> QED  BY <1>1, <2>1, <2>2 DEF TryBlock, Answer
<1>2. CASE enableProgramming \/ disableProgramming
  <2>1. PICK on \in BOOLEAN : SetMode(on)
    BY <1>2 DEF enableProgramming, disableProgramming
  <2>2. agenda # <<>> /\ UNCHANGED <<box, request, gdb>>
    BY <2>1 DEF SetMode, Doing, answer
  <2> QED  BY <2>1, <2>2 DEF SetMode
<1>3. CASE EraseProgramMemory
  <2>1. agenda # <<>> /\ UNCHANGED <<box, request, gdb>>
    BY <1>3 DEF EraseProgramMemory, Doing, answer
  <2> QED  BY <1>3, <2>1 DEF EraseProgramMemory
<1>4. CASE ReadPage
  <2>1. agenda # <<>> /\ UNCHANGED <<box, request, gdb>>
    BY <1>4 DEF ReadPage, Doing
  <2>2. agenda' = Rest \/ Throw
    BY <1>4, Zenon DEF ReadPage
  <2> QED  BY <2>1, <2>2
<1>5. CASE ReadBytes
  <2>1. agenda # <<>> /\ UNCHANGED <<box, request, gdb>> /\ agenda[1].do = "bytes"
        /\ Head(agenda) = agenda[1]
    BY <1>5, HeadIs DEF ReadBytes
  <2>2. agenda' = Rest \/ Throw \/ agenda' = <<[agenda[1] EXCEPT !.cnt = 1]>> \o Rest
    BY <1>5, <2>1, Zenon DEF ReadBytes
  <2> QED  BY <2>1, <2>2
<1>6. CASE WriteBytes
  <2>1. agenda # <<>> /\ UNCHANGED <<box, request, gdb>>
    BY <1>6 DEF WriteBytes, Doing, answer
  <2>2. agenda' = Rest \/ Throw
    BY <1>6, Zenon DEF WriteBytes
  <2> QED  BY <2>1, <2>2
<1>7. CASE VerifyPage \/ Verified \/ GiveUp
  <2>1. agenda # <<>> /\ UNCHANGED <<box, request, gdb>>
    BY <1>7 DEF VerifyPage, Verified, GiveUp, Doing, answer
  <2>2. agenda' = Rest \/ Throw
    BY <1>7, Zenon DEF VerifyPage, Verified, GiveUp
  <2> QED  BY <2>1, <2>2
<1> QED  BY <1>1, <1>2, <1>3, <1>4, <1>5, <1>6, <1>7 DEF Work

LEMMA WorkShape ==
  ASSUME TargetMemoryAssumption, IInv, Shaped, Work
  PROVE  Shape(agenda', request, box.proto)
<1>1. CASE agenda' = Rest
  BY <1>1, WorkIs, FirstIs
<1>2. CASE Throw
  BY <1>2, WorkIs, ThrowShape
<1>3. CASE ThrowText
  <2>1. agenda' = <<>>
    BY <1>3 DEF ThrowText
  <2> QED  BY <2>1, NothingShape
<1>4. CASE agenda[1].do = "bytes" /\ agenda' = <<[agenda[1] EXCEPT !.cnt = 1]>> \o Rest
  BY <1>4, WorkIs, RetryShape
<1> QED  BY <1>1, <1>2, <1>3, <1>4, WorkIs, CallReadShape, CallWriteShape

(* What the steps of the work do to the memories. *)
LEMMA MemoryIs ==
  ASSUME IInv, Shaped, Work
  PROVE  /\ MemOK'
         /\ \/ UNCHANGED mem
            \/ agenda[1].do = "erase" /\ agenda' = Rest
            \/ /\ agenda[1].do = "write" /\ agenda' = Rest /\ agenda[1].area \in Areas
               /\ mem' = [mem EXCEPT ![agenda[1].area] =
                            Overlaid(mem[agenda[1].area], agenda[1].addr, agenda[1].bytes)]
<1>1. CASE UNCHANGED mem
  BY <1>1 DEF Shaped, MemOK
<1>2. CASE /\ EraseProgramMemory
           /\ mem' \in {[mem EXCEPT !["flash"] = Erased("flash")],
                        [x \in Areas |-> Erased(x)]}
           /\ agenda' = Rest
  <2>1. agenda[1].do = "erase"
    BY <1>2, HeadIs DEF EraseProgramMemory
  <2>2. MemOK'
    BY <1>2 DEF Shaped, MemOK, Erased, Areas
  <2> QED  BY <1>2, <2>1, <2>2
<1>3. CASE /\ WriteBytes /\ agenda' = Rest
           /\ mem' = IF Head(agenda).area \in Areas
                       THEN [mem EXCEPT ![Head(agenda).area] =
                               Overlaid(@, Head(agenda).addr, Head(agenda).bytes)]
                       ELSE mem
  <2>1. agenda[1].do = "write" /\ Head(agenda) = agenda[1]
    BY <1>3, HeadIs DEF WriteBytes
  <2>2. CASE agenda[1].area \notin Areas
    BY <1>1, <1>3, <2>1, <2>2
  <2>3. CASE agenda[1].area \in Areas
    <3> DEFINE x == agenda[1].area
               f == Overlaid(mem[x], agenda[1].addr, agenda[1].bytes)
    <3>1. mem' = [mem EXCEPT ![x] = f]
      BY <1>3, <2>1, <2>3
    <3>2. DOMAIN f = DOMAIN mem[x]
      BY DEF Overlaid
    <3> HIDE DEF f
    <3>3. MemOK'
      BY <2>3, <3>1, <3>2 DEF Shaped, MemOK
    <3> QED  BY <1>3, <2>1, <2>3, <3>1, <3>3 DEF f
  <2> QED  BY <2>2, <2>3
<1>4. EraseProgramMemory =>
        \/ UNCHANGED mem
        \/ /\ mem' \in {[mem EXCEPT !["flash"] = Erased("flash")], [x \in Areas |-> Erased(x)]}
           /\ agenda' = Rest
  BY DEF EraseProgramMemory
<1>5. WriteBytes =>
        \/ UNCHANGED mem
        \/ /\ agenda' = Rest
           /\ mem' = IF Head(agenda).area \in Areas
                       THEN [mem EXCEPT ![Head(agenda).area] =
                               Overlaid(@, Head(agenda).addr, Head(agenda).bytes)]
                       ELSE mem
  BY Zenon DEF WriteBytes
<1>6. Work => UNCHANGED mem \/ EraseProgramMemory \/ WriteBytes
  BY DEF Work, CallRead, CallWrite, ThrowText, TryBlock, Answer, enableProgramming,
         disableProgramming, SetMode, ReadPage, ReadBytes, VerifyPage, Verified, GiveUp
<1> QED  BY <1>1, <1>2, <1>3, <1>4, <1>5, <1>6
-----------------------------------------------------------------------------
(* The packets that write.                                                 *)

(* An even page begins at an even address. *)
LEMMA EvenPage ==
  ASSUME NEW P \in Nat \ {0}, NEW a \in Nat, P % 2 = 0, a % P = 0
  PROVE  a % 2 = 0
<1> DEFINE h == P \div 2
           q == a \div P
           t == h * q
<1>1. h \in Int /\ q \in Int /\ P = 2 * h /\ a = P * q
  OBVIOUS
<1> HIDE DEF h, q
<1>2. t \in Int /\ a = 2 * t
  BY <1>1
<1> HIDE DEF t
<1> QED  BY <1>2

(* The buffer of 'M': the byte kept back before, and one kept back now. *)
Filled(l, b, sent) == IF l = 1 THEN <<b>> \o sent ELSE sent
Cut(o, buffer) == IF o = 1 THEN Front(buffer) ELSE buffer

Buffered(bytes, sent, n, l, o) ==
  /\ Len(bytes) = n + l - o /\ DOMAIN bytes = 1 .. Len(bytes)
  /\ \A j \in DOMAIN bytes : j > l => bytes[j] = sent[j - l]

Collected(b, sent, n, l, o, S) ==
  n \in Nat /\ n > 0 /\ sent \in [1 .. n -> S] /\ b \in S /\ l \in {0, 1} /\ o \in {0, 1}

LEMMA BufferIs ==
  ASSUME NEW n, NEW S, NEW sent, NEW b, NEW l, NEW o, Collected(b, sent, n, l, o, S)
  PROVE  Buffered(Cut(o, Filled(l, b, sent)), sent, n, l, o)
<1> DEFINE buffer == Filled(l, b, sent)
           bytes == Cut(o, buffer)
<1>1. n \in Nat /\ n > 0 /\ b \in S /\ sent \in Seq(S) /\ Len(sent) = n
  BY DEF Collected
<1>2. /\ n \in Nat /\ l \in {0, 1} /\ o \in {0, 1}
      /\ buffer = IF l = 1 THEN <<b>> \o sent ELSE sent
      /\ bytes = IF o = 1 THEN Front(buffer) ELSE buffer
  BY DEF Filled, Cut, Collected
<1> HIDE DEF buffer, bytes
<1>3. /\ buffer \in Seq(S) /\ Len(buffer) = n + l
      /\ \A i \in 1 .. n : buffer[i + l] = sent[i]
  <2>1. CASE l = 1
    <3>1. <<b>> \in Seq(S) /\ Len(<<b>>) = 1
      BY <1>1
    <3> DEFINE c == <<b>> \o sent
    <3>2. /\ c \in Seq(S) /\ Len(c) = 1 + n
          /\ \A i \in 1 .. 1 + n : c[i] = IF i <= 1 THEN <<b>>[i] ELSE sent[i - 1]
      BY <1>1, <3>1, ConcatProperties
    <3> HIDE DEF c
    <3>3. \A i \in 1 .. n : i + 1 \in 1 .. 1 + n /\ ~(i + 1 <= 1) /\ (i + 1) - 1 = i
      BY <1>1
    <3>4. \A i \in 1 .. n : c[i + 1] = sent[i]
      BY <3>2, <3>3
    <3>5. buffer = c /\ l = 1
      BY <1>2, <2>1 DEF c
    <3> QED  BY <1>1, <3>2, <3>4, <3>5
  <2>2. CASE l = 0
    <3>1. buffer = sent /\ l = 0
      BY <1>2, <2>2
    <3>2. \A i \in 1 .. n : i + 0 = i
      BY <1>2
    <3> QED  BY <1>1, <1>2, <3>1, <3>2
  <2> QED  BY <1>2, <2>1, <2>2
<1>4. /\ Len(bytes) = n + l - o /\ DOMAIN bytes = 1 .. n + l - o
      /\ \A j \in 1 .. n + l - o : bytes[j] = buffer[j]
  <2>1. CASE o = 1
    <3> DEFINE m == n + l - 1
    <3>1. m \in Nat /\ Len(buffer) - 1 = m /\ 1 \in Int /\ \A i \in 1 .. m : buffer[i] \in S
      BY <1>1, <1>2, <1>3
    <3>2. bytes = SubSeq(buffer, 1, m)
      BY <1>2, <2>1, <3>1 DEF Front
    <3>3. n + l - o = m
      BY <2>1
    <3> HIDE DEF m
    <3>4. /\ bytes \in Seq(S) /\ Len(bytes) = m
          /\ \A j \in 1 .. m : bytes[j] = buffer[j]
      <4>1. /\ bytes \in Seq(S)
            /\ Len(bytes) = IF 1 <= m THEN m - 1 + 1 ELSE 0
            /\ \A j \in 1 .. m - 1 + 1 : bytes[j] = buffer[1 + j - 1]
        <5>1. /\ SubSeq(buffer, 1, m) \in Seq(S)
              /\ Len(SubSeq(buffer, 1, m)) = IF 1 <= m THEN m - 1 + 1 ELSE 0
              /\ \A j \in 1 .. m - 1 + 1 : SubSeq(buffer, 1, m)[j] = buffer[1 + j - 1]
          BY <3>1, SubSeqProperties
        <5> QED  BY <3>2, <5>1
      <4> QED  BY <3>1, <4>1
    <3> QED  BY <3>3, <3>4
  <2>2. CASE o = 0
    <3>1. bytes = buffer /\ n + l - o = n + l
      BY <1>2, <2>2
    <3> QED  BY <1>2, <1>3, <3>1
  <2> QED  BY <1>2, <2>1, <2>2
<1>5. ASSUME NEW j \in DOMAIN bytes, j > l
      PROVE  bytes[j] = sent[j - l]
  <2> DEFINE i == j - l
  <2>1. i \in 1 .. n /\ i + l = j /\ j \in 1 .. n + l - o
    BY <1>2, <1>4, <1>5
  <2> HIDE DEF i
  <2>2. bytes[j] = buffer[j] /\ buffer[i + l] = sent[i]
    BY <1>3, <1>4, <2>1
  <2> QED  BY <2>1, <2>2 DEF i
<1>6. Buffered(bytes, sent, n, l, o)
  BY <1>4, <1>5 DEF Buffered
<1> QED  BY <1>6 DEF bytes, buffer

(* The call to write what a packet brought: c begins in memory x at address *)
(* addr or before it, and has the packet's bytes up to the end.             *)
Begins(c, x, addr) ==
  /\ c.do = "jtagWrite" /\ c.area = x /\ c.addr \in Nat
  /\ Len(c.bytes) \in Nat /\ DOMAIN c.bytes = 1 .. Len(c.bytes)
  /\ addr % PageSize[x] = 0 => c.addr % PageSize[x] = 0

Carries(c, addr, end, writer) ==
  \A a \in Int : a >= addr /\ a < end =>
    a - c.addr + 1 \in DOMAIN c.bytes /\ c.bytes[a - c.addr + 1] = Byte(a, writer)

LEMMA WriteMemoryIs ==
  ASSUME TargetMemoryAssumption, NEW x \in Areas, NEW r \in Ranges[x],
         WriteMemory(x, r[1], r[2])
  PROVE  \E c :
           /\ agenda' = <<c, Do("reply"), Do("catch")>>
           /\ Begins(c, x, r[1])
           /\ Carries(c, r[1], r[1] + r[2] - (IF orphan'.pending /\ x = "flash" THEN 1 ELSE 0),
                      packet(served))
<1> DEFINE addr   == r[1]
           n      == r[2]
           lead   == addr % 2 = 1 /\ request.cmd = "M" /\ orphan.pending
           sent   == Sent(addr, n)
           buffer == IF lead THEN <<orphan.byte>> \o sent ELSE sent
           odd    == x = "flash" /\ Len(buffer) % 2 = 1
           bytes  == IF odd THEN Front(buffer) ELSE buffer
           from   == IF lead THEN addr - 1 ELSE addr
           c      == jtagWrite(x, from, bytes)
           l      == IF lead THEN 1 ELSE 0
           o      == IF odd THEN 1 ELSE 0
           S      == {orphan.byte} \cup {sent[i] : i \in 1 .. n}
<1>1. /\ agenda' = <<c, Do("reply"), Do("catch")>>
      /\ orphan' = [pending |-> odd, byte |-> IF odd THEN Junk ELSE orphan.byte]
  BY Zenon DEF WriteMemory, Packet
<1>2. /\ addr \in Nat /\ n \in Nat /\ n > 0 /\ PageSize[x] \in Nat \ {0}
      /\ PageSize[x] = 1 \/ PageSize[x] % 2 = 0
  BY DEF TargetMemoryAssumption
<1>3. orphan'.pending = odd
  <2> HIDE DEF odd
  <2> QED  BY <1>1
<1>4. /\ sent \in [1 .. n -> S] /\ orphan.byte \in S
      /\ \A i \in 1 .. n : sent[i] = Byte(addr + i - 1, packet(served))
  BY DEF Sent
<1>5. l = IF lead THEN 1 ELSE 0
  OBVIOUS
<1>6. lead => addr % 2 = 1
  OBVIOUS
<1>7. o = IF odd THEN 1 ELSE 0
  OBVIOUS
<1>8. lead \in BOOLEAN /\ odd \in BOOLEAN
  OBVIOUS
<1>9. odd => x = "flash"
  OBVIOUS
<1> HIDE DEF sent, S, addr, n, lead
<1>10. /\ buffer = IF l = 1 THEN <<orphan.byte>> \o sent ELSE sent
       /\ bytes = IF o = 1 THEN Front(buffer) ELSE buffer
       /\ from = IF lead THEN addr - 1 ELSE addr
  <2>1. (l = 1) = lead /\ (o = 1) = odd
    <3> HIDE DEF odd
    <3> QED  BY <1>8
  <2>2. l = 1 <=> lead
    BY <2>1
  <2>3. o = 1 <=> odd
    BY <2>1
  <2> HIDE DEF l, o
  <2> QED  BY <2>2, <2>3, Zenon
<1> HIDE DEF buffer, odd, bytes, from, l, o
<1>11. /\ Len(bytes) = n + l - o /\ DOMAIN bytes = 1 .. Len(bytes)
       /\ \A j \in DOMAIN bytes : j > l => bytes[j] = sent[j - l]
  <2>1. l \in {0, 1} /\ o \in {0, 1}
    BY <1>5, <1>7
  <2> DEFINE b == orphan.byte
  <2>2. bytes = Cut(o, Filled(l, b, sent))
    BY <1>10 DEF Cut, Filled
  <2>3. b \in S /\ sent \in [1 .. n -> S]
    BY <1>4
  <2> HIDE DEF b
  <2>4. Collected(b, sent, n, l, o, S)
    BY <1>2, <2>1, <2>3 DEF Collected
  <2>5. Buffered(Cut(o, Filled(l, b, sent)), sent, n, l, o)
    BY <2>4, BufferIs, Zenon
  <2> QED  BY <2>2, <2>5 DEF Buffered
<1>12. c.do = "jtagWrite" /\ c.area = x /\ c.addr = from /\ c.bytes = bytes
  BY DEF jtagWrite
<1>13. from = addr - l /\ from \in Nat
  <2>1. lead => addr # 0
    BY <1>2, <1>6
  <2> QED  BY <1>2, <1>5, <1>8, <1>10, <2>1
<1>14. addr % PageSize[x] = 0 => from % PageSize[x] = 0
  <2> SUFFICES ASSUME addr % PageSize[x] = 0 PROVE from % PageSize[x] = 0
    OBVIOUS
  <2>1. CASE PageSize[x] = 1
    BY <1>13, <2>1
  <2>2. CASE PageSize[x] # 1
    <3>1. addr % 2 = 0
      BY <1>2, <2>2, EvenPage
    <3> QED  BY <1>6, <1>8, <1>10, <3>1
  <2> QED  BY <2>1, <2>2
<1>15. l \in {0, 1} /\ o \in {0, 1}
  BY <1>5, <1>7
<1>16. Len(bytes) \in Nat /\ DOMAIN bytes = 1 .. Len(bytes)
  BY <1>2, <1>11, <1>15
<1>17. (IF orphan'.pending /\ x = "flash" THEN 1 ELSE 0) = o
  BY <1>3, <1>7, <1>8, <1>9
<1>18. ASSUME NEW a \in Int, a >= addr, a < addr + n - o
       PROVE  /\ a - from + 1 \in DOMAIN bytes
              /\ bytes[a - from + 1] = Byte(a, packet(served))
  <2> DEFINE i == a - addr + 1
             j == a - from + 1
  <2>1. i \in 1 .. n /\ j - l = i /\ j > l /\ addr + i - 1 = a /\ j \in 1 .. n + l - o
    BY <1>2, <1>13, <1>15, <1>18
  <2> HIDE DEF i, j
  <2>2. j \in DOMAIN bytes
    BY <1>11, <2>1
  <2>3. bytes[j] = sent[i]
    BY <1>11, <2>1, <2>2
  <2> QED  BY <1>4, <2>1, <2>2, <2>3 DEF j
<1> HIDE DEF c
<1>19. Carries(c, r[1], r[1] + r[2] - (IF orphan'.pending /\ x = "flash" THEN 1 ELSE 0),
               packet(served))
  <2>1. Carries(c, addr, addr + n - o, packet(served))
    BY <1>12, <1>18 DEF Carries
  <2> QED  BY <1>17, <2>1 DEF addr, n
<1>20. Begins(c, x, r[1])
  BY <1>12, <1>13, <1>14, <1>16 DEF addr, Begins
<1> QED  BY <1>1, <1>19, <1>20, Zenon

-----------------------------------------------------------------------------
(* The requests have the shape.                                            *)

(* Other requests may hold anything. *)
LEMMA FreeShape ==
  ASSUME NEW a, NEW q, NEW p, Sequenced(a), q.cmd \notin Accesses
  PROVE  Shape(a, q, p)
  BY DEF Shape, ElementOK, Accesses

LEMMA EndsShape ==
  ASSUME NEW q, NEW p
  PROVE  /\ ElementOK(Do("reply"), q, p) /\ ElementOK(Do("catch"), q, p)
         /\ q.cmd = "vFlashDone" => ElementOK(Do("disable"), q, p)
  BY DEF ElementOK, Do, Switch, Writer, Reader

LEMMA CallShape ==
  ASSUME NEW c, NEW q, NEW p, ElementOK(c, q, p), c.do \notin {"reply", "catch"}
  PROVE  Shape(<<c, Do("reply"), Do("catch")>>, q, p)
<1> DEFINE r == Do("reply")
           e == Do("catch")
           S == {c, r, e}
           a == <<c, r, e>>
<1>1. /\ ElementOK(r, q, p) /\ ElementOK(e, q, p)
      /\ e.do = "catch" /\ r.do = "reply"
  BY EndsShape DEF Do
<1> HIDE DEF r, e
<1>2. /\ a \in Seq(S) /\ DOMAIN a = {1, 2, 3}
      /\ a[1] = c /\ a[2] = r /\ a[3] = e
  BY DEF a
<1> HIDE DEF S, a
<1>3. Sequenced(a)
  BY <1>2, SequencedIs
<1>4. \A i \in DOMAIN a : (a[i].do = "catch" => i = 3) /\ (a[i].do = "reply" => i = 2)
  BY <1>1, <1>2
<1>5. \A i \in DOMAIN a : ElementOK(a[i], q, p)
  BY <1>1, <1>2
<1>6. \A i, j \in DOMAIN a : a[i].do = "catch" /\ a[j].do = "reply" => j < i
  BY <1>4
<1>7. Shape(a, q, p)
  BY <1>3, <1>5, <1>6 DEF Shape
<1> QED  BY <1>7 DEF a, r, e

(* A packet begins a request and leaves the memories alone. *)
LEMMA PacketShape ==
  ASSUME Shaped, NEW cmd, NEW x \in Areas, NEW addr \in Nat, NEW n \in Nat, NEW todo,
         Packet(cmd, x, addr, n, todo),
         cmd \in {"m", "M"} => n > 0 /\ addr + n <= Size[x],
         cmd = "vFlashDone" => x = "flash" /\ addr = 0,
         Shape(todo, request', box.proto)
  PROVE  Shaped'
<1>1. /\ agenda' = todo /\ UNCHANGED <<box, mem>> /\ served' = served + 1
      /\ request' = [cmd |-> cmd, area |-> x, addr |-> addr, n |-> n,
                     found |-> programmingEnabled]
  BY DEF Packet
<1>2. RequestOK(request')
  BY <1>1 DEF RequestOK
<1>3. MemOK' /\ served' \in Nat
  BY <1>1 DEF Shaped, MemOK
<1>4. Shape(agenda', request', box'.proto)
  BY <1>1
<1> QED  BY <1>2, <1>3, <1>4 DEF Shaped

LEMMA ReadMemoryShape ==
  ASSUME TargetMemoryAssumption, Shaped, NEW x \in Areas, NEW r \in Ranges[x],
         ReadMemory(x, r[1], r[2])
  PROVE  Shaped'
<1> DEFINE c == jtagRead(x, r[1], r[2])
           todo == <<c, Do("reply"), Do("catch")>>
           q == request'
<1>1. Packet("m", x, r[1], r[2], todo)
  BY DEF ReadMemory
<1>2. r[1] \in Nat /\ r[2] \in Nat /\ r[2] > 0 /\ r[1] + r[2] <= Size[x]
  BY DEF TargetMemoryAssumption
<1>3. q.cmd = "m" /\ q.area = x /\ q.addr = r[1] /\ q.n = r[2]
  BY <1>1 DEF Packet
<1> HIDE DEF q
<1>4. c.do = "jtagRead" /\ c = jtagRead(q.area, q.addr, q.n)
  BY <1>3 DEF jtagRead
<1> HIDE DEF c
<1>5. ElementOK(c, q, box.proto)
  BY <1>3, <1>4 DEF ElementOK, Switch, Writer
<1>6. Shape(todo, q, box.proto)
  BY <1>4, <1>5, CallShape
<1> HIDE DEF todo
<1> QED  BY <1>1, <1>2, <1>6, PacketShape DEF q

LEMMA WriteMemoryShape ==
  ASSUME TargetMemoryAssumption, Shaped, NEW x \in Areas, NEW r \in Ranges[x],
         WriteMemory(x, r[1], r[2])
  PROVE  Shaped'
<1> DEFINE q == request'
<1>1. PICK c : agenda' = <<c, Do("reply"), Do("catch")>> /\ Begins(c, x, r[1])
  BY WriteMemoryIs, Zenon
<1>2. PICK todo : Packet("M", x, r[1], r[2], todo)
  BY Zenon DEF WriteMemory
<1>3. r[1] \in Nat /\ r[2] \in Nat /\ r[2] > 0 /\ r[1] + r[2] <= Size[x]
  BY DEF TargetMemoryAssumption
<1>4. q.cmd = "M" /\ q.area = x /\ q.addr = r[1] /\ q.n = r[2] /\ agenda' = todo
  BY <1>2 DEF Packet
<1> HIDE DEF q
<1>5. WriteFor(c, q)
  BY <1>1, <1>4 DEF WriteFor, Begins
<1>6. ElementOK(c, q, box.proto) /\ c.do \notin {"reply", "catch"}
  BY <1>1, <1>4, <1>5 DEF ElementOK, Switch, Reader, Begins
<1>7. Shape(<<c, Do("reply"), Do("catch")>>, q, box.proto)
  BY <1>6, CallShape
<1>8. Shape(todo, q, box.proto)
  BY <1>1, <1>4, <1>7
<1> QED  BY <1>2, <1>3, <1>8, PacketShape DEF q

(* The pages of vFlashDone: where they are, and what is in them. *)
LEMMA PagesAre ==
  ASSUME TargetMemoryAssumption, NEW max \in Nat
  PROVE  /\ Sequenced(Pages(max))
         /\ DOMAIN Pages(max) = 1 .. (max + PageSize["flash"] - 1) \div PageSize["flash"]
         /\ \A k \in DOMAIN Pages(max) :
              Pages(max)[k] = BufferedPage((k - 1) * PageSize["flash"], PageSize["flash"])
<1> DEFINE P == PageSize["flash"]
           n == (max + P - 1) \div P
           f == Pages(max)
<1>1. P \in Nat \ {0}
  BY DEF TargetMemoryAssumption, Areas
<1>2. n \in Int
  <2> HIDE DEF P
  <2> QED  BY <1>1
<1>3. f = [k \in 1 .. n |-> f[k]] /\ DOMAIN f = 1 .. n
  BY DEF Pages
<1>4. \A k \in 1 .. n : f[k] = BufferedPage((k - 1) * P, P)
  BY DEF Pages
<1> HIDE DEF f, n, P
<1>5. f \in [1 .. n -> {f[k] : k \in 1 .. n}]
  BY <1>3
<1>6. Sequenced(f)
  BY <1>2, <1>5, ListIs
<1> QED  BY <1>3, <1>4, <1>6 DEF f, n, P

LEMMA PageIs ==
  ASSUME TargetMemoryAssumption, NEW k \in Int
  PROVE  LET P == PageSize["flash"]
             e == BufferedPage((k - 1) * P, P)
         IN  /\ e.do = "jtagWrite" /\ e.area = "flash" /\ e.addr = (k - 1) * P
             /\ Len(e.bytes) = P /\ P \in Nat \ {0} /\ DOMAIN e.bytes = 1 .. P
             /\ \A i \in 1 .. P : e.bytes[i] = flashbuf.data[(k - 1) * P + i - 1]
<1> DEFINE P == PageSize["flash"]
           a == (k - 1) * P
           b == [i \in 1 .. P |-> flashbuf.data[a + i - 1]]
           e == BufferedPage(a, P)
<1>1. P \in Nat \ {0}
  BY DEF TargetMemoryAssumption, Areas
<1>2. Len(b) = P /\ DOMAIN b = 1 .. P /\ \A i \in 1 .. P : b[i] = flashbuf.data[a + i - 1]
  <2> HIDE DEF P, a
  <2> QED  BY <1>1
<1>3. e.do = "jtagWrite" /\ e.area = "flash" /\ e.bytes = b /\ e.addr = a
  BY DEF BufferedPage, jtagWrite
<1> HIDE DEF e, b
<1> QED  BY <1>1, <1>2, <1>3 DEF e

LEMMA FlashDoneShape ==
  ASSUME TargetMemoryAssumption, IInv, Shaped, FlashDone
  PROVE  Shaped'
<1> DEFINE off  == Do("disable")
           r    == Do("reply")
           ends == <<off, r>>
           pages == Pages(flashbuf.max)
           todo == pages \o ends
           S == {off, r}
           q == request'
           p == box.proto
           P == PageSize["flash"]
<1>1. Packet("vFlashDone", "flash", 0, flashbuf.max, todo)
  BY DEF FlashDone
<1>2. /\ q.cmd = "vFlashDone" /\ q.area = "flash" /\ q.addr = 0
      /\ flashbuf.max \in Nat /\ "flash" \in Areas
  BY <1>1 DEF Packet, IInv, Areas
<1> HIDE DEF q, p
<1>3. /\ ElementOK(off, q, p) /\ ElementOK(r, q, p)
      /\ off.do \notin {"reply", "catch"} /\ r.do = "reply"
  BY <1>2, EndsShape DEF Do
<1> HIDE DEF off, r
<1>4. /\ ends \in Seq(S) /\ DOMAIN ends = {1, 2}
      /\ ends[1] = off /\ ends[2] = r
  OBVIOUS
<1> HIDE DEF ends, S, pages
<1>5. Shape(ends, q, p)
  <2>1. Sequenced(ends)
    BY <1>4, SequencedIs
  <2>2. \A i \in DOMAIN ends : ElementOK(ends[i], q, p) /\ ends[i].do # "catch"
    BY <1>3, <1>4
  <2> QED  BY <2>1, <2>2 DEF Shape
<1>6. /\ Sequenced(pages)
      /\ \A k \in DOMAIN pages : k \in Int /\ pages[k] = BufferedPage((k - 1) * P, P)
  <2>1. /\ Sequenced(pages)
        /\ \A k \in DOMAIN pages : pages[k] = BufferedPage((k - 1) * P, P)
    BY <1>2, PagesAre, Zenon DEF pages
  <2>2. DOMAIN pages \subseteq Int
    BY <2>1, SequencedHas
  <2> QED  BY <2>1, <2>2
<1>7. P \in Nat \ {0}
  BY DEF TargetMemoryAssumption, Areas
<1>8. ASSUME NEW k \in DOMAIN pages
      PROVE  ElementOK(pages[k], q, p) /\ pages[k].do \notin {"reply", "catch"}
  <2> DEFINE e == pages[k]
             a == (k - 1) * P
  <2>1. k \in Int /\ e = BufferedPage((k - 1) * P, P)
    BY <1>6
  <2>2. /\ e.do = "jtagWrite" /\ e.area = "flash" /\ e.addr = a
        /\ Len(e.bytes) \in Nat /\ DOMAIN e.bytes = 1 .. Len(e.bytes)
    <3> DEFINE b == BufferedPage((k - 1) * P, P)
    <3>1. /\ b.do = "jtagWrite" /\ b.area = "flash" /\ b.addr = (k - 1) * P
          /\ Len(b.bytes) = P /\ DOMAIN b.bytes = 1 .. P
      <4>1. k \in Int
        BY <2>1
      <4> HIDE DEF e
      <4> QED  BY <4>1, PageIs
    <3>2. e = b
      BY <2>1
    <3> HIDE DEF b, e
    <3> QED  BY <1>7, <3>1, <3>2
  <2>3. a \in Nat /\ a % P = 0
    <3>1. k - 1 \in Nat
      BY <1>6, SequencedHas
    <3> DEFINE t == k - 1
    <3>2. t \in Nat
      BY <3>1
    <3> HIDE DEF t, P
    <3>3. t * P \in Nat /\ (t * P) % P = 0
      BY <1>7, <3>2
    <3> QED  BY <3>3 DEF t
  <2> HIDE DEF e, a
  <2>4. WriteFor(e, q)
    BY <1>2, <2>2, <2>3 DEF WriteFor
  <2>5. ElementOK(e, q, p) /\ e.do \notin {"reply", "catch"}
    BY <1>2, <2>2, <2>4 DEF ElementOK, Reader
  <2> QED  BY <2>5 DEF e
<1>9. Shape(todo, q, p)
  BY <1>5, <1>6, <1>8, JoinShape
<1> HIDE DEF todo
<1> QED  BY <1>1, <1>2, <1>9, PacketShape DEF q, p
(* The other requests hold nothing that is followed. *)
LEMMA OtherShape ==
  ASSUME TargetMemoryAssumption, IInv', Shaped,
         UNCHANGED <<box, mem>>, served' \in Nat, RequestOK(request'),
         request'.cmd \notin Accesses
  PROVE  Shaped'
<1>1. Sequenced(agenda')
  BY DEF IInv, AgendaOK, Well
<1>2. Shape(agenda', request', box'.proto)
  BY <1>1, FreeShape
<1> QED  BY <1>2 DEF Shaped, MemOK

LEMMA TakeOptionShape ==
  ASSUME TargetMemoryAssumption, IInv', Shaped, NEW k \in DOMAIN Options,
         NEW program \in BOOLEAN, NEW verify \in BOOLEAN, TakeOption(k, program, verify)
  PROVE  Shaped'
<1>1. /\ request' = [NoRequest EXCEPT !.cmd = Options[k], !.found = programmingEnabled,
                                      !.n = IF verify THEN 1 ELSE 0]
      /\ UNCHANGED <<box, mem, served>>
  BY DEF TakeOption, gdb
<1>2. Options[k] \notin {"m", "M", "vFlashDone"}
  BY OptionIs
<1>3. request'.cmd = Options[k] /\ RequestOK(request')
  <2>1. /\ request'.cmd = Options[k] /\ request'.area = "flash" /\ request'.addr = 0
        /\ request'.n = (IF verify THEN 1 ELSE 0)
    BY <1>1 DEF NoRequest
  <2>2. request'.n \in Nat
    BY <2>1
  <2> QED  BY <1>2, <2>1, <2>2 DEF RequestOK, Areas
<1> QED  BY <1>1, <1>2, <1>3, OtherShape DEF Shaped, Accesses

LEMMA FlashEraseShape ==
  ASSUME TargetMemoryAssumption, IInv', Shaped, FlashErase
  PROVE  Shaped'
<1>1. PICK todo : Packet("vFlashErase", "flash", 0, 0, todo)
  BY DEF FlashErase
<1>2. RequestOK(request') /\ request'.cmd = "vFlashErase"
  BY <1>1 DEF Packet, RequestOK, Areas
<1>3. UNCHANGED <<box, mem>> /\ served' \in Nat
  BY <1>1 DEF Packet, Shaped
<1> QED  BY <1>2, <1>3, OtherShape DEF Accesses

LEMMA FlashWriteShape ==
  ASSUME TargetMemoryAssumption, IInv', Shaped, NEW r \in Ranges["flash"],
         FlashWrite(r[1], r[2])
  PROVE  Shaped'
<1>1. PICK todo : Packet("vFlashWrite", "flash", r[1], r[2], todo)
  BY DEF FlashWrite
<1>2. r[1] \in Nat /\ r[2] \in Nat
  BY DEF TargetMemoryAssumption, Areas
<1>3. RequestOK(request') /\ request'.cmd = "vFlashWrite"
  BY <1>1, <1>2 DEF Packet, RequestOK, Areas
<1>4. UNCHANGED <<box, mem>> /\ served' \in Nat
  BY <1>1 DEF Packet, Shaped
<1> QED  BY <1>3, <1>4, OtherShape DEF Accesses

LEMMA InitiallyShape ==
  ASSUME Init
  PROVE  Shaped
<1>1. RequestOK(request) /\ served = 0 /\ agenda = <<>>
  BY DEF Init, RequestOK, NoRequest, Areas
<1>2. MemOK
  <2>1. mem = [x \in Areas |-> [a \in 0 .. Size[x] - 1 |-> Byte(a, nothing)]]
    BY DEF Init
  <2> QED  BY <2>1 DEF MemOK
<1>3. Shape(agenda, request, box.proto)
  BY <1>1, NothingShape
<1> QED  BY <1>1, <1>2, <1>3 DEF Shaped

LEMMA NextShape ==
  ASSUME TargetMemoryAssumption, IInv, IInv', Shaped, [Next]_vars
  PROVE  Shaped'
<1>1. CASE Work
  <2>1. Shape(agenda', request, box.proto) /\ MemOK'
    BY <1>1, WorkShape, MemoryIs
  <2>2. UNCHANGED <<box, request, served>>
    BY <1>1, WorkIs DEF gdb
  <2> QED  BY <2>1, <2>2 DEF Shaped
<1>2. CASE \E k \in DOMAIN Options, program, verify \in BOOLEAN :
             TakeOption(k, program, verify)
  BY <1>2, TakeOptionShape
<1>3. CASE Serve
  <2>1. UNCHANGED <<box, mem, agenda, request, served>>
    BY <1>3 DEF Serve, answer, gdb
  <2> QED  BY <2>1 DEF Shaped, MemOK
<1>4. CASE \E x \in Areas : \E r \in Ranges[x] : ReadMemory(x, r[1], r[2])
  BY <1>4, ReadMemoryShape
<1>5. CASE \E x \in Areas : \E r \in Ranges[x] : WriteMemory(x, r[1], r[2])
  BY <1>5, WriteMemoryShape
<1>6. CASE FlashErase
  BY <1>6, FlashEraseShape
<1>7. CASE \E r \in Ranges["flash"] : FlashWrite(r[1], r[2])
  BY <1>7, FlashWriteShape
<1>8. CASE FlashDone
  BY <1>8, FlashDoneShape
<1>9. CASE UNCHANGED vars
  <2>1. UNCHANGED <<box, mem, agenda, request, served>>
    BY <1>9 DEF vars, answer, gdb
  <2> QED  BY <2>1 DEF Shaped, MemOK
<1> QED  BY <1>1, <1>2, <1>3, <1>4, <1>5, <1>6, <1>7, <1>8, <1>9 DEF Next

LEMMA ShapeInvariant == Spec => [](IInv /\ Shaped)
<1>1. Init => IInv /\ Shaped
  BY Initially, InitiallyShape
<1>2. IInv /\ Shaped /\ [Next]_vars => (IInv /\ Shaped)'
  BY TargetMemoryAssumption, NextKeeps, NextShape
<1> QED  BY <1>1, <1>2, PTL DEF Spec
-----------------------------------------------------------------------------
(* What an agenda leaves in a cell of the target's memories.               *)

(* Whether e is to write the byte at c of memory x. *)
Reaches(e, x, c) == e.area = x /\ c - e.addr + 1 \in DOMAIN e.bytes

(* A write at address 0 may erase the target first. *)
Touches(e, x, c) ==
  \/ e.do = "erase"
  \/ e.do = "jtagWrite" /\ (e.addr = 0 \/ Reaches(e, x, c))
  \/ e.do = "write" /\ Reaches(e, x, c)

Brings(e, x, c, v) ==
  /\ e.do \in {"jtagWrite", "write"}
  /\ Reaches(e, x, c)
  /\ e.bytes[c - e.addr + 1] = v

Spares(a, x, c) == \A i \in DOMAIN a : ~Touches(a[i], x, c)

(* Some element of a is the last to touch the cell, and brings v. *)
Lands(a, x, c, v) ==
  \E i \in DOMAIN a :
    /\ Brings(a[i], x, c, v)
    /\ \A j \in DOMAIN a : j > i => ~Touches(a[j], x, c)

(* Carried out without an error from memories m on, a leaves v at c. *)
CellEnds(a, m, x, c, v) ==
  \/ m[x][c] = v /\ Spares(a, x, c)
  \/ Lands(a, x, c, v)

LEMMA JoinCells ==
  ASSUME NEW a, NEW b, Sequenced(a), Sequenced(b), NEW x, NEW c
  PROVE  /\ Spares(a, x, c) /\ Spares(b, x, c) => Spares(a \o b, x, c)
         /\ \A v : Lands(b, x, c, v) => Lands(a \o b, x, c, v)
         /\ \A v : Lands(a, x, c, v) /\ Spares(b, x, c) => Lands(a \o b, x, c, v)
<1> DEFINE d == a \o b
           m == Len(a)
<1>1. /\ m \in Nat /\ DOMAIN d \subseteq Int /\ DOMAIN a \subseteq Int /\ DOMAIN b \subseteq Int
      /\ DOMAIN a = 1 .. m
      /\ \A i \in DOMAIN d :
           \/ i \in DOMAIN a /\ d[i] = a[i]
           \/ i > m /\ i - m \in DOMAIN b /\ d[i] = b[i - m]
      /\ \A i \in DOMAIN a : i \in DOMAIN d /\ d[i] = a[i]
      /\ \A i \in DOMAIN b : m + i \in DOMAIN d /\ d[m + i] = b[i]
  BY JoinIs, SequencedHas
<1> HIDE DEF d, m
<1>2. Spares(a, x, c) /\ Spares(b, x, c) => Spares(d, x, c)
  BY <1>1 DEF Spares
<1>3. ASSUME NEW v, Lands(b, x, c, v)
      PROVE  Lands(d, x, c, v)
  <2>1. PICK i \in DOMAIN b : /\ Brings(b[i], x, c, v)
                              /\ \A j \in DOMAIN b : j > i => ~Touches(b[j], x, c)
    BY <1>3 DEF Lands
  <2> DEFINE l == m + i
  <2>2. l \in DOMAIN d /\ d[l] = b[i] /\ l \in Int /\ i \in Int
    BY <1>1
  <2>3. ASSUME NEW j \in DOMAIN d, j > l PROVE ~Touches(d[j], x, c)
    <3> DEFINE h == j - m
    <3>1. j > m /\ h > i /\ j \notin DOMAIN a
      <4>1. i > 0
        BY <2>1, SequencedHas
      <4> QED  BY <1>1, <2>2, <2>3, <4>1
    <3>2. h \in DOMAIN b /\ d[j] = b[h]
      BY <1>1, <2>3, <3>1
    <3> HIDE DEF h
    <3> QED  BY <2>1, <3>1, <3>2
  <2> HIDE DEF l
  <2> QED  BY <2>1, <2>2, <2>3 DEF Lands
<1>4. ASSUME NEW v, Lands(a, x, c, v), Spares(b, x, c)
      PROVE  Lands(d, x, c, v)
  <2>1. PICK i \in DOMAIN a : /\ Brings(a[i], x, c, v)
                              /\ \A j \in DOMAIN a : j > i => ~Touches(a[j], x, c)
    BY <1>4 DEF Lands
  <2>2. i \in DOMAIN d /\ d[i] = a[i]
    BY <1>1
  <2>3. ASSUME NEW j \in DOMAIN d, j > i PROVE ~Touches(d[j], x, c)
    BY <1>1, <1>4, <2>1, <2>3 DEF Spares
  <2> QED  BY <2>1, <2>2, <2>3 DEF Lands
<1> QED  BY <1>2, <1>3, <1>4 DEF d

LEMMA TailCells ==
  ASSUME NEW a, Sequenced(a), a # <<>>, NEW x, NEW c
  PROVE  /\ Spares(a, x, c) => ~Touches(a[1], x, c) /\ Spares(Tail(a), x, c)
         /\ \A v : Lands(a, x, c, v) =>
              \/ Lands(Tail(a), x, c, v)
              \/ Brings(a[1], x, c, v) /\ Spares(Tail(a), x, c)
<1> DEFINE n == Len(a)
           u == Tail(a)
<1>1. /\ n \in Nat /\ n >= 1 /\ DOMAIN a = 1 .. n /\ 1 \in DOMAIN a
      /\ DOMAIN u = 1 .. n - 1
      /\ \A i \in DOMAIN u : i + 1 \in DOMAIN a /\ u[i] = a[i + 1]
  <2>1. /\ n \in Nat /\ n >= 1 /\ DOMAIN a = 1 .. n /\ u = SubSeq(a, 2, n)
    BY SequencedHas DEF Sequenced
  <2>2. 1 \in 0 .. Len(a) /\ u = SubSeq(a, 1 + 1, Len(a))
    BY <2>1
  <2>3. /\ DOMAIN u = 1 .. Len(a) - 1
        /\ \A i \in DOMAIN u : i + 1 \in DOMAIN a /\ u[i] = a[i + 1]
    BY <2>2, RestIs
  <2> HIDE DEF u
  <2> QED  BY <2>1, <2>3
<1> HIDE DEF n, u
<1>2. Spares(a, x, c) => ~Touches(a[1], x, c) /\ Spares(u, x, c)
  BY <1>1 DEF Spares
<1>3. ASSUME NEW v, Lands(a, x, c, v)
      PROVE  Lands(u, x, c, v) \/ (Brings(a[1], x, c, v) /\ Spares(u, x, c))
  <2>1. PICK i \in DOMAIN a : /\ Brings(a[i], x, c, v)
                              /\ \A j \in DOMAIN a : j > i => ~Touches(a[j], x, c)
    BY <1>3 DEF Lands
  <2>2. CASE i = 1
    <3>1. \A j \in DOMAIN u : j + 1 > 1
      BY <1>1
    <3>2. Spares(u, x, c)
      BY <1>1, <2>1, <2>2, <3>1 DEF Spares
    <3> QED  BY <2>1, <2>2, <3>2
  <2>3. CASE i # 1
    <3> DEFINE l == i - 1
    <3>1. l \in DOMAIN u /\ l + 1 = i
      BY <1>1, <2>3
    <3> HIDE DEF l
    <3>2. \A j \in DOMAIN u : j > l => j + 1 > i
      BY <1>1, <3>1
    <3>3. u[l] = a[i] /\ \A j \in DOMAIN u : j > l => ~Touches(u[j], x, c)
      BY <1>1, <2>1, <3>1, <3>2
    <3> QED  BY <2>1, <3>1, <3>3 DEF Lands
  <2> QED  BY <2>2, <2>3
<1> QED  BY <1>2, <1>3 DEF u

LEMMA OneCell ==
  ASSUME NEW e, NEW x, NEW c
  PROVE  /\ ~Touches(e, x, c) => Spares(<<e>>, x, c)
         /\ \A v : Brings(e, x, c, v) => Lands(<<e>>, x, c, v)
         /\ Spares(<<>>, x, c) /\ \A v : ~Lands(<<>>, x, c, v)
<1> DEFINE a == <<e>>
           b == <<>>
<1>1. DOMAIN a = {1} /\ a[1] = e /\ DOMAIN b = {}
  OBVIOUS
<1> HIDE DEF a, b
<1>2. ~Touches(e, x, c) => Spares(a, x, c)
  BY <1>1 DEF Spares
<1>3. \A v : Brings(e, x, c, v) => Lands(a, x, c, v)
  BY <1>1 DEF Lands
<1>4. Spares(b, x, c) /\ \A v : ~Lands(b, x, c, v)
  BY <1>1 DEF Spares, Lands
<1> QED  BY <1>2, <1>3, <1>4 DEF a, b
-----------------------------------------------------------------------------
(* A write leaves what it was to write.                                    *)

(* A page goes in whole blocks, one behind the other. *)
LEMMA Blocks ==
  ASSUME NEW C \in Nat \ {0}, NEW P \in Nat, P % C = 0
  PROVE  /\ P \div C \in Nat
         /\ \A k \in 1 .. P \div C : /\ (k - 1) * C \in Int /\ (k - 1) * C >= 0
                                     /\ (k - 1) * C + C <= P
         /\ \A i \in 1 .. P : \E k \in 1 .. P \div C :
              (k - 1) * C < i /\ i <= (k - 1) * C + C
         /\ \A j, k \in 1 .. P \div C : j > k => (j - 1) * C >= (k - 1) * C + C
<1> DEFINE q == P \div C
<1>1. q \in Nat /\ P = C * q
  OBVIOUS
<1> HIDE DEF q
<1>2. \A s, t \in Nat : s <= t => s * C \in Nat /\ t * C \in Nat /\ s * C <= t * C
  <2> SUFFICES ASSUME NEW s \in Nat, NEW t \in Nat, s <= t
               PROVE  s * C \in Nat /\ t * C \in Nat /\ s * C <= t * C
    OBVIOUS
  <2> DEFINE d == t - s
  <2>1. d \in Nat /\ t = s + d
    OBVIOUS
  <2> HIDE DEF d
  <2>2. d * C \in Nat /\ s * C \in Nat /\ t * C = s * C + d * C
    BY <2>1
  <2> QED  BY <2>2
<1>3. \A s \in Nat : (s + 1) * C = s * C + C
  OBVIOUS
<1>4. ASSUME NEW k \in 1 .. q
      PROVE  (k - 1) * C \in Int /\ (k - 1) * C >= 0 /\ (k - 1) * C + C <= P
  <2> DEFINE s == k - 1
  <2>1. s \in Nat /\ s + 1 = k /\ k \in Nat /\ k <= q
    BY <1>1
  <2> HIDE DEF s
  <2>2. (s + 1) * C = s * C + C /\ k * C <= q * C /\ s * C \in Nat
    BY <1>1, <1>2, <1>3, <2>1
  <2>3. q * C = P
    BY <1>1
  <2>4. s * C + C <= P
    BY <2>1, <2>2, <2>3
  <2> QED  BY <2>2, <2>4 DEF s
<1>5. ASSUME NEW i \in 1 .. P
      PROVE  \E k \in 1 .. q : (k - 1) * C < i /\ i <= (k - 1) * C + C
  <2> DEFINE s == (i - 1) \div C
             k == s + 1
  <2>1. s \in Nat /\ C * s <= i - 1 /\ i - 1 < C * s + C
    OBVIOUS
  <2> HIDE DEF s
  <2>2. s * C <= i - 1 /\ i - 1 < s * C + C /\ s * C \in Nat
    BY <2>1
  <2>3. s < q
    <3> SUFFICES ASSUME q <= s PROVE FALSE
      BY <1>1, <2>1
    <3>1. q * C <= s * C
      BY <1>1, <1>2, <2>1
    <3>2. q * C = P
      BY <1>1
    <3> QED  BY <2>2, <3>1, <3>2
  <2>4. k \in 1 .. q /\ k - 1 = s
    BY <1>1, <2>1, <2>3
  <2> HIDE DEF k
  <2>5. (k - 1) * C < i /\ i <= (k - 1) * C + C
    BY <2>2, <2>4
  <2> QED  BY <2>4, <2>5
<1>6. ASSUME NEW j \in 1 .. q, NEW k \in 1 .. q, j > k
      PROVE  (j - 1) * C >= (k - 1) * C + C
  <2> DEFINE s == k - 1
             t == j - 1
  <2>1. s \in Nat /\ t \in Nat /\ s + 1 \in Nat /\ s + 1 <= t
    BY <1>1, <1>6
  <2> HIDE DEF s, t
  <2>2. (s + 1) * C <= t * C /\ (s + 1) * C = s * C + C
    BY <1>2, <1>3, <2>1
  <2>3. s * C \in Nat /\ t * C \in Nat
    BY <2>1
  <2>4. t * C >= s * C + C
    BY <2>2, <2>3
  <2> QED  BY <2>4 DEF s, t
<1> QED  BY <1>1, <1>4, <1>5, <1>6 DEF q

(* The part of a page from t on. *)
PartAt(w, x, addr, bytes, t, C) ==
  /\ w.do = "write" /\ w.area = x /\ w.addr = addr + t /\ DOMAIN w.bytes = 1 .. C
  /\ \A i \in 1 .. C : w.bytes[i] = bytes[t + i]

LEMMA PartIs ==
  ASSUME NEW x, Carried(x) \in Nat \ {0}, NEW addr \in Nat, PageSize[x] \in Nat \ {0},
         addr % PageSize[x] = 0, NEW bytes, NEW k \in Int
  PROVE  PartAt(Part(x, addr, bytes, k), x, addr, bytes, (k - 1) * Carried(x), Carried(x))
<1> DEFINE C == Carried(x)
           t == (k - 1) * C
           b == BlockOf(bytes, k, C)
           w == Part(x, addr, bytes, k)
           S == {bytes[i] : i \in t + 1 .. t + C}
<1>1. C \in Nat \ {0}
  OBVIOUS
<1>2. t \in Int /\ k * C = t + C
  <2> HIDE DEF C
  <2> QED  BY <1>1
<1>3. PageStart(addr, PageSize[x]) = addr
  BY DEF PageStart
<1>4. w.do = "write" /\ w.area = x /\ w.bytes = b
      /\ w.addr = PageStart(addr, PageSize[x]) + t
  BY DEF Part, WriteCommand
<1>5. b = SubSeq(bytes, t + 1, k * C)
  BY DEF BlockOf
<1>6. \A i \in t + 1 .. t + C : bytes[i] \in S
  OBVIOUS
<1> HIDE DEF C, t, b, w, S
<1>7. b = SubSeq(bytes, t + 1, t + C)
  BY <1>2, <1>5
<1> DEFINE m == t + 1
           n == t + C
           g == SubSeq(bytes, m, n)
<1>8. m \in Int /\ n \in Int /\ \A i \in m .. n : bytes[i] \in S
  BY <1>1, <1>2, <1>6
<1>9. n - m + 1 = C /\ m <= n
  BY <1>1, <1>2
<1>10. \A i \in 1 .. C : m + i - 1 = t + i
  BY <1>1, <1>2
<1>11. b = g
  BY <1>7
<1> HIDE DEF m, n
<1>12. /\ g \in Seq(S) /\ Len(g) = IF m <= n THEN n - m + 1 ELSE 0
       /\ \A i \in 1 .. n - m + 1 : g[i] = bytes[m + i - 1]
  BY <1>8, SubSeqProperties
<1> HIDE DEF g
<1>13. DOMAIN g = 1 .. C /\ \A i \in 1 .. C : g[i] = bytes[t + i]
  BY <1>9, <1>10, <1>12
<1>14. PartAt(w, x, addr, bytes, t, C)
  BY <1>3, <1>4, <1>11, <1>13 DEF PartAt
<1> QED  BY <1>14 DEF w, t, C
(* Whether a call writes flash and EEPROM as it is asked to. *)
WriteOK(e, x, addr, bytes) ==
  /\ e.do = "jtagWrite" /\ e.area = x /\ e.addr = addr /\ e.bytes = bytes
  /\ x \in Areas /\ addr \in Nat
  /\ Len(bytes) \in Nat /\ DOMAIN bytes = 1 .. Len(bytes)
  /\ Paged(MemorySpace(x)) => addr % PageSize[x] = 0

LEMMA PartReaches ==
  ASSUME NEW x, NEW addr \in Nat, NEW bytes, NEW t \in Int, NEW C \in Nat, NEW w,
         PartAt(w, x, addr, bytes, t, C), NEW X, NEW c \in Int
  PROVE  /\ Touches(w, X, c) <=> x = X /\ t < c - addr + 1 /\ c - addr + 1 <= t + C
         /\ Reaches(w, X, c) => w.bytes[c - w.addr + 1] = bytes[c - addr + 1]
<1>1. /\ w.do = "write" /\ w.area = x /\ w.addr = addr + t /\ DOMAIN w.bytes = 1 .. C
      /\ \A i \in 1 .. C : w.bytes[i] = bytes[t + i]
  BY DEF PartAt
<1> DEFINE i == c - w.addr + 1
           h == c - addr + 1
<1>2. i \in Int /\ h = t + i /\ h \in Int
  BY <1>1
<1> HIDE DEF i, h
<1>3. i \in 1 .. C <=> t < h /\ h <= t + C
  BY <1>2
<1>4. Touches(w, X, c) <=> x = X /\ i \in 1 .. C
  BY <1>1 DEF Touches, Reaches, i
<1>5. Reaches(w, X, c) => i \in 1 .. C
  BY <1>1 DEF Reaches, i
<1>6. Reaches(w, X, c) => w.bytes[i] = bytes[h]
  BY <1>1, <1>2, <1>5
<1> QED  BY <1>3, <1>4, <1>6 DEF i, h

LEMMA PartsEnd ==
  ASSUME TargetMemoryAssumption, NEW e, NEW x, NEW addr, NEW bytes, WriteOK(e, x, addr, bytes),
         \A i \in DOMAIN Parts(x, addr, bytes) : Parts(x, addr, bytes)[i].do # "throw",
         NEW X, NEW c \in Int
  PROVE  /\ ~Reaches(e, X, c) => Spares(Parts(x, addr, bytes), X, c)
         /\ \A v : Brings(e, X, c, v) => Lands(Parts(x, addr, bytes), X, c, v)
<1> DEFINE y == Parts(x, addr, bytes)
           w == WriteCommand(x, MemorySpace(x), addr, bytes)
           th == Do("throw")
           n == Len(bytes)
           C == Carried(x)
           q == n \div C
           f == [k \in 1 .. q |-> Part(x, addr, bytes, k)]
           h == c - addr + 1
<1>1. /\ e.do = "jtagWrite" /\ e.area = x /\ e.addr = addr /\ e.bytes = bytes
      /\ x \in Areas /\ addr \in Nat /\ n \in Nat /\ DOMAIN bytes = 1 .. n
      /\ Paged(MemorySpace(x)) => addr % PageSize[x] = 0
  BY DEF WriteOK
<1>2. y = IF ~Paged(MemorySpace(x)) THEN <<w>> ELSE IF n # PageSize[x] THEN <<th>> ELSE f
  BY Zenon DEF Parts
<1>3. w.do = "write" /\ w.area = x /\ w.addr = addr /\ w.bytes = bytes /\ th.do = "throw"
  BY DEF WriteCommand, Do
<1>4. /\ Reaches(e, X, c) <=> x = X /\ h \in 1 .. n
      /\ \A v : Brings(e, X, c, v) => Reaches(e, X, c) /\ v = bytes[h]
  BY <1>1 DEF Reaches, Brings
<1>5. CASE ~Paged(MemorySpace(x))
  <2>1. ~Reaches(e, X, c) => ~Touches(w, X, c)
    BY <1>1, <1>3 DEF Reaches, Touches
  <2>2. \A v : Brings(e, X, c, v) => Brings(w, X, c, v)
    BY <1>1, <1>3 DEF Brings, Reaches
  <2>3. y = <<w>>
    BY <1>2, <1>5, Zenon
  <2> HIDE DEF y, w
  <2>4. /\ ~Reaches(e, X, c) => Spares(y, X, c)
        /\ \A v : Brings(e, X, c, v) => Lands(y, X, c, v)
    BY <2>1, <2>2, <2>3, OneCell
  <2> QED  BY <2>4 DEF y
<1>6. CASE Paged(MemorySpace(x))
  <2>1. n = PageSize[x] /\ y = f
    <3>1. y # <<th>>
      <4> SUFFICES ASSUME y = <<th>> PROVE FALSE
        OBVIOUS
      <4> HIDE DEF th
      <4>1. 1 \in DOMAIN <<th>> /\ <<th>>[1] = th
        OBVIOUS
      <4>2. 1 \in DOMAIN y /\ y[1].do = "throw"
        BY <1>3, <4>1
      <4> QED  BY <4>2
    <3> HIDE DEF y, th, f
    <3> QED  BY <1>2, <1>6, <3>1, Zenon
  <2>2. C \in Nat \ {0} /\ n % C = 0 /\ PageSize[x] \in Nat \ {0}
    <3>1. x \in Spaces
      BY <1>1 DEF Spaces
    <3>2. C \in Nat \ {0} /\ PageSize[x] \in Nat \ {0}
      BY <1>1, <1>6, <3>1, PagedAreas DEF TargetMemoryAssumption
    <3>3. \A a \in Nat \ {0} : a % a = 0
      OBVIOUS
    <3>4. n % C = 0
      BY <1>1, <2>1, <3>2, <3>3 DEF Carried, TargetMemoryAssumption
    <3> QED  BY <3>2, <3>4
  <2> DEFINE t(k) == (k - 1) * C
  <2>3. /\ q \in Nat
        /\ \A k \in 1 .. q : t(k) \in Int /\ t(k) >= 0 /\ t(k) + C <= n
        /\ \A i \in 1 .. n : \E k \in 1 .. q : t(k) < i /\ i <= t(k) + C
        /\ \A j, k \in 1 .. q : j > k => t(j) >= t(k) + C
    BY <1>1, <2>2, Blocks
  <2>4. /\ DOMAIN f = 1 .. q
        /\ \A k \in 1 .. q : PartAt(f[k], x, addr, bytes, t(k), C)
    <3> SUFFICES ASSUME NEW k \in 1 .. q PROVE PartAt(f[k], x, addr, bytes, t(k), C)
      OBVIOUS
    <3>1. PartAt(Part(x, addr, bytes, k), x, addr, bytes, t(k), C)
      BY <1>1, <1>6, <2>2, PartIs
    <3> HIDE DEF t, C, q
    <3>2. f[k] = Part(x, addr, bytes, k)
      OBVIOUS
    <3> QED  BY <3>1, <3>2
  <2> HIDE DEF f, q, n, C, t, y
  <2>5. h \in Int
    BY <1>1
  <2>6. \A k \in 1 .. q :
          /\ Touches(f[k], X, c) <=> x = X /\ t(k) < h /\ h <= t(k) + C
          /\ Reaches(f[k], X, c) => f[k].bytes[c - f[k].addr + 1] = bytes[h]
          /\ f[k].do = "write"
    <3> SUFFICES ASSUME NEW k \in 1 .. q
                 PROVE  /\ Touches(f[k], X, c) <=> x = X /\ t(k) < h /\ h <= t(k) + C
                        /\ Reaches(f[k], X, c) => f[k].bytes[c - f[k].addr + 1] = bytes[h]
                        /\ f[k].do = "write"
      OBVIOUS
    <3>1. PartAt(f[k], x, addr, bytes, t(k), C) /\ t(k) \in Int /\ C \in Nat
      BY <2>2, <2>3, <2>4
    <3>2. f[k].do = "write"
      BY <3>1 DEF PartAt
    <3> DEFINE b == f[k]
               s == t(k)
    <3>3. PartAt(b, x, addr, bytes, s, C) /\ s \in Int /\ C \in Nat /\ addr \in Nat
      BY <1>1, <3>1
    <3> HIDE DEF b, s
    <3>4. /\ Touches(b, X, c) <=> x = X /\ s < c - addr + 1 /\ c - addr + 1 <= s + C
          /\ Reaches(b, X, c) => b.bytes[c - b.addr + 1] = bytes[c - addr + 1]
      BY <3>3, PartReaches
    <3> QED  BY <3>2, <3>4 DEF b, s
  <2> HIDE DEF h
  <2>7. ~Reaches(e, X, c) => Spares(f, X, c)
    <3> SUFFICES ASSUME ~Reaches(e, X, c), NEW k \in 1 .. q PROVE ~Touches(f[k], X, c)
      BY <2>4 DEF Spares
    <3>1. ~(x = X /\ h \in 1 .. n)
      BY <1>4
    <3>2. t(k) \in Int /\ t(k) >= 0 /\ t(k) + C <= n
      BY <2>3
    <3>3. t(k) < h /\ h <= t(k) + C => h \in 1 .. n
      BY <1>1, <2>2, <2>5, <3>2
    <3> QED  BY <2>6, <3>1, <3>3
  <2>8. ASSUME NEW v, Brings(e, X, c, v)
        PROVE  Lands(f, X, c, v)
    <3>1. x = X /\ h \in 1 .. n /\ v = bytes[h]
      BY <1>4, <2>8
    <3>2. PICK k \in 1 .. q : t(k) < h /\ h <= t(k) + C
      BY <2>3, <3>1
    <3>3. Touches(f[k], X, c) /\ f[k].do = "write"
      BY <2>6, <3>1, <3>2
    <3>4. Brings(f[k], X, c, v)
      BY <2>6, <3>1, <3>3 DEF Touches, Brings
    <3>5. ASSUME NEW j \in 1 .. q, j > k PROVE ~Touches(f[j], X, c)
      <4>1. t(j) >= t(k) + C /\ t(j) \in Int /\ t(k) \in Int
        BY <2>3, <3>5
      <4>2. ~(t(j) < h)
        BY <2>2, <2>5, <3>2, <4>1
      <4> QED  BY <2>6, <4>2
    <3> QED  BY <2>4, <3>4, <3>5 DEF Lands
  <2> QED  BY <2>1, <2>7, <2>8 DEF y
<1> QED  BY <1>5, <1>6
(* Everything in y is in a. *)
Holds(a, y) == \A i \in DOMAIN y : \E j \in DOMAIN a : a[j] = y[i]

LEMMA JoinHolds ==
  ASSUME NEW a, NEW b, Sequenced(a), Sequenced(b)
  PROVE  Sequenced(a \o b) /\ Holds(a \o b, a) /\ Holds(a \o b, b)
<1> DEFINE d == a \o b
           m == Len(a)
<1>1. /\ Sequenced(d) /\ m \in Nat /\ DOMAIN b \subseteq Int
      /\ \A i \in DOMAIN a : i \in DOMAIN d /\ d[i] = a[i]
      /\ \A i \in DOMAIN b : m + i \in DOMAIN d /\ d[m + i] = b[i]
  BY JoinIs, SequencedHas
<1> HIDE DEF d, m
<1>2. Holds(d, a) /\ Holds(d, b)
  BY <1>1, Zenon DEF Holds
<1> QED  BY <1>1, <1>2 DEF d

LEMMA InProgmodeCells ==
  ASSUME NEW space, NEW y, Sequenced(y)
  PROVE  /\ Sequenced(InProgmode(space, y))
         /\ Holds(InProgmode(space, y), y)
         /\ \A x, c : Spares(y, x, c) => Spares(InProgmode(space, y), x, c)
         /\ \A x, c, v : Lands(y, x, c, v) => Lands(InProgmode(space, y), x, c, v)
<1> DEFINE on == Do("enable")
           off == Do("disable")
           a == <<on>>
           b == <<off>>
           d == a \o y
           z == d \o b
           g == InProgmode(space, y)
<1>1. \A x, c : ~Touches(on, x, c) /\ ~Touches(off, x, c)
  BY DEF Do, Touches
<1>2. g = z \/ g = y
  BY Zenon DEF InProgmode
<1> HIDE DEF on, off
<1>3. /\ Sequenced(a) /\ \A x, c : Spares(a, x, c)
      /\ Sequenced(b) /\ \A x, c : Spares(b, x, c)
  BY <1>1, OneCell, SequencedOne
<1> HIDE DEF a, b, g
<1>4. /\ Sequenced(d) /\ Holds(d, y)
      /\ \A x, c : Spares(y, x, c) => Spares(d, x, c)
      /\ \A x, c, v : Lands(y, x, c, v) => Lands(d, x, c, v)
  <2>1. Sequenced(d) /\ Holds(d, y)
    BY <1>3, JoinHolds
  <2>2. \A x, c : Spares(y, x, c) => Spares(d, x, c)
    BY <1>3, JoinCells
  <2>3. \A x, c, v : Lands(y, x, c, v) => Lands(d, x, c, v)
    BY <1>3, JoinCells
  <2> QED  BY <2>1, <2>2, <2>3
<1> HIDE DEF d
<1>5. /\ Sequenced(z) /\ Holds(z, d)
      /\ \A x, c : Spares(d, x, c) => Spares(z, x, c)
      /\ \A x, c, v : Lands(d, x, c, v) => Lands(z, x, c, v)
  <2>1. Sequenced(z) /\ Holds(z, d)
    BY <1>3, <1>4, JoinParts, JoinHolds
  <2>2. \A x, c : Spares(d, x, c) => Spares(z, x, c)
    BY <1>3, <1>4, JoinCells
  <2>3. \A x, c, v : Lands(d, x, c, v) => Lands(z, x, c, v)
    BY <1>3, <1>4, JoinCells
  <2> QED  BY <2>1, <2>2, <2>3
<1> HIDE DEF z
<1>6. Holds(z, y) /\ Holds(y, y)
  BY <1>4, <1>5 DEF Holds
<1> QED  BY <1>2, <1>4, <1>5, <1>6 DEF g

(* jtagWrite() as a whole. *)
LEMMA WriteEnds ==
  ASSUME TargetMemoryAssumption, NEW e, NEW x, NEW addr, NEW bytes, WriteOK(e, x, addr, bytes),
         NEW u, u = WriteCommands(x, addr, bytes),
         \A i \in DOMAIN u : u[i].do # "throw", NEW X, NEW c \in Int
  PROVE  /\ Sequenced(u)
         /\ ~Touches(e, X, c) => Spares(u, X, c)
         /\ \A v : Brings(e, X, c, v) => Lands(u, X, c, v)
<1> DEFINE y == Parts(x, addr, bytes)
           er == Do("erase")
           load == Load(x, addr, Len(bytes))
           o == IF load THEN <<er>> ELSE <<>>
           z == InProgmode(MemorySpace(x), y)
<1>1. /\ x \in Spaces /\ Len(bytes) \in Nat /\ e.do = "jtagWrite" /\ e.addr = addr
      /\ load => addr = 0
  BY DEF WriteOK, Spaces, Load
<1>2. u = o \o z
  BY WriteParts
<1>3. Sequenced(y)
  <2>1. Kinds(y, {"write", "throw"})
    BY <1>1, PartsKinds
  <2> QED  BY <2>1 DEF Kinds
<1> HIDE DEF y, load
<1>4. /\ Sequenced(z) /\ Holds(z, y)
      /\ Spares(y, X, c) => Spares(z, X, c)
      /\ \A v : Lands(y, X, c, v) => Lands(z, X, c, v)
  BY <1>3, InProgmodeCells
<1>5. Sequenced(o) /\ (~load => Spares(o, X, c))
  <2>1. Sequenced(<<>>) /\ Sequenced(<<er>>) /\ Spares(<<>>, X, c)
    BY NothingFits, SequencedOne, OneCell DEF Fits
  <2> QED  BY <2>1
<1> HIDE DEF o, z
<1>6. /\ Sequenced(u) /\ Holds(u, z)
  <2> DEFINE d == o \o z
  <2>1. Sequenced(o) /\ Sequenced(z)
    BY <1>4, <1>5
  <2>2. Sequenced(d) /\ Holds(d, z)
    BY <2>1, JoinHolds, Zenon
  <2>3. u = d
    BY <1>2
  <2> HIDE DEF d
  <2> QED  BY <2>2, <2>3
<1>7. \A i \in DOMAIN y : y[i].do # "throw"
  BY <1>4, <1>6 DEF Holds
<1>8. /\ ~Reaches(e, X, c) => Spares(y, X, c)
      /\ \A v : Brings(e, X, c, v) => Lands(y, X, c, v)
  BY <1>7, PartsEnd DEF y
<1>9. ~Touches(e, X, c) => Spares(u, X, c)
  <2> SUFFICES ASSUME ~Touches(e, X, c) PROVE Spares(u, X, c)
    OBVIOUS
  <2>1. ~Reaches(e, X, c) /\ ~load
    BY <1>1 DEF Touches
  <2> QED  BY <1>2, <1>4, <1>5, <1>8, <2>1, JoinCells
<1>10. ASSUME NEW v, Brings(e, X, c, v)
       PROVE  Lands(u, X, c, v)
  <2>1. Lands(z, X, c, v)
    BY <1>4, <1>8, <1>10
  <2>2. Lands(o \o z, X, c, v)
    BY <1>4, <1>5, <2>1, JoinCells
  <2> QED  BY <1>2, <2>2
<1> QED  BY <1>6, <1>9, <1>10
-----------------------------------------------------------------------------
(* The answer stays promised only as long as nothing fails.                *)

LEMMA WorkCases ==
  ASSUME IInv, Work
  PROVE  \/ CallRead
         \/ CallWrite
         \/ ThrowText
         \/ Throw /\ agenda[1].do # "catch" /\ UNCHANGED reply
         \/ /\ agenda[1].do = "bytes" /\ agenda' = <<[agenda[1] EXCEPT !.cnt = 1]>> \o Rest
            /\ UNCHANGED <<reply, mem>>
         \/ /\ agenda' = Rest /\ agenda[1].do \notin {"jtagRead", "jtagWrite", "throw"}
            /\ reply' = "ok" => reply = "ok" \/ agenda[1].do = "reply"
            /\ \/ agenda[1].do \notin {"write", "erase"} /\ UNCHANGED mem
               \/ agenda[1].do = "erase"
               \/ /\ agenda[1].do = "write"
                  /\ mem' = IF agenda[1].area \in Areas
                              THEN [mem EXCEPT ![agenda[1].area] =
                                      Overlaid(@, agenda[1].addr, agenda[1].bytes)]
                              ELSE mem
<1> DEFINE e == agenda[1]
<1>1. CASE TryBlock \/ Answer
  <2>1. Doing("try") \/ Doing("catch") \/ Doing("reply")
    BY <1>1 DEF TryBlock, Answer
  <2>2. /\ Doing("try") => e.do = "try"
        /\ Doing("catch") => e.do = "catch"
        /\ Doing("reply") => e.do = "reply"
    BY HeadIs
  <2>3. e.do \in {"try", "catch", "reply"}
    BY <2>1, <2>2
  <2>4. agenda' = Rest /\ UNCHANGED mem
    BY <1>1 DEF TryBlock, Answer
  <2>5. reply' = "ok" => reply = "ok" \/ e.do = "reply"
    <3>1. CASE TryBlock
      BY <3>1 DEF TryBlock, answer
    <3>2. CASE Answer
      BY <3>2, <2>2 DEF Answer
    <3> QED  BY <1>1, <3>1, <3>2
  <2> QED  BY <2>3, <2>4, <2>5
<1>2. CASE enableProgramming \/ disableProgramming
  <2>1. PICK on \in BOOLEAN : SetMode(on)
    BY <1>2 DEF enableProgramming, disableProgramming
  <2>2. e.do \in {"enable", "disable"}
    BY <2>1, HeadIs DEF SetMode
  <2> QED  BY <2>1, <2>2 DEF SetMode, answer
<1>3. CASE EraseProgramMemory
  <2>1. e.do = "erase"
    BY <1>3, HeadIs DEF EraseProgramMemory
  <2> QED  BY <1>3, <2>1 DEF EraseProgramMemory, answer
<1>4. CASE ReadPage
  <2>1. e.do = "page"
    BY <1>4, HeadIs DEF ReadPage
  <2>2. UNCHANGED <<mem, reply>>
    BY <1>4 DEF ReadPage
  <2>3. agenda' = Rest \/ Throw
    BY <1>4, Zenon DEF ReadPage
  <2> QED  BY <2>1, <2>2, <2>3
<1>5. CASE ReadBytes
  <2>1. e.do = "bytes" /\ Head(agenda) = e
    BY <1>5, HeadIs DEF ReadBytes
  <2>2. UNCHANGED <<mem, reply>>
    BY <1>5 DEF ReadBytes
  <2>3. agenda' = Rest \/ Throw \/ agenda' = <<[e EXCEPT !.cnt = 1]>> \o Rest
    BY <1>5, <2>1, Zenon DEF ReadBytes
  <2> QED  BY <2>1, <2>2, <2>3
<1>6. CASE WriteBytes
  <2>1. e.do = "write" /\ Head(agenda) = e
    BY <1>6, HeadIs DEF WriteBytes
  <2>2. UNCHANGED reply
    BY <1>6 DEF WriteBytes, answer
  <2>3. \/ /\ agenda' = Rest
           /\ mem' = IF e.area \in Areas
                       THEN [mem EXCEPT ![e.area] = Overlaid(@, e.addr, e.bytes)]
                       ELSE mem
        \/ Throw
    BY <1>6, <2>1, Zenon DEF WriteBytes
  <2> QED  BY <2>1, <2>2, <2>3
<1>7. CASE VerifyPage \/ Verified \/ GiveUp
  <2>1. e.do \in {"verify", "verified", "give up"}
    BY <1>7, HeadIs DEF VerifyPage, Verified, GiveUp
  <2>2. UNCHANGED <<mem, reply>>
    BY <1>7 DEF VerifyPage, Verified, GiveUp, answer
  <2>3. agenda' = Rest \/ Throw
    BY <1>7, Zenon DEF VerifyPage, Verified, GiveUp
  <2> QED  BY <2>1, <2>2, <2>3
<1> QED  BY <1>1, <1>2, <1>3, <1>4, <1>5, <1>6, <1>7 DEF Work

LEMMA TailPromised ==
  ASSUME NEW a, Sequenced(a), a # <<>>, a[1].do # "throw", NEW r, Promised(Tail(a), r)
  PROVE  Promised(a, r)
<1> DEFINE n == Len(a)
           u == Tail(a)
<1>1. /\ DOMAIN a = 1 .. n /\ DOMAIN u = 1 .. n - 1 /\ n \in Nat
      /\ \A i \in DOMAIN u : i + 1 \in DOMAIN a /\ u[i] = a[i + 1]
  <2>1. /\ n \in Nat /\ n >= 1 /\ DOMAIN a = 1 .. n /\ u = SubSeq(a, 2, n)
    BY SequencedHas DEF Sequenced
  <2>2. 1 \in 0 .. Len(a) /\ u = SubSeq(a, 1 + 1, Len(a))
    BY <2>1
  <2>3. /\ DOMAIN u = 1 .. Len(a) - 1
        /\ \A i \in DOMAIN u : i + 1 \in DOMAIN a /\ u[i] = a[i + 1]
    BY <2>2, RestIs
  <2> HIDE DEF u
  <2> QED  BY <2>1, <2>3
<1> HIDE DEF n, u
<1>2. Promised(u, r)
  BY DEF u
<1>3. \A i \in DOMAIN a : i = 1 \/ (i - 1 \in DOMAIN u /\ u[i - 1] = a[i])
  <2> SUFFICES ASSUME NEW i \in DOMAIN a, i # 1
               PROVE  i - 1 \in DOMAIN u /\ u[i - 1] = a[i]
    OBVIOUS
  <2>1. i - 1 \in DOMAIN u /\ (i - 1) + 1 = i
    BY <1>1
  <2> QED  BY <1>1, <2>1
<1>4. \A i \in DOMAIN a : a[i].do # "throw"
  BY <1>2, <1>3 DEF Promised
<1>5. (\E i \in DOMAIN u : u[i].do = "reply") => \E i \in DOMAIN a : a[i].do = "reply"
  BY <1>1
<1> QED  BY <1>2, <1>4, <1>5 DEF Promised

LEMMA JoinPromised ==
  ASSUME NEW a, NEW b, Sequenced(a), Sequenced(b), NEW r, Promised(a \o b, r),
         \A i \in DOMAIN a : a[i].do # "reply"
  PROVE  Promised(b, r) /\ \A i \in DOMAIN a : a[i].do # "throw"
<1> DEFINE d == a \o b
           m == Len(a)
<1>1. /\ m \in Nat /\ DOMAIN b \subseteq Int
      /\ \A i \in DOMAIN d :
           \/ i \in DOMAIN a /\ d[i] = a[i]
           \/ i > m /\ i - m \in DOMAIN b /\ d[i] = b[i - m]
      /\ \A i \in DOMAIN a : i \in DOMAIN d /\ d[i] = a[i]
      /\ \A i \in DOMAIN b : m + i \in DOMAIN d /\ d[m + i] = b[i]
  BY JoinIs, SequencedHas
<1> HIDE DEF d, m
<1>2. Promised(d, r)
  BY DEF d
<1>3. (\E i \in DOMAIN d : d[i].do = "reply") => \E i \in DOMAIN b : b[i].do = "reply"
  BY <1>1
<1>4. \A i \in DOMAIN b : b[i].do # "throw"
  BY <1>1, <1>2 DEF Promised
<1>5. \A i \in DOMAIN a : a[i].do # "throw"
  BY <1>1, <1>2 DEF Promised
<1> QED  BY <1>2, <1>3, <1>4, <1>5 DEF Promised

LEMMA CallReadIs ==
  ASSUME TargetMemoryAssumption, IInv, CallRead, NEW e, e = agenda[1]
  PROVE  /\ agenda # <<>> /\ e.do = "jtagRead" /\ UNCHANGED <<mem, reply>>
         /\ result' = <<>>
         /\ agenda' = ReadCommands(e.area, e.addr, e.n) \o Rest
         /\ Kinds(ReadCommands(e.area, e.addr, e.n), {"page", "bytes", "enable", "disable"})
<1>1. agenda # <<>> /\ Head(agenda) = e /\ e.do = "jtagRead"
  BY HeadIs DEF CallRead
<1>2. e.area \in Spaces /\ e.addr \in Int /\ e.n \in Int
  BY <1>1, UnderWay DEF CallOK
<1>3. Kinds(ReadCommands(e.area, e.addr, e.n), {"page", "bytes", "enable", "disable"})
  BY <1>2, ReadKinds
<1>4. UNCHANGED <<mem, reply>> /\ result' = <<>>
      /\ agenda' = ReadCommands(e.area, e.addr, e.n) \o Rest
  BY <1>1, Zenon DEF CallRead
<1> QED  BY <1>1, <1>3, <1>4

LEMMA CallWriteIs ==
  ASSUME TargetMemoryAssumption, IInv, CallWrite, NEW e, e = agenda[1]
  PROVE  /\ agenda # <<>> /\ e.do = "jtagWrite" /\ UNCHANGED <<mem, reply>>
         /\ \E x : /\ agenda' = x \o Rest
                   /\ Kinds(x, {"write", "erase", "throw", "enable", "disable"})
                   /\ \/ x = <<>> /\ e.bytes = <<>>
                      \/ x = WriteCommands(e.area, e.addr, e.bytes)
<1>1. agenda # <<>> /\ Head(agenda) = e /\ e.do = "jtagWrite"
  BY HeadIs DEF CallWrite
<1>2. e.area \in Spaces /\ Len(e.bytes) \in Nat
  BY <1>1, UnderWay DEF CallOK
<1> DEFINE w == WriteCommands(e.area, e.addr, e.bytes)
           K == {"write", "erase", "throw", "enable", "disable"}
           x == IF e.bytes = <<>> THEN <<>> ELSE w
<1>3. Kinds(w, K)
  BY <1>2, WriteKinds
<1>4. agenda' = x \o Rest /\ UNCHANGED <<mem, reply>>
  <2>1. UNCHANGED reply
    BY DEF CallWrite, answer
  <2> QED  BY <1>1, <2>1, Zenon DEF CallWrite
<1> HIDE DEF w
<1>5. Kinds(<<>>, K)
  <2>1. Sequenced(<<>>) /\ DOMAIN <<>> = {}
    BY NothingFits DEF Fits
  <2> QED  BY <2>1 DEF Kinds
<1> HIDE DEF K
<1>6. Kinds(x, K) /\ ((x = <<>> /\ e.bytes = <<>>) \/ x = w)
  BY <1>3, <1>5
<1> HIDE DEF x
<1> QED  BY <1>1, <1>4, <1>6, Zenon DEF K, w

LEMMA PromisedBefore ==
  ASSUME TargetMemoryAssumption, IInv, Shaped, Work, request.cmd \in Accesses,
         Promised(agenda', reply')
  PROVE  /\ Promised(agenda, reply)
         /\ ~ThrowText /\ ~(Throw /\ agenda[1].do # "catch" /\ UNCHANGED reply)
<1> DEFINE e == agenda[1]
<1>1. agenda # <<>> /\ Sequenced(agenda) /\ Sequenced(Rest) /\ Rest = Tail(agenda)
      /\ (e.do # "catch" => reply # "ok")
  BY WorkIs, UnderWay DEF Shaped, Shape, Rest
<1>2. ~(Throw /\ e.do # "catch" /\ UNCHANGED reply)
  BY <1>1, ThrowShape DEF Promised
<1>3. ~ThrowText
  <2> SUFFICES ASSUME ThrowText PROVE FALSE
    OBVIOUS
  <2>1. e.do = "throw" /\ agenda' = <<>> /\ UNCHANGED reply
    BY HeadIs DEF ThrowText, answer
  <2>2. DOMAIN <<>> = {}
    OBVIOUS
  <2> QED  BY <1>1, <2>1, <2>2 DEF Promised
<1>4. ASSUME NEW x, Sequenced(x), \A i \in DOMAIN x : x[i].do # "reply",
             agenda' = x \o Rest, UNCHANGED reply, e.do # "throw"
      PROVE  Promised(agenda, reply)
  <2>1. Promised(x \o Rest, reply)
    BY <1>4
  <2>2. Promised(Rest, reply)
    BY <1>1, <1>4, <2>1, JoinPromised
  <2> QED  BY <1>1, <1>4, <2>2, TailPromised
<1>5. CASE CallRead
  <2>1. /\ e.do = "jtagRead" /\ UNCHANGED reply
        /\ agenda' = ReadCommands(e.area, e.addr, e.n) \o Rest
        /\ Kinds(ReadCommands(e.area, e.addr, e.n), {"page", "bytes", "enable", "disable"})
    BY <1>5, CallReadIs
  <2> DEFINE x == ReadCommands(e.area, e.addr, e.n)
  <2> HIDE DEF x
  <2>2. Sequenced(x) /\ \A i \in DOMAIN x : x[i].do # "reply"
    BY <2>1 DEF Kinds, x
  <2> QED  BY <1>2, <1>3, <1>4, <2>1, <2>2 DEF x
<1>6. CASE CallWrite
  <2>1. PICK x : /\ agenda' = x \o Rest
                 /\ Kinds(x, {"write", "erase", "throw", "enable", "disable"})
    BY <1>6, CallWriteIs
  <2>2. e.do = "jtagWrite" /\ UNCHANGED reply
    BY <1>6, CallWriteIs
  <2>3. Sequenced(x) /\ \A i \in DOMAIN x : x[i].do # "reply"
    BY <2>1 DEF Kinds
  <2> QED  BY <1>2, <1>3, <1>4, <2>1, <2>2, <2>3
<1>7. CASE e.do = "bytes" /\ agenda' = <<[e EXCEPT !.cnt = 1]>> \o Rest /\ UNCHANGED reply
  <2> DEFINE d == [e EXCEPT !.cnt = 1]
             x == <<d>>
  <2>1. d.do = "bytes"
    BY <1>7
  <2> HIDE DEF d
  <2>2. Sequenced(x) /\ \A i \in DOMAIN x : x[i].do # "reply"
    BY <2>1, SequencedOne
  <2> HIDE DEF x
  <2> QED  BY <1>2, <1>3, <1>4, <1>7, <2>2 DEF x, d
<1>8. CASE /\ agenda' = Rest /\ e.do # "throw"
           /\ reply' = "ok" => reply = "ok" \/ e.do = "reply"
  <2>1. Promised(Tail(agenda), reply')
    BY <1>1, <1>8
  <2>2. Promised(agenda, reply')
    BY <1>1, <1>8, <2>1, TailPromised
  <2>3. 1 \in DOMAIN agenda
    BY <1>1, UnderWay
  <2>4. e.do = "reply" => \E i \in DOMAIN agenda : agenda[i].do = "reply"
    BY <2>3
  <2>5. Promised(agenda, reply)
    BY <1>8, <2>2, <2>4 DEF Promised
  <2> QED  BY <1>2, <1>3, <2>5
<1> QED  BY <1>2, <1>3, <1>5, <1>6, <1>7, <1>8, WorkCases

-----------------------------------------------------------------------------
(* What the requests M and vFlashDone are to leave in the target.          *)

Aligned == Paged(MemorySpace(request.area)) => request.addr % PageSize[request.area] = 0

(* GDB's read and write leave the mode alone: what they need of it they     *)
(* have, or they use a space that needs none.                              *)
LEMMA SameMode ==
  ASSUME IInv, Shaped, Work, request.cmd \in {"m", "M"}
  PROVE  UNCHANGED <<box, request, programmingEnabled>>
<1>1. UNCHANGED <<box, request>> /\ agenda # <<>>
  BY WorkIs
<1>2. CASE enableProgramming \/ disableProgramming
  <2>1. PICK on \in BOOLEAN : SetMode(on)
    BY <1>2 DEF enableProgramming, disableProgramming
  <2>2. agenda[1].do \in {"enable", "disable"}
    BY <2>1, HeadIs DEF SetMode
  <2>3. box.proto = "dw"
    BY <1>1, <2>2, FirstIs DEF ElementOK, Switch
  <2>4. UNCHANGED programmingEnabled
    BY <2>1, <2>3 DEF SetMode, mode
  <2> QED  BY <1>1, <2>4
<1>3. CASE CallRead \/ CallWrite \/ ThrowText \/ TryBlock \/ Answer \/ EraseProgramMemory
  <2>1. UNCHANGED programmingEnabled
    BY <1>3 DEF CallRead, CallWrite, ThrowText, TryBlock, Answer, EraseProgramMemory, mode
  <2> QED  BY <1>1, <2>1
<1>4. CASE ReadPage \/ ReadBytes \/ WriteBytes \/ VerifyPage \/ Verified \/ GiveUp
  <2>1. UNCHANGED programmingEnabled
    BY <1>4 DEF ReadPage, ReadBytes, WriteBytes, VerifyPage, Verified, GiveUp, mode
  <2> QED  BY <1>1, <2>1
<1> QED  BY <1>2, <1>3, <1>4 DEF Work

LEMMA SameSpace ==
  ASSUME UNCHANGED <<box, request, programmingEnabled>>, NEW x
  PROVE  /\ MemorySpace(x)' = MemorySpace(x)
         /\ Paged(MemorySpace(x))' = Paged(MemorySpace(x))
  BY DEF Paged, MemorySpace

LEMMA AlignedBefore ==
  ASSUME TargetMemoryAssumption, IInv, Shaped, Work, request.cmd \in {"M", "vFlashDone"}, Aligned'
  PROVE  Aligned
<1>1. CASE request.cmd = "M"
  <2>1. UNCHANGED <<box, request, programmingEnabled>>
    BY <1>1, SameMode
  <2> DEFINE x == request.area
  <2>2. Paged(MemorySpace(x))' = Paged(MemorySpace(x)) /\ request' = request
    BY <2>1, SameSpace
  <2> QED  BY <2>2 DEF Aligned
<1>2. CASE request.cmd = "vFlashDone"
  <2>1. request.addr = 0 /\ PageSize[request.area] \in Nat \ {0}
    BY <1>2 DEF Shaped, RequestOK, TargetMemoryAssumption, Areas
  <2> QED  BY <2>1 DEF Aligned
<1> QED  BY <1>1, <1>2

(* A step of the agenda that is not an error takes what the agenda brings   *)
(* into the memory, or leaves it to be brought.                            *)
LEMMA CellKept ==
  ASSUME TargetMemoryAssumption, IInv, Shaped, Work, request.cmd \in {"M", "vFlashDone"}, Aligned,
         Promised(agenda', reply'), NEW c \in Int, c \in 0 .. Size[request.area] - 1,
         NEW v, CellEnds(agenda, mem, request.area, c, v)
  PROVE  CellEnds(agenda', mem', request.area, c, v)
<1> DEFINE e == agenda[1]
           x == request.area
<1>1. /\ agenda # <<>> /\ Sequenced(agenda) /\ Sequenced(Rest) /\ Rest = Tail(agenda)
      /\ ElementOK(e, request, box.proto)
  BY WorkIs, FirstIs DEF Shaped, Shape, Rest
<1>2. ~Reader(e) /\ (e.do = "jtagWrite" => WriteFor(e, request))
  BY <1>1 DEF ElementOK
<1>3. x \in Areas /\ x \in DOMAIN mem /\ c \in DOMAIN mem[x]
  BY DEF Shaped, RequestOK, MemOK
<1> HIDE DEF x
<1>4. CellEnds(agenda, mem, x, c, v)
  BY DEF x
<1>5. \/ mem[x][c] = v /\ ~Touches(e, x, c) /\ Spares(Rest, x, c)
      \/ Lands(Rest, x, c, v)
      \/ Brings(e, x, c, v) /\ Spares(Rest, x, c)
  BY <1>1, <1>4, TailCells, Zenon DEF CellEnds
<1> HIDE DEF e
<1> SUFFICES CellEnds(agenda', mem', x, c, v)
  BY DEF x
<1>6. ~CallRead /\ ~(e.do = "bytes") /\ ~ThrowText
      /\ ~(Throw /\ e.do # "catch" /\ UNCHANGED reply)
  <2>1. request.cmd \in Accesses
    BY DEF Accesses
  <2>2. ~CallRead
    BY <1>2, CallReadIs DEF Reader, e
  <2> QED  BY <1>2, <2>1, <2>2, PromisedBefore DEF Reader, e
<1>7. CASE CallWrite
  <2>1. e.do = "jtagWrite" /\ UNCHANGED mem
    BY <1>7, CallWriteIs DEF e
  <2>2. PICK u : /\ agenda' = u \o Rest
                 /\ Kinds(u, {"write", "erase", "throw", "enable", "disable"})
                 /\ \/ u = <<>> /\ e.bytes = <<>>
                    \/ u = WriteCommands(e.area, e.addr, e.bytes)
    BY <1>7, CallWriteIs DEF e
  <2>3. Sequenced(u) /\ \A i \in DOMAIN u : u[i].do # "reply"
    BY <2>2 DEF Kinds
  <2>4. Promised(u \o Rest, reply')
    BY <2>2
  <2>5. \A i \in DOMAIN u : u[i].do # "throw"
    BY <1>1, <2>3, <2>4, JoinPromised
  <2>6. /\ ~Touches(e, x, c) => Spares(u, x, c)
        /\ Brings(e, x, c, v) => Lands(u, x, c, v)
    <3>1. CASE u = <<>> /\ e.bytes = <<>>
      <4>1. Spares(u, x, c)
        BY <3>1, OneCell
      <4>2. ~Brings(e, x, c, v)
        <5>1. DOMAIN <<>> = {}
          OBVIOUS
        <5> QED  BY <3>1, <5>1 DEF Brings, Reaches
      <4> QED  BY <4>1, <4>2
    <3>2. CASE u = WriteCommands(e.area, e.addr, e.bytes)
      <4>1. WriteOK(e, e.area, e.addr, e.bytes)
        <5>1. WriteFor(e, request)
          BY <1>2, <2>1
        <5>2. Paged(MemorySpace(x)) => request.addr % PageSize[x] = 0
          BY DEF Aligned, x
        <5>3. e.area = x /\ e.addr \in Nat /\ Len(e.bytes) \in Nat
              /\ DOMAIN e.bytes = 1 .. Len(e.bytes)
              /\ (request.addr % PageSize[x] = 0 => e.addr % PageSize[x] = 0)
          BY <5>1 DEF WriteFor, x
        <5> QED  BY <1>3, <2>1, <5>2, <5>3 DEF WriteOK
      <4> QED  BY <2>5, <3>2, <4>1, WriteEnds
    <3> QED  BY <2>2, <3>1, <3>2
  <2>7. /\ Spares(u, x, c) /\ Spares(Rest, x, c) => Spares(u \o Rest, x, c)
        /\ Lands(Rest, x, c, v) => Lands(u \o Rest, x, c, v)
        /\ Lands(u, x, c, v) /\ Spares(Rest, x, c) => Lands(u \o Rest, x, c, v)
    BY <1>1, <2>3, JoinCells
  <2>8. \/ mem[x][c] = v /\ Spares(u \o Rest, x, c)
        \/ Lands(u \o Rest, x, c, v)
    BY <1>5, <2>6, <2>7
  <2> QED  BY <2>1, <2>2, <2>8 DEF CellEnds
<1>8. CASE agenda' = Rest /\ e.do # "jtagWrite" /\ e.do \notin {"write", "erase"} /\ UNCHANGED mem
  <2>1. ~Brings(e, x, c, v)
    BY <1>8 DEF Brings
  <2> QED  BY <1>5, <1>8, <2>1 DEF CellEnds
<1>9. CASE agenda' = Rest /\ e.do = "erase"
  <2>1. ~Brings(e, x, c, v) /\ Touches(e, x, c)
    BY <1>9 DEF Brings, Touches
  <2> QED  BY <1>5, <1>9, <2>1 DEF CellEnds
<1>10. CASE /\ agenda' = Rest /\ e.do = "write"
            /\ mem' = IF e.area \in Areas
                        THEN [mem EXCEPT ![e.area] = Overlaid(@, e.addr, e.bytes)]
                        ELSE mem
  <2>1. CASE Lands(Rest, x, c, v)
    BY <1>10, <2>1 DEF CellEnds
  <2>2. CASE mem[x][c] = v /\ ~Touches(e, x, c) /\ Spares(Rest, x, c)
    <3>1. ~Reaches(e, x, c)
      BY <1>10, <2>2 DEF Touches
    <3>2. mem'[x][c] = mem[x][c]
      BY <1>3, <1>10, <3>1 DEF Reaches, Overlaid
    <3> QED  BY <1>10, <2>2, <3>2 DEF CellEnds
  <2>3. CASE Brings(e, x, c, v) /\ Spares(Rest, x, c)
    <3>1. e.area = x /\ c - e.addr + 1 \in DOMAIN e.bytes /\ e.bytes[c - e.addr + 1] = v
      BY <2>3 DEF Brings, Reaches
    <3>2. mem'[x][c] = v
      BY <1>3, <1>10, <3>1 DEF Overlaid
    <3> QED  BY <1>10, <2>3, <3>2 DEF CellEnds
  <2> QED  BY <1>5, <2>1, <2>2, <2>3
<1>11. \/ CallWrite
       \/ /\ agenda' = Rest /\ e.do \notin {"jtagRead", "jtagWrite", "throw"}
          /\ \/ e.do \notin {"write", "erase"} /\ UNCHANGED mem
             \/ e.do = "erase"
             \/ /\ e.do = "write"
                /\ mem' = IF e.area \in Areas
                            THEN [mem EXCEPT ![e.area] = Overlaid(@, e.addr, e.bytes)]
                            ELSE mem
  BY <1>6, WorkCases, Zenon DEF e
<1> QED  BY <1>7, <1>8, <1>9, <1>10, <1>11

(* The cells request q has to have written, an odd byte being kept back or  *)
(* not, and what it has to leave in them: GDB's k-th packet brought it, or  *)
(* vFlashWrite collected it.                                               *)
Owes(q, kept, c) ==
  /\ c \in 0 .. Size[q.area] - 1
  /\ IF q.cmd = "vFlashDone"
       THEN q.n > 0 /\ c \div PageSize["flash"] <= (q.n - 1) \div PageSize["flash"]
       ELSE q.addr <= c /\ c < q.addr + q.n - (IF kept /\ q.area = "flash" THEN 1 ELSE 0)

OwedByte(q, data, k, c) ==
  IF q.cmd = "vFlashDone" THEN data[c] ELSE Byte(c, packet(k - 1))

(* As long as the answer is promised, what is owed is in the memory or       *)
(* still to be brought there.                                              *)
WritesDue ==
  request.cmd \in {"M", "vFlashDone"} /\ Aligned /\ Promised(agenda, reply) =>
    \A c \in Int : Owes(request, orphan.pending, c) =>
      CellEnds(agenda, mem, request.area, c, OwedByte(request, flashbuf.data, served, c))

LEMMA WorkWrites ==
  ASSUME TargetMemoryAssumption, IInv, Shaped, WritesDue, Work
  PROVE  WritesDue'
<1>1. UNCHANGED <<request, orphan, flashbuf, served>>
  BY WorkIs DEF gdb
<1> SUFFICES ASSUME request.cmd \in {"M", "vFlashDone"}, Aligned', Promised(agenda', reply'),
                    NEW c \in Int, Owes(request, orphan.pending, c)
             PROVE  CellEnds(agenda', mem', request.area, c,
                             OwedByte(request, flashbuf.data, served, c))
  BY <1>1 DEF WritesDue
<1> DEFINE v == OwedByte(request, flashbuf.data, served, c)
<1>2. Aligned
  BY AlignedBefore
<1>3. Promised(agenda, reply)
  <2>1. request.cmd \in Accesses
    BY DEF Accesses
  <2> QED  BY <2>1, PromisedBefore
<1>4. CellEnds(agenda, mem, request.area, c, v)
  BY <1>2, <1>3 DEF WritesDue
<1>5. c \in 0 .. Size[request.area] - 1
  BY DEF Owes
<1> HIDE DEF v
<1>6. CellEnds(agenda', mem', request.area, c, v)
  BY <1>2, <1>4, <1>5, CellKept
<1> QED  BY <1>6 DEF v

LEMMA FirstLands ==
  ASSUME NEW e, NEW x, NEW c, NEW v, Brings(e, x, c, v)
  PROVE  Lands(<<e, Do("reply"), Do("catch")>>, x, c, v)
<1> DEFINE a == <<e, Do("reply"), Do("catch")>>
           r == Do("reply")
           k == Do("catch")
<1>1. r.do = "reply" /\ k.do = "catch"
  BY DEF Do
<1>2. ~Touches(r, x, c) /\ ~Touches(k, x, c)
  BY <1>1 DEF Touches
<1> HIDE DEF r, k
<1>3. DOMAIN <<e, r, k>> = 1 .. 3 /\ <<e, r, k>>[1] = e /\ <<e, r, k>>[2] = r /\ <<e, r, k>>[3] = k
  OBVIOUS
<1> DEFINE b == <<e, r, k>>
<1> HIDE DEF b
<1>4. DOMAIN b = 1 .. 3 /\ b[1] = e /\ b[2] = r /\ b[3] = k
  BY <1>3 DEF b
<1>5. \A j \in DOMAIN b : j > 1 => ~Touches(b[j], x, c)
  BY <1>2, <1>4
<1>6. Lands(b, x, c, v)
  BY <1>4, <1>5 DEF Lands
<1> QED  BY <1>6 DEF b, r, k

LEMMA WriteMemoryWrites ==
  ASSUME TargetMemoryAssumption, Shaped, NEW x \in Areas, NEW r \in Ranges[x],
         WriteMemory(x, r[1], r[2])
  PROVE  WritesDue'
<1> DEFINE q == request'
           kept == orphan'.pending
           end == r[1] + r[2] - (IF kept /\ x = "flash" THEN 1 ELSE 0)
<1>1. PICK e : /\ agenda' = <<e, Do("reply"), Do("catch")>>
               /\ Begins(e, x, r[1])
               /\ Carries(e, r[1], end, packet(served))
  BY WriteMemoryIs, Zenon
<1>2. PICK todo : Packet("M", x, r[1], r[2], todo)
  BY Zenon DEF WriteMemory
<1>3. q.cmd = "M" /\ q.area = x /\ q.addr = r[1] /\ q.n = r[2] /\ served' = served + 1
  BY <1>2 DEF Packet
<1>4. served' - 1 = served
  BY <1>3 DEF Shaped
<1> HIDE DEF q, kept
<1> SUFFICES ASSUME NEW c \in Int, Owes(q, kept, c)
             PROVE  CellEnds(agenda', mem', q.area, c, OwedByte(q, flashbuf'.data, served', c))
  BY DEF WritesDue, q, kept
<1> DEFINE v == Byte(c, packet(served))
<1>5. OwedByte(q, flashbuf'.data, served', c) = v
  BY <1>3, <1>4 DEF OwedByte
<1>6. c >= r[1] /\ c < end
  <2>1. r[1] \in Nat
    BY DEF TargetMemoryAssumption
  <2> QED  BY <1>3, <2>1 DEF Owes
<1> HIDE DEF end
<1>7. c - e.addr + 1 \in DOMAIN e.bytes /\ e.bytes[c - e.addr + 1] = v
  BY <1>1, <1>6 DEF Carries
<1>8. Brings(e, x, c, v)
  BY <1>1, <1>7 DEF Begins, Brings, Reaches
<1> HIDE DEF v
<1>9. Lands(agenda', x, c, v)
  BY <1>1, <1>8, FirstLands, Zenon
<1> QED  BY <1>3, <1>5, <1>9 DEF CellEnds

(* Where the page of address c is among those of a buffer of max bytes.     *)
LEMMA PageOf ==
  ASSUME NEW P \in Nat \ {0}, NEW c \in Nat, NEW max \in Nat, max > 0,
         c \div P <= (max - 1) \div P, NEW k, k = c \div P + 1
  PROVE  /\ k \in 1 .. (max + P - 1) \div P
         /\ c - (k - 1) * P + 1 \in 1 .. P
         /\ \A j \in Int : j > k => (j - 1) * P # 0 /\ c - (j - 1) * P + 1 < 1
<1> DEFINE d == c \div P
<1>1. d \in Nat /\ d * P <= c /\ c < d * P + P
  <2>1. c = P * (c \div P) + (c % P) /\ 0 <= c % P /\ c % P < P /\ c \div P \in Int
    BY SMT
  <2>2. c \div P >= 0
    BY SMT
  <2> QED  BY <2>1, <2>2, SMT
<1>2. (max + P - 1) \div P = (max - 1) \div P + 1
  <2>1. max + P - 1 = (max - 1) + P /\ max - 1 \in Int
    OBVIOUS
  <2> DEFINE m == max - 1
  <2> HIDE DEF m
  <2>2. m \in Int => (m + P) \div P = m \div P + 1
    BY SMT
  <2> QED  BY <2>1, <2>2 DEF m
<1>3. k = d + 1 /\ (max - 1) \div P \in Int
  BY SMT
<1>4. k \in 1 .. (max + P - 1) \div P
  BY <1>1, <1>2, <1>3
<1> HIDE DEF d
<1>5. c - (k - 1) * P + 1 \in 1 .. P
  <2>1. k - 1 = d
    BY <1>1, <1>3
  <2>2. c - d * P + 1 \in 1 .. P
    BY <1>1
  <2> QED  BY <2>1, <2>2
<1>6. ASSUME NEW j \in Int, j > k
      PROVE  (j - 1) * P # 0 /\ c - (j - 1) * P + 1 < 1
  <2> DEFINE t == j - 1
  <2>1. t \in Int /\ t >= d + 1
    BY <1>1, <1>3, <1>6
  <2> HIDE DEF t
  <2>2. t * P >= (d + 1) * P /\ (d + 1) * P = d * P + P
    BY <1>1, <2>1
  <2>3. t * P > c
    BY <1>1, <2>1, <2>2
  <2>4. c - t * P + 1 < 1 /\ t * P # 0
    BY <2>1, <2>3
  <2> QED  BY <2>4 DEF t
<1> QED  BY <1>4, <1>5, <1>6

(* Each page of the buffer is written, and the ones after it lie behind it. *)
LEMMA PagesLand ==
  ASSUME TargetMemoryAssumption, NEW max \in Nat, max > 0, NEW c \in Nat,
         c \div PageSize["flash"] <= (max - 1) \div PageSize["flash"]
  PROVE  Lands(Pages(max), "flash", c, flashbuf.data[c])
<1> DEFINE P == PageSize["flash"]
           k == c \div P + 1
           pages == Pages(max)
           v == flashbuf.data[c]
<1>1. P \in Nat \ {0}
  BY DEF TargetMemoryAssumption, Areas
<1>2. /\ DOMAIN pages = 1 .. (max + P - 1) \div P
      /\ \A j \in DOMAIN pages : pages[j] = BufferedPage((j - 1) * P, P)
  BY PagesAre
<1>3. \A j \in Int :
        LET e == BufferedPage((j - 1) * P, P)
        IN  /\ e.do = "jtagWrite" /\ e.area = "flash" /\ e.addr = (j - 1) * P
            /\ DOMAIN e.bytes = 1 .. P
            /\ \A i \in 1 .. P : e.bytes[i] = flashbuf.data[(j - 1) * P + i - 1]
  BY PageIs
<1> HIDE DEF P, pages
<1>4. /\ k \in 1 .. (max + P - 1) \div P
      /\ c - (k - 1) * P + 1 \in 1 .. P
      /\ \A j \in Int : j > k => (j - 1) * P # 0 /\ c - (j - 1) * P + 1 < 1
  BY <1>1, PageOf DEF P
<1> HIDE DEF k
<1>5. k \in DOMAIN pages /\ k \in Int /\ DOMAIN pages \subseteq Int
  BY <1>2, <1>4
<1> DEFINE E(j) == BufferedPage((j - 1) * P, P)
<1>6. \A j \in Int : /\ E(j).do = "jtagWrite" /\ E(j).area = "flash" /\ E(j).addr = (j - 1) * P
                     /\ DOMAIN E(j).bytes = 1 .. P
                     /\ \A i \in 1 .. P : E(j).bytes[i] = flashbuf.data[(j - 1) * P + i - 1]
  BY <1>3
<1>7. \A j \in DOMAIN pages : pages[j] = E(j)
  BY <1>2
<1> HIDE DEF E, v
<1>8. Brings(pages[k], "flash", c, v)
  <2> DEFINE t == (k - 1) * P
             i == c - t + 1
  <2>1. t \in Int
    BY <1>1, <1>5
  <2>2. i \in 1 .. P /\ E(k).addr = t /\ E(k).bytes[i] = flashbuf.data[t + i - 1]
    BY <1>4, <1>5, <1>6
  <2> HIDE DEF t
  <2>3. t + i - 1 = c
    BY <2>1
  <2>4. i \in DOMAIN E(k).bytes /\ E(k).bytes[i] = v
    BY <1>5, <1>6, <2>2, <2>3 DEF v
  <2>5. Brings(E(k), "flash", c, v)
    BY <1>5, <1>6, <2>2, <2>4 DEF Brings, Reaches
  <2> QED  BY <1>5, <1>7, <2>5
<1>9. ASSUME NEW j \in DOMAIN pages, j > k
      PROVE  ~Touches(pages[j], "flash", c)
  <2>1. j \in Int /\ pages[j] = E(j)
    BY <1>5, <1>7
  <2>2. /\ E(j).do = "jtagWrite" /\ E(j).addr = (j - 1) * P /\ DOMAIN E(j).bytes = 1 .. P
        /\ (j - 1) * P # 0 /\ c - (j - 1) * P + 1 < 1
    BY <1>4, <1>6, <1>9, <2>1
  <2>3. c - E(j).addr + 1 < 1
    BY <2>2
  <2> HIDE DEF E
  <2>4. ~(c - E(j).addr + 1 \in DOMAIN E(j).bytes)
    BY <1>1, <2>2, <2>3
  <2>5. E(j).addr # 0
    BY <2>2
  <2>6. ~Touches(E(j), "flash", c)
    BY <2>2, <2>4, <2>5 DEF Touches, Reaches
  <2> QED  BY <2>1, <2>6
<1>10. Lands(pages, "flash", c, v)
  BY <1>5, <1>8, <1>9 DEF Lands
<1> QED  BY <1>10 DEF pages, v

LEMMA FlashDoneWrites ==
  ASSUME TargetMemoryAssumption, IInv, Shaped, FlashDone
  PROVE  WritesDue'
<1> DEFINE off   == Do("disable")
           r     == Do("reply")
           ends  == <<off, r>>
           pages == Pages(flashbuf.max)
           q     == request'
           kept  == orphan'.pending
           max   == flashbuf.max
<1>1. Packet("vFlashDone", "flash", 0, max, pages \o ends)
  BY DEF FlashDone
<1>2. flashbuf'.data = flashbuf.data
  BY DEF FlashDone
<1>3. /\ q.cmd = "vFlashDone" /\ q.area = "flash" /\ q.n = max /\ agenda' = pages \o ends
      /\ max \in Nat
  BY <1>1 DEF Packet, IInv
<1> HIDE DEF q, kept
<1> SUFFICES ASSUME NEW c \in Int, Owes(q, kept, c)
             PROVE  CellEnds(agenda', mem', q.area, c, OwedByte(q, flashbuf'.data, served', c))
  BY DEF WritesDue, q, kept
<1> DEFINE v == flashbuf.data[c]
<1>4. OwedByte(q, flashbuf'.data, served', c) = v
  BY <1>2, <1>3 DEF OwedByte
<1>5. /\ c \in Nat /\ max > 0
      /\ c \div PageSize["flash"] <= (max - 1) \div PageSize["flash"]
  <2>1. c \in 0 .. Size["flash"] - 1 /\ Size["flash"] \in Nat
    BY <1>3 DEF Owes, TargetMemoryAssumption, Areas
  <2> QED  BY <1>3, <2>1 DEF Owes
<1>6. Sequenced(pages)
  BY <1>3, PagesAre
<1> HIDE DEF max
<1>7. Lands(pages, "flash", c, v)
  BY <1>3, <1>5, PagesLand DEF max
<1> HIDE DEF pages, v
<1>8. ~Touches(off, "flash", c) /\ ~Touches(r, "flash", c)
  BY DEF Touches, Do
<1> HIDE DEF off, r
<1>9. Sequenced(ends) /\ Spares(ends, "flash", c)
  <2>1. ends \in Seq({off, r}) /\ DOMAIN ends = {1, 2} /\ ends[1] = off /\ ends[2] = r
    OBVIOUS
  <2> HIDE DEF ends
  <2>2. Sequenced(ends)
    BY <2>1, SequencedIs
  <2> QED  BY <1>8, <2>1, <2>2 DEF Spares
<1> HIDE DEF ends
<1>10. Lands(agenda', "flash", c, v)
  BY <1>3, <1>6, <1>7, <1>9, JoinCells
<1> QED  BY <1>3, <1>4, <1>10 DEF CellEnds

LEMMA NextWrites ==
  ASSUME TargetMemoryAssumption, IInv, Shaped, WritesDue, [Next]_vars
  PROVE  WritesDue'
<1>1. ASSUME NEW cmd, cmd \notin {"M", "vFlashDone"}, request'.cmd = cmd
      PROVE  WritesDue'
  BY <1>1 DEF WritesDue
<1>2. ASSUME UNCHANGED <<box, programmingEnabled, mem, agenda, request, reply, flashbuf, orphan,
                         served>>
      PROVE  WritesDue'
  BY <1>2 DEF WritesDue, Aligned, Paged, MemorySpace
<1>3. CASE \E k \in DOMAIN Options, program, verify \in BOOLEAN :
             TakeOption(k, program, verify)
  <2>1. PICK k \in DOMAIN Options, program \in BOOLEAN, verify \in BOOLEAN :
               TakeOption(k, program, verify)
    BY <1>3
  <2>2. request'.cmd = Options[k] /\ Options[k] \notin {"M", "vFlashDone"}
    BY <2>1 DEF TakeOption, Options, NoRequest
  <2> QED  BY <1>1, <2>2
<1>4. CASE Serve
  BY <1>2, <1>4 DEF Serve, answer, gdb, mode
<1>5. CASE \E x \in Areas : \E r \in Ranges[x] : ReadMemory(x, r[1], r[2])
  <2>1. request'.cmd = "m"
    BY <1>5 DEF ReadMemory, Packet
  <2> QED  BY <1>1, <2>1
<1>6. CASE \E x \in Areas : \E r \in Ranges[x] : WriteMemory(x, r[1], r[2])
  BY <1>6, WriteMemoryWrites
<1>7. CASE FlashErase
  <2>1. request'.cmd = "vFlashErase"
    BY <1>7 DEF FlashErase, Packet
  <2> QED  BY <1>1, <2>1
<1>8. CASE \E r \in Ranges["flash"] : FlashWrite(r[1], r[2])
  <2>1. request'.cmd = "vFlashWrite"
    BY <1>8 DEF FlashWrite, Packet
  <2> QED  BY <1>1, <2>1
<1>9. CASE UNCHANGED vars
  BY <1>2, <1>9 DEF vars, answer, gdb, mode
<1> QED
  BY <1>3, <1>4, <1>5, <1>6, <1>7, <1>8, <1>9, FlashDoneWrites, WorkWrites DEF Next

LEMMA WritesInvariant == Spec => [](IInv /\ Shaped /\ WritesDue)
<1>1. Init => WritesDue
  BY DEF Init, NoRequest, WritesDue
<1>2. IInv /\ Shaped /\ WritesDue /\ [Next]_vars => WritesDue'
  BY TargetMemoryAssumption, NextWrites
<1> QED  BY <1>1, <1>2, ShapeInvariant, PTL DEF Spec

(* After a request of GDB was answered, what it owed is in the memory. *)
LEMMA OwedIsThere ==
  ASSUME WritesDue, request.cmd \in {"M", "vFlashDone"}, Aligned, Idle, reply = "ok",
         NEW c \in Int, Owes(request, orphan.pending, c)
  PROVE  mem[request.area][c] = OwedByte(request, flashbuf.data, served, c)
<1>1. agenda = <<>> /\ DOMAIN <<>> = {}
  BY DEF Idle
<1>2. Promised(agenda, reply)
  BY <1>1 DEF Promised
<1> DEFINE v == OwedByte(request, flashbuf.data, served, c)
<1>3. CellEnds(agenda, mem, request.area, c, v)
  BY <1>2 DEF WritesDue
<1> HIDE DEF v
<1>4. mem[request.area][c] = v
  BY <1>1, <1>3, OneCell DEF CellEnds
<1> QED  BY <1>4 DEF v

(* FlashedAsSent: what GDB loads with vFlashWrite, in whatever pieces and   *)
(* order, is in the flash when vFlashDone is answered, with FF in the rest  *)
(* of its pages.                                                           *)
THEOREM Flashed == Spec => []FlashedAsSent
<1>1. IInv /\ Shaped /\ WritesDue => FlashedAsSent
  <2> SUFFICES ASSUME Shaped, WritesDue, Answered("vFlashDone"), NEW c \in DOMAIN mem["flash"],
                      request.n > 0,
                      c \div PageSize["flash"] <= (request.n - 1) \div PageSize["flash"]
               PROVE  mem["flash"][c] = flashbuf.data[c]
    BY DEF FlashedAsSent
  <2>1. request.cmd = "vFlashDone" /\ Idle /\ reply = "ok"
    BY DEF Answered
  <2>2. request.area = "flash" /\ request.addr = 0 /\ DOMAIN mem["flash"] = 0 .. Size["flash"] - 1
    BY <2>1 DEF Shaped, RequestOK, MemOK, Areas
  <2>3. Aligned
    BY <2>2, TargetMemoryAssumption DEF Aligned, TargetMemoryAssumption, Areas
  <2>4. Size["flash"] \in Nat
    BY TargetMemoryAssumption DEF TargetMemoryAssumption, Areas
  <2>5. c \in Int /\ Owes(request, orphan.pending, c)
    BY <2>1, <2>2, <2>4 DEF Owes
  <2>6. OwedByte(request, flashbuf.data, served, c) = flashbuf.data[c]
    BY <2>1 DEF OwedByte
  <2> QED  BY <2>1, <2>2, <2>3, <2>5, <2>6, OwedIsThere
<1> QED  BY <1>1, WritesInvariant, PTL

(* WritesArrive: what a packet M of GDB brings is in the memory when it is  *)
(* answered, though a page goes in blocks, an odd byte may come from the    *)
(* packet before, and a chip erase may come first.                         *)
THEOREM Written == Spec => []WritesArrive
<1>1. IInv /\ Shaped /\ WritesDue => WritesArrive
  <2> DEFINE kept == IF orphan.pending /\ request.area = "flash" THEN 1 ELSE 0
  <2> SUFFICES ASSUME Shaped, WritesDue, Answered("M"), Aligned, NEW i \in 1 .. request.n - kept
               PROVE  Wanted[i] = Byte(request.addr + i - 1, packet(served - 1))
    BY DEF WritesArrive, Aligned
  <2>1. request.cmd = "M" /\ Idle /\ reply = "ok"
    BY DEF Answered
  <2>2. /\ request.addr \in Nat /\ request.n \in Nat /\ request.area \in Areas
        /\ request.addr + request.n <= Size[request.area] /\ kept \in {0, 1}
        /\ Size[request.area] \in Nat
    BY <2>1, TargetMemoryAssumption DEF Shaped, RequestOK, TargetMemoryAssumption
  <2> DEFINE c == request.addr + i - 1
  <2>3. c \in Int /\ c >= request.addr /\ c < request.addr + request.n - kept
        /\ i \in 1 .. request.n /\ c \in 0 .. Size[request.area] - 1
    <3> HIDE DEF kept
    <3> QED  BY <2>2
  <2>4. Owes(request, orphan.pending, c)
    <3> HIDE DEF c
    <3> QED  BY <2>1, <2>3 DEF Owes
  <2>5. mem[request.area][c] = OwedByte(request, flashbuf.data, served, c)
    <3> HIDE DEF c
    <3> QED  BY <2>1, <2>3, <2>4, OwedIsThere
  <2>6. Wanted[i] = mem[request.area][c]
    BY <2>3 DEF Wanted
  <2>7. OwedByte(request, flashbuf.data, served, c) = Byte(c, packet(served - 1))
    BY <2>1 DEF OwedByte
  <2> QED  BY <2>5, <2>6, <2>7
<1> QED  BY <1>1, WritesInvariant, PTL

-----------------------------------------------------------------------------
(* What a read of GDB returns.                                             *)

NoReader(a) == \A i \in DOMAIN a : ~Reader(a[i])

(* e is in a, and nothing else of a reads. *)
Only(a, e) ==
  \E i \in DOMAIN a : a[i] = e /\ \A j \in DOMAIN a : j # i => ~Reader(a[j])

LEMMA JoinReads ==
  ASSUME NEW a, NEW b, Sequenced(a), Sequenced(b), NEW e
  PROVE  /\ NoReader(a) /\ NoReader(b) => NoReader(a \o b)
         /\ Only(a, e) /\ NoReader(b) => Only(a \o b, e)
         /\ NoReader(a) /\ Only(b, e) => Only(a \o b, e)
<1> DEFINE d == a \o b
           m == Len(a)
<1>1. /\ m \in Nat /\ DOMAIN a \subseteq Int /\ DOMAIN b \subseteq Int
      /\ \A i \in DOMAIN a : i >= 1 /\ i <= m
      /\ \A i \in DOMAIN b : i >= 1
      /\ \A i \in DOMAIN d :
           \/ i \in DOMAIN a /\ d[i] = a[i]
           \/ i > m /\ i - m \in DOMAIN b /\ d[i] = b[i - m]
      /\ \A i \in DOMAIN a : i \in DOMAIN d /\ d[i] = a[i]
      /\ \A i \in DOMAIN b : m + i \in DOMAIN d /\ d[m + i] = b[i]
      /\ DOMAIN d \subseteq Int
  BY JoinIs, SequencedHas
<1> HIDE DEF d, m
<1>2. ASSUME NoReader(a), NoReader(b)
      PROVE  NoReader(d)
  BY <1>1, <1>2 DEF NoReader
<1>3. ASSUME Only(a, e), NoReader(b)
      PROVE  Only(d, e)
  <2>1. PICK i \in DOMAIN a : a[i] = e /\ \A j \in DOMAIN a : j # i => ~Reader(a[j])
    BY <1>3 DEF Only
  <2>2. i \in DOMAIN d /\ d[i] = e
    BY <1>1, <2>1
  <2>3. ASSUME NEW j \in DOMAIN d, j # i
        PROVE  ~Reader(d[j])
    BY <1>1, <1>3, <2>1, <2>3 DEF NoReader
  <2> QED  BY <2>2, <2>3 DEF Only
<1>4. ASSUME NoReader(a), Only(b, e)
      PROVE  Only(d, e)
  <2>1. PICK i \in DOMAIN b : b[i] = e /\ \A j \in DOMAIN b : j # i => ~Reader(b[j])
    BY <1>4 DEF Only
  <2> DEFINE k == m + i
  <2>2. k \in DOMAIN d /\ d[k] = e /\ k - m = i /\ k \in Int
    BY <1>1, <2>1
  <2> HIDE DEF k
  <2>3. ASSUME NEW j \in DOMAIN d, j # k
        PROVE  ~Reader(d[j])
    <3>1. CASE j \in DOMAIN a /\ d[j] = a[j]
      BY <1>4, <3>1 DEF NoReader
    <3>2. CASE j > m /\ j - m \in DOMAIN b /\ d[j] = b[j - m]
      <4>1. j - m # i
        BY <1>1, <2>2, <2>3
      <4> QED  BY <2>1, <3>2, <4>1
    <3> QED  BY <1>1, <3>1, <3>2
  <2> QED  BY <2>2, <2>3 DEF Only
<1> QED  BY <1>2, <1>3, <1>4 DEF d

LEMMA TailReads ==
  ASSUME NEW a, Sequenced(a), a # <<>>, NEW e
  PROVE  /\ NoReader(a) => ~Reader(a[1]) /\ NoReader(Tail(a))
         /\ Only(a, e) => \/ a[1] = e /\ NoReader(Tail(a))
                          \/ ~Reader(a[1]) /\ Only(Tail(a), e)
<1> DEFINE n == Len(a)
           u == Tail(a)
<1>1. /\ n \in Nat /\ n >= 1 /\ DOMAIN a = 1 .. n /\ 1 \in DOMAIN a
      /\ DOMAIN u = 1 .. n - 1
      /\ \A i \in DOMAIN u : i + 1 \in DOMAIN a /\ u[i] = a[i + 1]
  <2>1. n \in Nat /\ n >= 1 /\ DOMAIN a = 1 .. n /\ 1 \in DOMAIN a /\ u = SubSeq(a, 2, n)
    BY SequencedHas DEF Sequenced
  <2>2. 1 \in 0 .. Len(a) /\ u = SubSeq(a, 1 + 1, Len(a))
    BY <2>1
  <2>3. /\ DOMAIN u = 1 .. Len(a) - 1
        /\ \A i \in DOMAIN u : i + 1 \in DOMAIN a /\ u[i] = a[i + 1]
    BY <2>2, RestIs
  <2> HIDE DEF u
  <2> QED  BY <2>1, <2>3
<1> HIDE DEF n, u
<1>2. ASSUME NoReader(a)
      PROVE  ~Reader(a[1]) /\ NoReader(u)
  BY <1>1, <1>2 DEF NoReader
<1>3. ASSUME Only(a, e)
      PROVE  (a[1] = e /\ NoReader(u)) \/ (~Reader(a[1]) /\ Only(u, e))
  <2>1. PICK i \in DOMAIN a : a[i] = e /\ \A j \in DOMAIN a : j # i => ~Reader(a[j])
    BY <1>3 DEF Only
  <2>2. CASE i = 1
    <3>1. \A j \in DOMAIN u : j + 1 # 1
      BY <1>1
    <3>2. NoReader(u)
      BY <1>1, <2>1, <2>2, <3>1 DEF NoReader
    <3>3. a[1] = e
      BY <2>1, <2>2, Zenon
    <3> QED  BY <3>2, <3>3
  <2>3. CASE i # 1
    <3> DEFINE k == i - 1
    <3>1. k \in DOMAIN u /\ k + 1 = i /\ k \in Int
      BY <1>1, <2>3
    <3> HIDE DEF k
    <3>2. u[k] = e
      BY <1>1, <2>1, <3>1
    <3>3. ASSUME NEW j \in DOMAIN u, j # k
          PROVE  ~Reader(u[j])
      <4>1. j + 1 # i
        BY <1>1, <3>1, <3>3
      <4> QED  BY <1>1, <2>1, <4>1
    <3>4. Only(u, e)
      BY <3>1, <3>2, <3>3 DEF Only
    <3>5. ~Reader(a[1])
      BY <1>1, <2>1, <2>3
    <3> QED  BY <3>4, <3>5
  <2> QED  BY <2>2, <2>3
<1> QED  BY <1>2, <1>3 DEF u

LEMMA OneReads ==
  ASSUME NEW e
  PROVE  /\ Sequenced(<<e>>) /\ Only(<<e>>, e) /\ (~Reader(e) => NoReader(<<e>>))
         /\ Sequenced(<<>>) /\ NoReader(<<>>)
<1>1. Sequenced(<<e>>) /\ DOMAIN <<e>> = {1} /\ <<e>>[1] = e
  BY SequencedOne
<1>2. Sequenced(<<>>) /\ DOMAIN <<>> = {}
  BY NothingFits DEF Fits
<1> QED  BY <1>1, <1>2 DEF Only, NoReader

LEMMA InProgmodeReads ==
  ASSUME NEW space, NEW y, Sequenced(y), NEW e, Only(y, e)
  PROVE  /\ Sequenced(InProgmode(space, y)) /\ Only(InProgmode(space, y), e)
<1> DEFINE on == Do("enable")
           off == Do("disable")
<1>1. ~Reader(on) /\ ~Reader(off)
  BY DEF Reader, Do
<1> HIDE DEF on, off
<1>2. /\ Sequenced(<<on>>) /\ NoReader(<<on>>)
      /\ Sequenced(<<off>>) /\ NoReader(<<off>>)
  BY <1>1, OneReads
<1> DEFINE a == <<on>>
           b == <<off>>
<1> HIDE DEF a, b
<1>3. Sequenced(a) /\ NoReader(a) /\ Sequenced(b) /\ NoReader(b)
  BY <1>2 DEF a, b
<1>4. Sequenced(a \o y) /\ Only(a \o y, e)
  BY <1>3, JoinReads, JoinIs
<1>5. Sequenced((a \o y) \o b) /\ Only((a \o y) \o b, e)
  BY <1>3, <1>4, JoinReads, JoinIs
<1>6. InProgmode(space, y) = (a \o y) \o b \/ InProgmode(space, y) = y
  BY DEF InProgmode, a, b, on, off
<1> QED  BY <1>5, <1>6

(* The command that jtagRead() sends for what lies on one page, and the one *)
(* for a space without pages, sent for the first or the second time.       *)
PageRead(x, addr, n) ==
  [do |-> "page", area |-> x, page |-> PageStart(addr, Carried(x)),
   offset |-> Offset(addr, Carried(x)), n |-> n]

ByteRead(x, addr, n, t) == [ByteCommand(x, MemorySpace(x), addr, n) EXCEPT !.cnt = t]

LEMMA CarriedIs ==
  ASSUME TargetMemoryAssumption, NEW x \in Areas
  PROVE  Carried(x) \in Nat \ {0} /\ PageSize[x] \in Nat \ {0} /\ Carried(x) <= PageSize[x]
<1> DEFINE P == PageSize[x]
<1>1. P \in Nat \ {0} /\ Block \in Nat \ {0} /\ PageSize["flash"] % Block = 0
  BY DEF TargetMemoryAssumption
<1>2. x = "flash" => Block <= P
  <2> SUFFICES ASSUME x = "flash" PROVE Block <= P
    OBVIOUS
  <2>1. P % Block = 0
    BY <1>1
  <2> HIDE DEF P
  <2> QED  BY <1>1, <2>1
<1> HIDE DEF P
<1>3. (Carried(x) = Block /\ x = "flash") \/ Carried(x) = P
  BY DEF Carried, P
<1> QED  BY <1>1, <1>2, <1>3 DEF P

LEMMA WithinPage ==
  ASSUME NEW P \in Nat \ {0}, NEW addr \in Nat, NEW n \in Nat, n > 0,
         addr \div P = (addr + n - 1) \div P
  PROVE  /\ PageStart(addr, P) \in Nat /\ Offset(addr, P) \in Nat
         /\ PageStart(addr, P) + Offset(addr, P) = addr
         /\ Offset(addr, P) + n <= P
<1> DEFINE s == PageStart(addr, P)
           o == Offset(addr, P)
           d == addr \div P
           l == addr + n - 1
<1>1. /\ addr = P * d + (addr % P) /\ addr % P \in Nat /\ addr % P < P
      /\ d \in Int /\ d >= 0
  BY SMT
<1>2. s = P * d /\ o = addr % P /\ P * d \in Nat
  <2>1. P * d \in Int
    BY <1>1
  <2>2. P * d >= 0
    BY <1>1
  <2>3. s = P * d
    BY <1>1, <2>1 DEF PageStart
  <2>4. o = addr - s
    BY DEF Offset
  <2> DEFINE m == P * d
             t == addr % P
  <2>5. addr = m + t /\ t \in Nat /\ m \in Int /\ s = m /\ o = addr - s
    BY <1>1, <2>1, <2>3, <2>4
  <2> HIDE DEF d, s, o, m, t
  <2>6. o = t
    BY <2>5
  <2>7. m \in Nat
    BY <2>1, <2>2 DEF m
  <2> QED  BY <2>5, <2>6, <2>7 DEF m, t
<1>3. l < P * d + P
  <2>1. l \in Nat /\ d = l \div P
    OBVIOUS
  <2> HIDE DEF d, l
  <2>2. l < P * (l \div P) + P
    BY <2>1
  <2> QED  BY <2>1, <2>2
<1> HIDE DEF s, o, d
<1>4. s + o = addr /\ o + n <= P
  BY <1>1, <1>2, <1>3
<1> QED  BY <1>1, <1>2, <1>4 DEF s, o

LEMMA OnePage ==
  ASSUME TargetMemoryAssumption, NEW x \in Areas, NEW addr \in Nat, NEW n \in Nat, n > 0,
         OnOnePage(x, addr, n)
  PROVE  /\ Sequenced(PageCommands(x, addr, n))
         /\ Only(PageCommands(x, addr, n), PageRead(x, addr, n))
<1> DEFINE P     == Carried(x)
           base  == PageStart(addr, P)
           first == IF addr + n >= base + P THEN base + P - addr ELSE n
           pages == 1 + ((n - first + P - 1) \div P)
           f     == PageCommands(x, addr, n)
           o     == Offset(addr, P)
<1>1. P \in Nat \ {0}
  BY CarriedIs
<1>2. base \in Nat /\ o \in Nat /\ base + o = addr /\ o + n <= P
  BY <1>1, WithinPage DEF OnOnePage
<1>3. Sequenced(f)
  BY <1>1, PageCommandsFit DEF Fits
<1>4. DOMAIN f = 1 .. pages
  BY DEF PageCommands
<1>5. 1 \in 1 .. pages => f[1] = [do |-> "page", area |-> x, page |-> base + (1 - 1) * P,
                                  offset |-> o, n |-> first]
  BY DEF PageCommands
<1> HIDE DEF f, base, o, P
<1>6. first = n
  <2> HIDE DEF first
  <2>1. first = IF addr + n >= base + P THEN base + P - addr ELSE n
    BY DEF first
  <2>2. addr + n <= base + P
    BY <1>1, <1>2
  <2>3. addr + n >= base + P => base + P - addr = n
    BY <1>1, <1>2, <2>2
  <2> QED  BY <2>1, <2>3
<1>7. pages = 1
  <2>1. n - first + P - 1 = P - 1
    BY <1>1, <1>6
  <2>2. (P - 1) \div P = 0
    BY <1>1
  <2> QED  BY <2>1, <2>2
<1>8. base + (1 - 1) * P = base
  BY <1>1, <1>2
<1> HIDE DEF pages, first
<1>9. DOMAIN f = {1} /\ f[1] = PageRead(x, addr, n)
  BY <1>4, <1>5, <1>6, <1>7, <1>8 DEF PageRead, base, o, P
<1>10. Only(f, PageRead(x, addr, n))
  BY <1>9 DEF Only
<1> QED  BY <1>3, <1>10 DEF f

LEMMA ReadsOne ==
  ASSUME TargetMemoryAssumption, NEW x \in Areas, NEW addr \in Nat, NEW n \in Nat, n > 0,
         Paged(MemorySpace(x)) => OnOnePage(x, addr, n)
  PROVE  /\ Sequenced(ReadCommands(x, addr, n))
         /\ Only(ReadCommands(x, addr, n),
                 IF Paged(MemorySpace(x)) THEN PageRead(x, addr, n) ELSE ByteRead(x, addr, n, 0))
<1> DEFINE space == MemorySpace(x)
           c     == ByteCommand(x, space, addr, n)
           b     == ByteRead(x, addr, n, 0)
           y     == IF Paged(space) THEN PageCommands(x, addr, n) ELSE <<c>>
           e     == IF Paged(space) THEN PageRead(x, addr, n) ELSE b
<1>1. c = b
  BY DEF ByteCommand, ByteRead
<1> HIDE DEF c, b
<1>2. Sequenced(y) /\ Only(y, e)
  <2>1. CASE Paged(space)
    BY <2>1, OnePage
  <2>2. CASE ~Paged(space)
    BY <1>1, <2>2, OneReads
  <2> QED  BY <2>1, <2>2
<1>3. ReadCommands(x, addr, n) = InProgmode(space, y)
  BY DEF ReadCommands, c
<1> HIDE DEF y, space, e
<1>4. Sequenced(InProgmode(space, y)) /\ Only(InProgmode(space, y), e)
  BY <1>2, InProgmodeReads
<1> QED  BY <1>3, <1>4 DEF e, b, space

CacheOK ==
  DOMAIN cache = Areas /\ \A x \in Areas : DOMAIN cache[x].data = 0 .. PageSize[x] - 1

(* What jtagRead() may return of a read that does not run past a page. *)
Acceptable ==
  \/ result = Wanted
  \/ Paged(MemorySpace(request.area)) /\ ~CacheFresh(request.area)
  \/ MemorySpace(request.area) = "SPM" /\ request.addr % 2 = 1 /\ request.n % 2 = 0

AcrossPages ==
  /\ Paged(MemorySpace(request.area))
  /\ ~OnOnePage(request.area, request.addr, request.n)

(* The call or the command that is to carry out the read. *)
Reads(e) ==
  \/ e = jtagRead(request.area, request.addr, request.n)
  \/ /\ Paged(MemorySpace(request.area)) /\ result = <<>>
     /\ e = PageRead(request.area, request.addr, request.n)
  \/ /\ ~Paged(MemorySpace(request.area))
     /\ \E t \in {0, 1} : e = ByteRead(request.area, request.addr, request.n, t)

Outcome(a) ==
  \/ Acceptable /\ NoReader(a)
  \/ \E e : Reads(e) /\ Only(a, e)

(* A read whose answer is promised has brought what it may bring, or one    *)
(* step that will bring it is still to come.                               *)
ReadDue ==
  /\ CacheOK
  /\ request.cmd = "m" /\ Promised(agenda, reply) /\ ~AcrossPages => Outcome(agenda)

LEMMA SameReads ==
  ASSUME UNCHANGED <<box, request, programmingEnabled, mem>>
  PROVE  /\ AcrossPages' <=> AcrossPages
         /\ UNCHANGED result => \A e : Reads(e) => Reads(e)'
         /\ UNCHANGED <<result, cache>> /\ Acceptable => Acceptable'
         /\ Wanted' = Wanted
<1> DEFINE x == request.area
           a == request.addr
           n == request.n
<1>1. /\ MemorySpace(x)' = MemorySpace(x)
      /\ Paged(MemorySpace(x))' = Paged(MemorySpace(x))
      /\ x' = x /\ a' = a /\ n' = n
  BY SameSpace
<1>2. /\ Carried(x)' = Carried(x)
      /\ OnOnePage(x, a, n)' = OnOnePage(x, a, n)
      /\ PageRead(x, a, n)' = PageRead(x, a, n)
  BY DEF Carried, OnOnePage, PageRead
<1>3. \A t : ByteRead(x, a, n, t)' = ByteRead(x, a, n, t)
  BY <1>1 DEF ByteRead
<1>4. Wanted' = Wanted
  BY DEF Wanted
<1>5. UNCHANGED cache => CacheFresh(x)' = CacheFresh(x)
  BY <1>2 DEF CacheFresh
<1>6. AcrossPages' <=> AcrossPages
  BY <1>1, <1>2 DEF AcrossPages
<1>7. UNCHANGED result => \A e : Reads(e) => Reads(e)'
  BY <1>1, <1>2, <1>3 DEF Reads
<1>8. UNCHANGED <<result, cache>> /\ Acceptable => Acceptable'
  BY <1>1, <1>4, <1>5 DEF Acceptable
<1> QED  BY <1>4, <1>6, <1>7, <1>8

LEMMA OthersKeep ==
  ASSUME IInv, Work, ~Reader(agenda[1])
  PROVE  UNCHANGED <<result, cache>>
<1>1. ~CallRead /\ ~ReadPage /\ ~ReadBytes
  BY HeadIs DEF CallRead, ReadPage, ReadBytes, Reader
<1>2. CASE CallWrite \/ ThrowText \/ TryBlock \/ Answer \/ EraseProgramMemory
  BY <1>2 DEF CallWrite, ThrowText, TryBlock, Answer, EraseProgramMemory, answer
<1>3. CASE enableProgramming \/ disableProgramming
  BY <1>3 DEF enableProgramming, disableProgramming, SetMode, answer
<1>4. CASE WriteBytes \/ VerifyPage \/ Verified \/ GiveUp
  BY <1>4 DEF WriteBytes, VerifyPage, Verified, GiveUp, answer
<1> QED  BY <1>1, <1>2, <1>3, <1>4 DEF Work

LEMMA SameMemory ==
  ASSUME IInv, Shaped, Work, request.cmd = "m"
  PROVE  UNCHANGED mem
<1>1. agenda # <<>>
  BY WorkIs
<1>2. ~Writer(agenda[1])
  BY <1>1, FirstIs DEF ElementOK
<1> QED  BY <1>2, MemoryIs DEF Writer

LEMMA CacheKept ==
  ASSUME IInv, CacheOK, [Next]_vars
  PROVE  CacheOK'
<1>1. CASE UNCHANGED cache
  BY <1>1 DEF CacheOK
<1>2. CASE ReadPage
  <2> DEFINE x == Head(agenda).area
             f == FilledCache(x, Head(agenda).page)
  <2>1. UNCHANGED cache \/ cache' = [cache EXCEPT ![x] = f]
    BY <1>2, Zenon DEF ReadPage
  <2>2. DOMAIN f.data = DOMAIN cache[x].data
    BY DEF FilledCache
  <2> HIDE DEF f, x
  <2>3. CASE cache' = [cache EXCEPT ![x] = f]
    BY <2>2, <2>3 DEF CacheOK
  <2> QED  BY <1>1, <2>1, <2>3
<1>3. CASE Work
  <2>1. CASE Reader(agenda[1]) /\ ~ReadPage
    <3>1. CallRead \/ ReadBytes \/ UNCHANGED cache
      <4>1. CASE TryBlock \/ Answer \/ enableProgramming \/ disableProgramming
        BY <4>1 DEF TryBlock, Answer, enableProgramming, disableProgramming, SetMode
      <4>2. CASE CallWrite \/ ThrowText \/ EraseProgramMemory \/ WriteBytes
        BY <4>2 DEF CallWrite, ThrowText, EraseProgramMemory, WriteBytes
      <4>3. CASE VerifyPage \/ Verified \/ GiveUp
        BY <4>3 DEF VerifyPage, Verified, GiveUp
      <4> QED  BY <1>3, <2>1, <4>1, <4>2, <4>3 DEF Work
    <3>2. UNCHANGED cache
      BY <3>1 DEF CallRead, ReadBytes
    <3> QED  BY <1>1, <3>2
  <2>2. CASE ~Reader(agenda[1])
    BY <1>1, <1>3, <2>2, OthersKeep
  <2> QED  BY <1>2, <2>1, <2>2
<1>4. CASE \E k \in DOMAIN Options, program, verify \in BOOLEAN :
             TakeOption(k, program, verify)
  BY <1>1, <1>4 DEF TakeOption
<1>5. CASE Serve \/ FlashErase \/ FlashDone
  BY <1>1, <1>5 DEF Serve, FlashErase, FlashDone, Packet
<1>6. CASE \E x \in Areas : \E r \in Ranges[x] : ReadMemory(x, r[1], r[2])
  BY <1>1, <1>6 DEF ReadMemory, Packet
<1>7. CASE \E x \in Areas : \E r \in Ranges[x] : WriteMemory(x, r[1], r[2])
  <2>1. UNCHANGED cache
    BY <1>7, Zenon DEF WriteMemory, Packet
  <2> QED  BY <1>1, <2>1
<1>8. CASE \E r \in Ranges["flash"] : FlashWrite(r[1], r[2])
  BY <1>1, <1>8 DEF FlashWrite, Packet
<1>9. CASE UNCHANGED vars
  BY <1>1, <1>9 DEF vars
<1> QED  BY <1>3, <1>4, <1>5, <1>6, <1>7, <1>8, <1>9 DEF Next

(* One page, read or found in the cache. *)
LEMMA PageReads ==
  ASSUME TargetMemoryAssumption, IInv, Shaped, CacheOK, CacheOK', ReadPage, ~Throw,
         UNCHANGED <<box, request, programmingEnabled, mem>>,
         request.cmd = "m", ~AcrossPages, Reads(agenda[1])
  PROVE  agenda' = Rest /\ Acceptable'
<1> DEFINE e == agenda[1]
           x == request.area
           a == request.addr
           n == request.n
           P == Carried(x)
           s == PageStart(a, P)
           o == Offset(a, P)
           f == cache'[x]
           g == CopiedFrom(f, o, n)
<1>1. Head(agenda) = e /\ e.do = "page"
  BY HeadIs DEF ReadPage
<1>2. e = PageRead(x, a, n) /\ result = <<>> /\ Paged(MemorySpace(x))
  BY <1>1 DEF Reads, jtagRead, ByteRead, ByteCommand
<1>3. e.area = x /\ e.page = s /\ e.offset = o /\ e.n = n
  BY <1>2 DEF PageRead
<1>4. x \in Areas /\ a \in Nat /\ n \in Nat /\ n > 0 /\ OnOnePage(x, a, n)
  BY <1>2 DEF Shaped, RequestOK, AcrossPages
<1>5. P \in Nat \ {0} /\ PageSize[x] \in Nat \ {0} /\ P <= PageSize[x]
  BY <1>4, CarriedIs
<1>6. s \in Nat /\ o \in Nat /\ s + o = a /\ o + n <= P
  BY <1>4, <1>5, WithinPage DEF OnOnePage
<1>7. DOMAIN f.data = 0 .. PageSize[x] - 1 /\ x \in DOMAIN cache
  BY <1>4 DEF CacheOK
<1> HIDE DEF e, x, a, n, P, s, o
<1>8. agenda' = Rest /\ result' = <<>> \o g /\ f.page = s
  <2>1. \/ /\ Cached(x, s) /\ result' = result \o CopiedFrom(cache[x], o, n)
           /\ agenda' = Rest /\ UNCHANGED cache
        \/ /\ cache' = [cache EXCEPT ![x] = FilledCache(x, s)]
           /\ result' = result \o CopiedFrom(FilledCache(x, s), o, n)
           /\ agenda' = Rest
    BY <1>1, <1>3, Zenon DEF ReadPage
  <2>2. CASE /\ Cached(x, s) /\ result' = result \o CopiedFrom(cache[x], o, n)
             /\ agenda' = Rest /\ UNCHANGED cache
    <3>1. cache'[x] = cache[x] /\ cache[x].page = s
      BY <2>2 DEF Cached
    <3> QED  BY <1>2, <2>2, <3>1
  <2>3. CASE /\ cache' = [cache EXCEPT ![x] = FilledCache(x, s)]
             /\ result' = result \o CopiedFrom(FilledCache(x, s), o, n)
             /\ agenda' = Rest
    <3>1. cache'[x] = FilledCache(x, s)
      BY <1>7, <2>3
    <3>2. cache'[x].page = s
      BY <3>1 DEF FilledCache
    <3> QED  BY <1>2, <2>3, <3>1, <3>2
  <2> QED  BY <2>1, <2>2, <2>3
<1>9. /\ DOMAIN g = 1 .. n /\ g = [i \in 1 .. n |-> g[i]]
      /\ \A i \in 1 .. n : o + i - 1 \in DOMAIN f.data => g[i] = f.data[o + i - 1]
  BY DEF CopiedFrom
<1> HIDE DEF f, g
<1>10. result' = g
  <2> DEFINE S == {g[i] : i \in 1 .. n}
  <2>1. g \in [1 .. n -> S] /\ n \in Int
    BY <1>4, <1>9
  <2> HIDE DEF S
  <2>2. g \in Seq(S)
    BY <2>1, ListIs
  <2> QED  BY <1>8, <2>2, ConcatEmptySeq
<1>11. Wanted' = Wanted /\ Wanted = [i \in 1 .. n |-> mem[x][a + i - 1]]
  <2>1. Wanted' = Wanted
    BY SameReads
  <2> QED  BY <2>1 DEF Wanted, x, a, n
<1>12. CASE CacheFresh(x)'
  <2>1. Carried(x)' = P /\ f.page # NoPage
    BY <1>6, <1>8 DEF Carried, P, x, NoPage
  <2>2. \A i \in 0 .. P - 1 : f.data[i] = mem[x][s + i]
    BY <1>8, <1>12, <2>1 DEF CacheFresh, f, x
  <2>3. ASSUME NEW i \in 1 .. n
        PROVE  g[i] = mem[x][a + i - 1]
    <3> DEFINE k == o + i - 1
    <3>1. k \in 0 .. P - 1 /\ k \in 0 .. PageSize[x] - 1 /\ s + k = a + i - 1
      BY <1>4, <1>5, <1>6
    <3> HIDE DEF k
    <3>2. k \in DOMAIN f.data /\ f.data[k] = mem[x][s + k]
      BY <1>7, <2>2, <3>1 DEF f
    <3> QED  BY <1>9, <3>1, <3>2 DEF k
  <2>4. g = [i \in 1 .. n |-> mem[x][a + i - 1]]
    BY <1>9, <2>3
  <2>5. result' = Wanted'
    BY <1>10, <1>11, <2>4
  <2> QED  BY <1>8, <2>5 DEF Acceptable
<1>13. CASE ~CacheFresh(x)'
  <2>1. Paged(MemorySpace(x))' /\ x' = x
    BY <1>2, SameSpace DEF x
  <2>2. Acceptable'
    BY <1>13, <2>1 DEF Acceptable, x
  <2> QED  BY <1>8, <2>2
<1> QED  BY <1>12, <1>13

(* The bytes of a space without pages. *)
LEMMA ByteReads ==
  ASSUME TargetMemoryAssumption, IInv, Shaped, ReadBytes, ~Throw,
         UNCHANGED <<box, request, programmingEnabled, mem>>,
         request.cmd = "m", Reads(agenda[1])
  PROVE  \/ agenda' = Rest /\ Acceptable'
         \/ \E d : agenda' = <<d>> \o Rest /\ Reads(d)'
<1> DEFINE e == agenda[1]
           x == request.area
           a == request.addr
           n == request.n
           space == MemorySpace(x)
<1>1. Head(agenda) = e /\ e.do = "bytes"
  BY HeadIs DEF ReadBytes
<1>2. ~Paged(space) /\ \E t \in {0, 1} : e = ByteRead(x, a, n, t)
  BY <1>1 DEF Reads, jtagRead, PageRead
<1>3. PICK t \in {0, 1} : e = ByteRead(x, a, n, t)
  BY <1>2
<1>4. x \in Areas /\ a \in Nat /\ n \in Nat /\ n > 0
  BY DEF Shaped, RequestOK
<1> DEFINE skip == IF space = "SPM" THEN a % 2 ELSE 0
           even == IF space = "SPM" THEN n + (n % 2) ELSE n
<1>5. /\ e.area = x /\ e.asked = n /\ e.n = even /\ e.skip = skip /\ e.addr = a - skip
      /\ [e EXCEPT !.cnt = 1] = ByteRead(x, a, n, 1)
  BY <1>3 DEF ByteRead, ByteCommand
<1>6. /\ space' = space /\ Paged(space)' = Paged(space) /\ Wanted' = Wanted
      /\ x' = x /\ a' = a /\ n' = n
  BY SameSpace, SameReads
<1> HIDE DEF e, space
<1>7. \/ result' = BytesOf(e) /\ agenda' = Rest
      \/ agenda' = <<[e EXCEPT !.cnt = 1]>> \o Rest
  BY <1>1, Zenon DEF ReadBytes
<1>8. CASE agenda' = <<[e EXCEPT !.cnt = 1]>> \o Rest
  <2>1. PICK d : d = [e EXCEPT !.cnt = 1]
    OBVIOUS
  <2>2. Paged(MemorySpace(request.area))' = FALSE
    BY <1>2, <1>6 DEF space
  <2>3. d = ByteRead(request.area, request.addr, request.n, 1)'
    <3>1. ByteRead(x, a, n, 1)' = ByteRead(x, a, n, 1)
      BY <1>6 DEF ByteRead, space
    <3> QED  BY <1>5, <2>1, <3>1
  <2>4. Reads(d)'
    BY <2>2, <2>3 DEF Reads
  <2>5. agenda' = <<d>> \o Rest
    BY <1>8, <2>1
  <2> QED  BY <2>4, <2>5
<1>9. CASE result' = BytesOf(e) /\ agenda' = Rest
  <2>1. BytesOf(e) = [i \in 1 .. n |-> IF i <= even - skip THEN mem[x][a - skip + skip + i - 1]
                                       ELSE Junk]
    BY <1>4, <1>5 DEF BytesOf
  <2>2. /\ skip \in {0, 1} /\ even \in Nat /\ a - skip + skip = a
        /\ even - skip >= n \/ (space = "SPM" /\ a % 2 = 1 /\ n % 2 = 0)
    <3> DEFINE h == a % 2
               l == n % 2
    <3>1. h \in {0, 1} /\ l \in {0, 1} /\ a \in Nat /\ n \in Nat
      BY <1>4
    <3> HIDE DEF h, l, a, n
    <3>2. /\ skip = IF space = "SPM" THEN h ELSE 0
          /\ even = IF space = "SPM" THEN n + l ELSE n
      BY DEF h, l, a, n
    <3> HIDE DEF skip, even
    <3>3. CASE space = "SPM"
      <4>1. skip = h /\ even = n + l
        BY <3>2, <3>3
      <4>2. skip \in {0, 1} /\ even \in Nat /\ a - skip + skip = a
        BY <3>1, <4>1
      <4>3. even - skip >= n \/ (h = 1 /\ l = 0)
        BY <3>1, <4>1
      <4> QED  BY <3>3, <4>2, <4>3 DEF h, l
    <3>4. CASE space # "SPM"
      <4>1. skip = 0 /\ even = n
        BY <3>2, <3>4
      <4> QED  BY <3>1, <4>1
    <3> QED  BY <3>3, <3>4
  <2>3. Wanted = [i \in 1 .. n |-> mem[x][a + i - 1]]
    BY DEF Wanted
  <2>4. CASE even - skip >= n
    <3> HIDE DEF even, skip
    <3>1. \A i \in 1 .. n : i <= even - skip
      BY <1>4, <2>2, <2>4
    <3>2. BytesOf(e) = Wanted
      BY <2>1, <2>2, <2>3, <3>1
    <3>3. result' = Wanted'
      BY <1>6, <1>9, <3>2
    <3> QED  BY <1>9, <3>3 DEF Acceptable
  <2>5. CASE ~(even - skip >= n)
    <3>1. space = "SPM" /\ a % 2 = 1 /\ n % 2 = 0
      BY <2>2, <2>5, Zenon
    <3>2. Acceptable'
      BY <1>6, <3>1 DEF Acceptable, space
    <3> QED  BY <1>9, <3>2
  <2> QED  BY <2>4, <2>5
<1> QED  BY <1>7, <1>8, <1>9 DEF e

LEMMA ReaderIs ==
  ASSUME IInv, Work
  PROVE  /\ agenda[1].do = "jtagRead" => CallRead
         /\ agenda[1].do = "page" => ReadPage
         /\ agenda[1].do = "bytes" => ReadBytes
<1> DEFINE e == agenda[1]
<1>1. CASE CallWrite \/ ThrowText \/ EraseProgramMemory \/ WriteBytes
  <2>1. \/ Doing("jtagWrite") \/ Doing("throw") \/ Doing("erase") \/ Doing("write")
    BY <1>1 DEF CallWrite, ThrowText, EraseProgramMemory, WriteBytes
  <2>2. /\ Doing("jtagWrite") => e.do = "jtagWrite"
        /\ Doing("throw") => e.do = "throw"
        /\ Doing("erase") => e.do = "erase"
        /\ Doing("write") => e.do = "write"
    BY HeadIs
  <2>3. e.do \in {"jtagWrite", "throw", "erase", "write"}
    BY <2>1, <2>2
  <2> QED  BY <2>3
<1>2. CASE TryBlock \/ Answer
  <2>1. Doing("try") \/ Doing("catch") \/ Doing("reply")
    BY <1>2 DEF TryBlock, Answer
  <2>2. /\ Doing("try") => e.do = "try"
        /\ Doing("catch") => e.do = "catch"
        /\ Doing("reply") => e.do = "reply"
    BY HeadIs
  <2>3. e.do \in {"try", "catch", "reply"}
    BY <2>1, <2>2
  <2> QED  BY <2>3
<1>3. CASE enableProgramming \/ disableProgramming
  <2>1. Doing("enable") \/ Doing("disable")
    BY <1>3 DEF enableProgramming, disableProgramming, SetMode
  <2>2. /\ Doing("enable") => e.do = "enable"
        /\ Doing("disable") => e.do = "disable"
    BY HeadIs
  <2>3. e.do \in {"enable", "disable"}
    BY <2>1, <2>2
  <2> QED  BY <2>3
<1>4. CASE VerifyPage \/ Verified \/ GiveUp
  <2>1. Doing("verify") \/ Doing("verified") \/ Doing("give up")
    BY <1>4 DEF VerifyPage, Verified, GiveUp
  <2>2. /\ Doing("verify") => e.do = "verify"
        /\ Doing("verified") => e.do = "verified"
        /\ Doing("give up") => e.do = "give up"
    BY HeadIs
  <2>3. e.do \in {"verify", "verified", "give up"}
    BY <2>1, <2>2
  <2> QED  BY <2>3
<1>5. CASE CallRead
  <2>1. e.do = "jtagRead"
    BY <1>5, HeadIs DEF CallRead
  <2> QED  BY <1>5, <2>1
<1>6. CASE ReadPage
  <2>1. e.do = "page"
    BY <1>6, HeadIs DEF ReadPage
  <2> QED  BY <1>6, <2>1
<1>7. CASE ReadBytes
  <2>1. e.do = "bytes"
    BY <1>7, HeadIs DEF ReadBytes
  <2> QED  BY <1>7, <2>1
<1> QED  BY <1>1, <1>2, <1>3, <1>4, <1>5, <1>6, <1>7 DEF Work

(* jtagRead() is replaced by the command that reads. *)
LEMMA CallReads ==
  ASSUME TargetMemoryAssumption, IInv, Shaped, CallRead, Reads(agenda[1]), NoReader(Rest),
         UNCHANGED <<box, request, programmingEnabled, mem>>,
         request.cmd = "m", ~AcrossPages
  PROVE  Outcome(agenda)'
<1> DEFINE e == agenda[1]
           x == request.area
           a == request.addr
           n == request.n
           y == ReadCommands(x, a, n)
           c == IF Paged(MemorySpace(x)) THEN PageRead(x, a, n) ELSE ByteRead(x, a, n, 0)
<1>1. /\ e.do = "jtagRead" /\ result' = <<>>
      /\ agenda' = ReadCommands(e.area, e.addr, e.n) \o Rest
      /\ agenda # <<>>
  BY CallReadIs
<1>2. e = jtagRead(x, a, n)
  <2>1. PageRead(x, a, n).do = "page" /\ \A t : ByteRead(x, a, n, t).do = "bytes"
    BY DEF PageRead, ByteRead, ByteCommand
  <2>2. e # PageRead(x, a, n) /\ \A t : e # ByteRead(x, a, n, t)
    BY <1>1, <2>1
  <2> QED  BY <2>2, Zenon DEF Reads
<1>3. agenda' = y \o Rest
  BY <1>1, <1>2 DEF jtagRead
<1>4. x \in Areas /\ a \in Nat /\ n \in Nat /\ n > 0
      /\ (Paged(MemorySpace(x)) => OnOnePage(x, a, n))
  BY DEF Shaped, RequestOK, AcrossPages
<1>5. Sequenced(y) /\ Only(y, c)
  BY <1>4, ReadsOne, Zenon
<1>6. PICK d : d = c
  OBVIOUS
<1>7. Sequenced(Rest)
  BY <1>1, FirstIs
<1> HIDE DEF y, c
<1>8. Only(y \o Rest, d)
  BY <1>5, <1>6, <1>7, JoinReads
<1>9. /\ Paged(MemorySpace(x))' = Paged(MemorySpace(x))
      /\ PageRead(x, a, n)' = PageRead(x, a, n)
      /\ ByteRead(x, a, n, 0)' = ByteRead(x, a, n, 0)
  <2>1. /\ MemorySpace(x)' = MemorySpace(x)
        /\ Paged(MemorySpace(x))' = Paged(MemorySpace(x))
    BY SameSpace
  <2>2. PageRead(x, a, n)' = PageRead(x, a, n)
    BY DEF PageRead, Carried
  <2>3. ByteRead(x, a, n, 0)' = ByteRead(x, a, n, 0)
    BY <2>1 DEF ByteRead
  <2> QED  BY <2>1, <2>2, <2>3
<1>10. Reads(d)'
  <2>1. CASE Paged(MemorySpace(x))
    <3>1. d = PageRead(x, a, n)' /\ Paged(MemorySpace(x))'
      BY <1>6, <1>9, <2>1 DEF c
    <3> QED  BY <1>1, <3>1 DEF Reads
  <2>2. CASE ~Paged(MemorySpace(x))
    <3>1. d = ByteRead(x, a, n, 0)' /\ ~Paged(MemorySpace(x))'
      BY <1>6, <1>9, <2>2 DEF c
    <3> QED  BY <3>1 DEF Reads
  <2> QED  BY <2>1, <2>2
<1> QED  BY <1>3, <1>8, <1>10 DEF Outcome

LEMMA WorkReads ==
  ASSUME TargetMemoryAssumption, IInv, Shaped, ReadDue, Work
  PROVE  ReadDue'
<1>1. CacheOK' /\ CacheOK
  BY CacheKept DEF ReadDue, Next
<1>2. agenda # <<>> /\ UNCHANGED request
  BY WorkIs
<1> SUFFICES ASSUME request.cmd = "m", Promised(agenda', reply'), ~AcrossPages'
             PROVE  Outcome(agenda)'
  BY <1>1, <1>2 DEF ReadDue
<1> DEFINE e == agenda[1]
<1>3. UNCHANGED <<box, request, programmingEnabled, mem>>
  BY SameMode, SameMemory
<1>4. ~AcrossPages
  BY <1>3, SameReads
<1>5. /\ Promised(agenda, reply) /\ ~ThrowText
      /\ ~(Throw /\ e.do # "catch" /\ UNCHANGED reply)
  BY PromisedBefore DEF Accesses
<1>6. Outcome(agenda)
  BY <1>4, <1>5 DEF ReadDue
<1>7. Sequenced(agenda) /\ Sequenced(Rest) /\ Rest = Tail(agenda) /\ ~Writer(e)
  BY <1>2, FirstIs DEF Shaped, Shape, Rest, ElementOK
<1> HIDE DEF e
<1>8. ~CallWrite
  BY <1>7, CallWriteIs DEF Writer, e
<1>9. ~Reader(e) => agenda' = Rest
  <2>1. ~Reader(e) => ~CallRead /\ e.do # "bytes"
    BY CallReadIs DEF Reader, e
  <2> QED  BY <1>5, <1>8, <2>1, WorkCases, Zenon DEF e
<1>10. CASE Acceptable /\ NoReader(agenda)
  <2>1. ~Reader(e) /\ NoReader(Rest)
    BY <1>2, <1>7, <1>10, TailReads DEF e
  <2>2. UNCHANGED <<result, cache>>
    BY <2>1, OthersKeep DEF e
  <2>3. Acceptable'
    BY <1>3, <1>10, <2>2, SameReads
  <2> QED  BY <1>9, <2>1, <2>3 DEF Outcome
<1>11. CASE \E r : Reads(r) /\ Only(agenda, r)
  <2>1. PICK r : Reads(r) /\ Only(agenda, r)
    BY <1>11
  <2>2. \/ e = r /\ NoReader(Rest)
        \/ ~Reader(e) /\ Only(Rest, r)
    BY <1>2, <1>7, <2>1, TailReads DEF e
  <2>3. CASE ~Reader(e) /\ Only(Rest, r)
    <3>1. UNCHANGED <<result, cache>>
      BY <2>3, OthersKeep DEF e
    <3>2. Reads(r)'
      BY <1>3, <2>1, <3>1, SameReads
    <3>3. Only(agenda', r)
      BY <1>9, <2>3
    <3> QED  BY <3>2, <3>3 DEF Outcome
  <2>4. CASE e = r /\ NoReader(Rest)
    <3>1. Reads(e)
      BY <2>1, <2>4
    <3>2. e.do \in {"jtagRead", "page", "bytes"}
      BY <3>1 DEF Reads, jtagRead, PageRead, ByteRead, ByteCommand
    <3>3. CASE e.do = "jtagRead"
      <4>1. CallRead
        BY <3>3, ReaderIs DEF e
      <4> QED  BY <1>3, <1>4, <2>4, <3>1, <4>1, CallReads DEF e
    <3>4. CASE e.do = "page"
      <4>1. ReadPage
        BY <3>4, ReaderIs DEF e
      <4>2. UNCHANGED reply
        BY <4>1 DEF ReadPage
      <4>3. ~Throw
        BY <1>5, <3>4, <4>2
      <4>4. agenda' = Rest /\ Acceptable'
        BY <1>1, <1>3, <1>4, <3>1, <4>1, <4>3, PageReads DEF e
      <4> QED  BY <2>4, <4>4 DEF Outcome
    <3>5. CASE e.do = "bytes"
      <4>1. ReadBytes
        BY <3>5, ReaderIs DEF e
      <4>2. UNCHANGED reply
        BY <4>1 DEF ReadBytes
      <4>3. ~Throw
        BY <1>5, <3>5, <4>2
      <4>4. \/ agenda' = Rest /\ Acceptable'
            \/ \E d : agenda' = <<d>> \o Rest /\ Reads(d)'
        BY <1>3, <3>1, <4>1, <4>3, ByteReads DEF e
      <4>5. CASE agenda' = Rest /\ Acceptable'
        BY <2>4, <4>5 DEF Outcome
      <4>6. CASE \E d : agenda' = <<d>> \o Rest /\ Reads(d)'
        <5>1. PICK d : agenda' = <<d>> \o Rest /\ Reads(d)'
          BY <4>6
        <5>2. Sequenced(<<d>>) /\ Only(<<d>>, d)
          BY OneReads
        <5>3. Only(<<d>> \o Rest, d)
          BY <1>7, <2>4, <5>2, JoinReads
        <5> QED  BY <5>1, <5>3 DEF Outcome
      <4> QED  BY <4>4, <4>5, <4>6
    <3> QED  BY <3>2, <3>3, <3>4, <3>5
  <2> QED  BY <2>2, <2>3, <2>4
<1> QED  BY <1>6, <1>10, <1>11 DEF Outcome

LEMMA ReadMemoryReads ==
  ASSUME TargetMemoryAssumption, IInv, ReadDue, NEW x \in Areas, NEW r \in Ranges[x],
         ReadMemory(x, r[1], r[2])
  PROVE  ReadDue'
<1> DEFINE c == jtagRead(x, r[1], r[2])
           p == Do("reply")
           k == Do("catch")
           b == <<c, p, k>>
<1>1. CacheOK'
  BY DEF ReadDue, CacheOK, ReadMemory, Packet
<1>2. agenda' = b /\ request'.area = x /\ request'.addr = r[1] /\ request'.n = r[2]
  BY DEF ReadMemory, Packet
<1>3. PICK d : d = c
  OBVIOUS
<1>4. Reads(d)'
  BY <1>2, <1>3 DEF Reads, jtagRead
<1>5. ~Reader(p) /\ ~Reader(k)
  BY DEF Reader, Do
<1> HIDE DEF c, p, k
<1>6. DOMAIN b = 1 .. 3 /\ b[1] = c /\ b[2] = p /\ b[3] = k
  OBVIOUS
<1> HIDE DEF b
<1>7. \A j \in DOMAIN b : j # 1 => ~Reader(b[j])
  BY <1>5, <1>6
<1>8. Only(b, d)
  BY <1>3, <1>6, <1>7 DEF Only
<1>9. Outcome(agenda)'
  BY <1>2, <1>4, <1>8 DEF Outcome
<1> QED  BY <1>1, <1>9 DEF ReadDue

LEMMA NextReads ==
  ASSUME TargetMemoryAssumption, IInv, Shaped, ReadDue, [Next]_vars
  PROVE  ReadDue'
<1>1. CacheOK' /\ CacheOK
  BY CacheKept DEF ReadDue
<1>2. ASSUME NEW cmd, cmd # "m", request'.cmd = cmd
      PROVE  ReadDue'
  BY <1>1, <1>2 DEF ReadDue
<1>3. ASSUME UNCHANGED <<box, programmingEnabled, mem, agenda, request, reply, result, cache>>
      PROVE  ReadDue'
  <2>1. /\ AcrossPages' <=> AcrossPages
        /\ \A e : Reads(e) => Reads(e)'
        /\ Acceptable => Acceptable'
    BY <1>3, SameReads
  <2>2. Outcome(agenda) => Outcome(agenda)'
    BY <1>3, <2>1 DEF Outcome
  <2> QED  BY <1>1, <1>3, <2>1, <2>2 DEF ReadDue
<1>4. CASE \E k \in DOMAIN Options, program, verify \in BOOLEAN :
             TakeOption(k, program, verify)
  <2>1. PICK k \in DOMAIN Options, program \in BOOLEAN, verify \in BOOLEAN :
               TakeOption(k, program, verify)
    BY <1>4
  <2>2. request'.cmd = Options[k] /\ Options[k] # "m"
    BY <2>1 DEF TakeOption, Options, NoRequest
  <2> QED  BY <1>2, <2>2
<1>5. CASE Serve
  BY <1>3, <1>5 DEF Serve, answer, mode
<1>6. CASE \E x \in Areas : \E r \in Ranges[x] : ReadMemory(x, r[1], r[2])
  BY <1>6, ReadMemoryReads
<1>7. CASE \E x \in Areas : \E r \in Ranges[x] : WriteMemory(x, r[1], r[2])
  <2>1. PICK x \in Areas : \E r \in Ranges[x] : WriteMemory(x, r[1], r[2])
    BY <1>7
  <2>2. PICK r \in Ranges[x] : WriteMemory(x, r[1], r[2])
    BY <2>1
  <2>3. PICK todo : Packet("M", x, r[1], r[2], todo)
    BY <2>2, Zenon DEF WriteMemory
  <2>4. request'.cmd = "M"
    BY <2>3 DEF Packet
  <2> QED  BY <1>2, <2>4
<1>8. CASE FlashErase
  <2>1. request'.cmd = "vFlashErase"
    BY <1>8 DEF FlashErase, Packet
  <2> QED  BY <1>2, <2>1
<1>9. CASE \E r \in Ranges["flash"] : FlashWrite(r[1], r[2])
  <2>1. request'.cmd = "vFlashWrite"
    BY <1>9 DEF FlashWrite, Packet
  <2> QED  BY <1>2, <2>1
<1>10. CASE FlashDone
  <2>1. request'.cmd = "vFlashDone"
    BY <1>10 DEF FlashDone, Packet
  <2> QED  BY <1>2, <2>1
<1>11. CASE UNCHANGED vars
  BY <1>3, <1>11 DEF vars, answer, mode
<1> QED
  BY <1>4, <1>5, <1>6, <1>7, <1>8, <1>9, <1>10, <1>11, WorkReads DEF Next

(* ReadsSound: what GDB reads is what is in the memory, through a page, the *)
(* page's cache, words of SPM or bytes, as far as the code gets it right:   *)
(* not across the end of a page, not from a cache that was written behind,  *)
(* and not an even count of words from an odd address.                     *)
THEOREM ReadRight == Spec => []ReadsSound
<1>1. Init => ReadDue
  <2> SUFFICES ASSUME Init PROVE ReadDue
    OBVIOUS
  <2>1. request.cmd = "none"
    BY DEF Init, NoRequest
  <2>2. CacheOK
    BY DEF Init, CacheOK
  <2> QED  BY <2>1, <2>2 DEF ReadDue
<1>2. IInv /\ Shaped /\ ReadDue /\ [Next]_vars => ReadDue'
  BY TargetMemoryAssumption, NextReads
<1>3. ReadDue => ReadsSound
  <2> SUFFICES ASSUME ReadDue, Answered("m") PROVE AcrossPages \/ Acceptable
    BY DEF ReadsSound, AcrossPages, Acceptable
  <2> SUFFICES ASSUME ~AcrossPages PROVE Acceptable
    OBVIOUS
  <2>1. agenda = <<>> /\ DOMAIN <<>> = {} /\ request.cmd = "m" /\ reply = "ok"
    BY DEF Answered, Idle
  <2>2. Promised(agenda, reply)
    BY <2>1 DEF Promised
  <2>3. Outcome(agenda)
    BY <2>1, <2>2 DEF ReadDue
  <2>4. \A e : ~Only(agenda, e)
    BY <2>1 DEF Only
  <2> QED  BY <2>3, <2>4 DEF Outcome
<1> QED  BY <1>1, <1>2, <1>3, ShapeInvariant, PTL DEF Spec

-----------------------------------------------------------------------------
(* What a verified download leaves in the target.                          *)

(* What finds out about the target, or is not to be passed over. *)
Looks(e) ==
  e.do \in {"jtagRead", "page", "bytes", "verify", "verified", "reply", "give up"}

(* What the handler of an error passes over looks at nothing. *)
BlocksOK(a) ==
  \A j, k \in DOMAIN a : j < k /\ Looks(a[j]) /\ a[k].do = "catch" =>
    \E l \in DOMAIN a : j < l /\ l < k /\ a[l].do = "try"

(* What may change memory x (a write of the flash may erase the target), *)
(* and what tells of it.                                                  *)
Upsets(e, x) ==
  \/ e.do = "erase"
  \/ e.do \in {"jtagWrite", "write"} /\ e.area = x
  \/ e.do = "jtagWrite" /\ e.area = "flash"

Tells(e, x) == e.do \in {"jtagRead", "page", "bytes", "verify"} /\ e.area = x

Calm(a, x) == \A i \in DOMAIN a : ~Upsets(a[i], x)

(* A memory is not changed any more when it is read back. *)
OrderOK(a) ==
  \A x \in Areas : \A i, j \in DOMAIN a : i < j /\ Tells(a[i], x) => ~Upsets(a[j], x)

FreshOK ==
  \A x \in Areas : CacheFresh(x) /\ (cache[x].page = NoPage \/ Calm(agenda, x))

(* The answer is given or to come. *)
Live(a, r) == r = "ok" \/ \E i \in DOMAIN a : a[i].do = "reply"

(* At h the page at addr is compared, and then the outcome is looked at. *)
Judged(a, h, x, addr) ==
  /\ h \in DOMAIN a /\ a[h] = [do |-> "verify", area |-> x, addr |-> addr]
  /\ \E l \in DOMAIN a : l > h /\ a[l].do = "verified"

(* The page is still to be read. *)
Asked(a, x, addr) ==
  \E i \in DOMAIN a : a[i] = jtagRead(x, addr, PageSize[x]) /\ Judged(a, i + 1, x, addr)

(* The page is being read, in one command or in blocks, the k-th by e. *)
Chunk(x, paged) == IF paged THEN Carried(x) ELSE PageSize[x]
Chunks(x, paged) == PageSize[x] \div Chunk(x, paged)

Fetches(e, x, addr, paged, k) ==
  IF paged
    THEN /\ e.do = "page" /\ e.area = x /\ e.page = addr + (k - 1) * Carried(x)
         /\ e.offset = 0 /\ e.n = Carried(x)
    ELSE /\ e.do = "bytes" /\ e.area = x /\ e.asked = PageSize[x]
         /\ e.addr + e.skip = addr /\ e.n - e.skip \in Nat /\ e.n - e.skip >= PageSize[x]

(* k blocks are fetched, the others come behind s, and all before h. *)
Coming(a, x, addr, paged, k, s, h) ==
  LET left == Chunks(x, paged) - k
  IN  /\ Judged(a, h, x, addr) /\ left >= 0 /\ s + left < h
      /\ \A j \in 1 .. h - 1 : IF s < j /\ j <= s + left
                                 THEN Fetches(a[j], x, addr, paged, k + j - s)
                                 ELSE Switch(a[j])

Fetched(res, m, x, addr, n) == res = [i \in 1 .. n |-> m[x][addr + i - 1]]

Under(a, res, m, x, addr) ==
  \E paged \in BOOLEAN : \E k, s, h \in Nat :
    /\ Coming(a, x, addr, paged, k, s, h)
    /\ Fetched(res, m, x, addr, k * Chunk(x, paged))

(* The byte is there to stay. *)
Settled(a, m, x, c) == m[x][c] = ImageByte(x, c) /\ Calm(a, x)

CellChecked(a, res, m, ver, x, c) ==
  \/ Asked(a, x, PageStart(c, PageSize[x]))
  \/ Under(a, res, m, x, PageStart(c, PageSize[x]))
  \/ (\E l \in DOMAIN a : a[l].do = "verified") /\ (ver => Settled(a, m, x, c))
  \/ Settled(a, m, x, c)
  \/ a # <<>> /\ a[1].do = "give up"

NoPages(a) == \A i \in DOMAIN a : \A x \in Areas : ~Tells(a[i], x)

AllChecked(a, res, m, ver) ==
  \A x \in Areas : \A c \in Image[x] : CellChecked(a, res, m, ver, x, c)

(* Before the download no page was read.  While it is under way, its steps  *)
(* are in order, the caches hold what they name, and for each byte of the  *)
(* file there is the comparison to come or the byte in the target.         *)
DownloadDue ==
  /\ stage < 6 => BlocksOK(agenda) /\ NoPages(agenda) /\ \A x \in Areas : cache[x].page = NoPage
  /\ request.cmd = "download" =>
       /\ BlocksOK(agenda) /\ OrderOK(agenda) /\ FreshOK
       /\ request.n = 1 /\ Live(agenda, reply) => AllChecked(agenda, result, mem, verified)

(* b is a without its first k elements, behind n others. *)
Moves(a, b, k, n) ==
  /\ k \in Nat /\ n \in Nat /\ Len(a) \in Nat /\ DOMAIN a = 1 .. Len(a) /\ k <= Len(a)
  /\ DOMAIN b = 1 .. Len(a) - k + n
  /\ \A i \in DOMAIN a : i > k => b[i - k + n] = a[i]

LEMMA MovedIs ==
  ASSUME NEW a, NEW b, NEW k, NEW n, Moves(a, b, k, n)
  PROVE  /\ \A i \in DOMAIN a : i > k => i - k + n \in DOMAIN b /\ b[i - k + n] = a[i]
         /\ \A i \in DOMAIN b : i > n => /\ i - n + k \in DOMAIN a /\ i - n + k > k
                                         /\ b[i] = a[i - n + k]
<1>1. /\ k \in Nat /\ n \in Nat /\ Len(a) \in Nat /\ DOMAIN a = 1 .. Len(a) /\ k <= Len(a)
      /\ DOMAIN b = 1 .. Len(a) - k + n
      /\ \A i \in DOMAIN a : i > k => b[i - k + n] = a[i]
  BY DEF Moves
<1>2. ASSUME NEW i \in DOMAIN a, i > k
      PROVE  i - k + n \in DOMAIN b
  BY <1>1, <1>2
<1>3. ASSUME NEW i \in DOMAIN b, i > n
      PROVE  i - n + k \in DOMAIN a /\ i - n + k > k /\ b[i] = a[i - n + k]
  <2>1. i \in Int /\ 1 <= i /\ i <= Len(a) - k + n
    BY <1>1, <1>3
  <2>2. i - n + k \in 1 .. Len(a)
    BY <1>1, <1>3, <2>1
  <2>3. i - n + k > k /\ i - n + k - k + n = i
    BY <1>1, <1>3, <2>1
  <2>4. i - n + k \in DOMAIN a
    BY <1>1, <2>2
  <2> QED  BY <1>1, <2>3, <2>4
<1> QED  BY <1>1, <1>2, <1>3

(* The head replaced by w; what Throw leaves. *)
LEMMA ReplacedMoves ==
  ASSUME NEW a, Sequenced(a), a # <<>>, NEW w, Sequenced(w)
  PROVE  /\ Moves(a, w \o Tail(a), 1, Len(w))
         /\ \A i \in 1 .. Len(w) : i \in DOMAIN w /\ (w \o Tail(a))[i] = w[i]
<1>1. Len(a) \in Nat /\ DOMAIN a = 1 .. Len(a) /\ Len(w) \in Nat /\ DOMAIN w = 1 .. Len(w)
  BY SequencedHas
<1>2. PICK t : t = Tail(a)
  OBVIOUS
<1>3. /\ Len(a) >= 1 /\ Sequenced(t) /\ Len(t) = Len(a) - 1 /\ DOMAIN t = 1 .. Len(a) - 1
      /\ \A i \in DOMAIN t : t[i] = a[i + 1]
  <2> DEFINE S == {a[i] : i \in DOMAIN a}
  <2>1. a \in Seq(S)
    BY DEF Sequenced
  <2> HIDE DEF S
  <2>2. /\ Len(a) >= 1 /\ t \in Seq(S) /\ Len(t) = Len(a) - 1
        /\ \A i \in 1 .. Len(a) - 1 : t[i] = a[i + 1]
    BY <1>1, <1>2, <2>1
  <2>3. Sequenced(t) /\ DOMAIN t = 1 .. Len(t)
    BY <2>2, SequencedIs
  <2> QED  BY <2>2, <2>3
<1> DEFINE b == w \o t
<1>5. /\ DOMAIN b = 1 .. Len(w) + Len(t)
      /\ \A i \in DOMAIN w : i \in DOMAIN b /\ b[i] = w[i]
      /\ \A i \in DOMAIN t : b[Len(w) + i] = t[i]
  <2>1. Sequenced(w) /\ Sequenced(t)
    BY <1>3
  <2> QED  BY <2>1, JoinIs, SequencedHas
<1> HIDE DEF b
<1>6. DOMAIN b = 1 .. Len(a) - 1 + Len(w)
  BY <1>1, <1>3, <1>5
<1>7. ASSUME NEW i \in DOMAIN a, i > 1
      PROVE  b[i - 1 + Len(w)] = a[i]
  <2>1. i - 1 \in DOMAIN t /\ i - 1 + 1 = i /\ Len(w) + (i - 1) = i - 1 + Len(w)
    BY <1>1, <1>3, <1>7
  <2> QED  BY <1>3, <1>5, <2>1
<1>8. Moves(a, b, 1, Len(w))
  BY <1>1, <1>3, <1>6, <1>7 DEF Moves
<1> QED  BY <1>1, <1>2, <1>5, <1>8 DEF b

LEMMA TailMoves ==
  ASSUME NEW a, Sequenced(a), a # <<>>
  PROVE  Moves(a, Tail(a), 1, 0)
<1> DEFINE S == {a[i] : i \in DOMAIN a}
           t == Tail(a)
<1>1. a \in Seq(S) /\ Len(a) \in Nat /\ DOMAIN a = 1 .. Len(a)
  BY SequencedHas DEF Sequenced
<1> HIDE DEF S
<1>2. /\ Len(a) >= 1 /\ t \in Seq(S) /\ Len(t) = Len(a) - 1
      /\ \A i \in 1 .. Len(a) - 1 : t[i] = a[i + 1]
  BY <1>1
<1>3. DOMAIN t = 1 .. Len(t)
  BY <1>2, SequencedIs
<1> HIDE DEF t
<1>4. DOMAIN t = 1 .. Len(a) - 1 + 0
  BY <1>1, <1>2, <1>3
<1>5. ASSUME NEW i \in DOMAIN a, i > 1
      PROVE  t[i - 1 + 0] = a[i]
  <2>1. i - 1 \in 1 .. Len(a) - 1 /\ i - 1 + 1 = i /\ i - 1 + 0 = i - 1
    BY <1>1, <1>5
  <2> QED  BY <1>2, <2>1
<1> QED  BY <1>1, <1>2, <1>4, <1>5 DEF Moves, t

(* d does nothing that e does not announce. *)
Stands(d, e) ==
  /\ d.do \notin {"catch", "reply"} /\ (Looks(d) => Looks(e))
  /\ \A x : (Tells(d, x) => Tells(e, x)) /\ (Upsets(d, x) => Upsets(e, x))

Follows(a, b, k, n) ==
  Moves(a, b, k, n) /\ \A i \in 1 .. n : k \in DOMAIN a /\ Stands(b[i], a[k])

LEMMA FollowsIs ==
  ASSUME NEW a, NEW b, NEW k, NEW n, Follows(a, b, k, n)
  PROVE  /\ k \in Nat /\ n \in Nat /\ DOMAIN a \subseteq Int /\ DOMAIN b \subseteq Int
         /\ \A i \in DOMAIN a : i > k => i - k + n \in DOMAIN b /\ b[i - k + n] = a[i]
         /\ \A i \in DOMAIN b :
              \/ i <= n /\ k \in DOMAIN a /\ Stands(b[i], a[k])
              \/ i > n /\ i - n + k \in DOMAIN a /\ i - n + k > k /\ b[i] = a[i - n + k]
<1>1. Moves(a, b, k, n) /\ \A i \in 1 .. n : k \in DOMAIN a /\ Stands(b[i], a[k])
  BY DEF Follows
<1>2. /\ k \in Nat /\ n \in Nat /\ Len(a) \in Nat /\ DOMAIN a = 1 .. Len(a)
      /\ DOMAIN b = 1 .. Len(a) - k + n
  BY <1>1 DEF Moves
<1>3. /\ DOMAIN a \subseteq Int /\ DOMAIN b \subseteq Int
      /\ \A i \in DOMAIN b : i >= 1
  BY <1>2
<1>4. ASSUME NEW i \in DOMAIN b
      PROVE  \/ i <= n /\ k \in DOMAIN a /\ Stands(b[i], a[k])
             \/ i > n /\ i - n + k \in DOMAIN a /\ i - n + k > k /\ b[i] = a[i - n + k]
  <2>1. CASE i <= n
    <3>1. i \in 1 .. n
      BY <1>2, <1>3, <2>1
    <3> QED  BY <1>1, <2>1, <3>1
  <2>2. CASE i > n
    BY <1>1, <2>2, MovedIs
  <2> QED  BY <1>2, <1>3, <2>1, <2>2
<1>5. \A i \in DOMAIN a : i > k => i - k + n \in DOMAIN b /\ b[i - k + n] = a[i]
  BY <1>1, MovedIs
<1> QED  BY <1>2, <1>3, <1>4, <1>5

LEMMA CalmFollows ==
  ASSUME NEW a, NEW b, NEW k, NEW n, Follows(a, b, k, n), NEW x, Calm(a, x)
  PROVE  Calm(b, x)
<1> SUFFICES ASSUME NEW i \in DOMAIN b PROVE ~Upsets(b[i], x)
  BY DEF Calm
<1>1. \E j \in DOMAIN a : Upsets(b[i], x) => Upsets(a[j], x)
  <2>1. \/ k \in DOMAIN a /\ Stands(b[i], a[k])
        \/ i - n + k \in DOMAIN a /\ b[i] = a[i - n + k]
    BY FollowsIs
  <2>2. CASE k \in DOMAIN a /\ Stands(b[i], a[k])
    BY <2>2 DEF Stands
  <2>3. CASE i - n + k \in DOMAIN a /\ b[i] = a[i - n + k]
    BY <2>3
  <2> QED  BY <2>1, <2>2, <2>3
<1> QED  BY <1>1 DEF Calm

LEMMA OrderFollows ==
  ASSUME NEW a, NEW b, NEW k, NEW n, Follows(a, b, k, n), OrderOK(a)
  PROVE  OrderOK(b)
<1> SUFFICES ASSUME NEW x \in Areas, NEW i \in DOMAIN b, NEW j \in DOMAIN b, i < j,
                    Tells(b[i], x)
             PROVE  ~Upsets(b[j], x)
  BY DEF OrderOK
<1>1. /\ k \in Nat /\ n \in Nat /\ i \in Int /\ j \in Int
      /\ \/ i <= n /\ k \in DOMAIN a /\ Stands(b[i], a[k])
         \/ i > n /\ i - n + k \in DOMAIN a /\ b[i] = a[i - n + k]
      /\ \/ j <= n /\ Stands(b[j], a[k])
         \/ j > n /\ j - n + k \in DOMAIN a /\ j - n + k > k /\ b[j] = a[j - n + k]
  BY FollowsIs
<1>2. \A p, q \in DOMAIN a : p < q /\ Tells(a[p], x) => ~Upsets(a[q], x)
  BY DEF OrderOK
<1>3. CASE j <= n /\ Stands(b[j], a[k])
  <2>1. Stands(b[i], a[k])
    BY <1>1, <1>3
  <2>2. Tells(a[k], x) /\ (Upsets(b[j], x) => Upsets(a[k], x))
    BY <1>3, <2>1 DEF Stands
  <2>3. ~(Tells(a[k], x) /\ Upsets(a[k], x))
    BY DEF Tells, Upsets
  <2> QED  BY <2>2, <2>3
<1>4. CASE j > n /\ j - n + k \in DOMAIN a /\ j - n + k > k /\ b[j] = a[j - n + k]
  <2>1. CASE i <= n /\ k \in DOMAIN a /\ Stands(b[i], a[k])
    <3>1. Tells(a[k], x) /\ k < j - n + k
      BY <1>1, <1>4, <2>1 DEF Stands
    <3> QED  BY <1>2, <1>4, <2>1, <3>1
  <2>2. CASE i > n /\ i - n + k \in DOMAIN a /\ b[i] = a[i - n + k]
    <3>1. i - n + k < j - n + k
      BY <1>1
    <3> QED  BY <1>2, <1>4, <2>2, <3>1
  <2> QED  BY <1>1, <2>1, <2>2
<1> QED  BY <1>1, <1>3, <1>4

LEMMA BlocksFollow ==
  ASSUME NEW a, NEW b, NEW k, NEW n, Follows(a, b, k, n), BlocksOK(a)
  PROVE  BlocksOK(b)
<1> SUFFICES ASSUME NEW i \in DOMAIN b, NEW j \in DOMAIN b, i < j, Looks(b[i]),
                    b[j].do = "catch"
             PROVE  \E l \in DOMAIN b : i < l /\ l < j /\ b[l].do = "try"
  BY DEF BlocksOK
<1>1. /\ k \in Nat /\ n \in Nat /\ i \in Int /\ j \in Int /\ DOMAIN a \subseteq Int
      /\ \/ i <= n /\ k \in DOMAIN a /\ Stands(b[i], a[k])
         \/ i > n /\ i - n + k \in DOMAIN a /\ i - n + k > k /\ b[i] = a[i - n + k]
      /\ \/ j <= n /\ Stands(b[j], a[k])
         \/ j > n /\ j - n + k \in DOMAIN a /\ j - n + k > k /\ b[j] = a[j - n + k]
  BY FollowsIs
<1>2. j > n /\ j - n + k \in DOMAIN a /\ j - n + k > k /\ b[j] = a[j - n + k]
  BY <1>1 DEF Stands
<1>3. PICK p \in DOMAIN a : /\ Looks(a[p]) /\ p < j - n + k /\ p >= k
                            /\ i > n => p = i - n + k
  <2>1. CASE i <= n /\ k \in DOMAIN a /\ Stands(b[i], a[k])
    <3>1. Looks(a[k]) /\ k < j - n + k /\ k >= k /\ ~(i > n)
      BY <1>1, <1>2, <2>1 DEF Stands
    <3> QED  BY <2>1, <3>1
  <2>2. CASE i > n /\ i - n + k \in DOMAIN a /\ i - n + k > k /\ b[i] = a[i - n + k]
    <3>1. i - n + k < j - n + k /\ i - n + k >= k
      BY <1>1, <2>2
    <3> QED  BY <2>2, <3>1
  <2> QED  BY <1>1, <2>1, <2>2
<1>4. PICK l \in DOMAIN a : p < l /\ l < j - n + k /\ a[l].do = "try"
  BY <1>2, <1>3 DEF BlocksOK
<1>5. l > k /\ p \in Int /\ l \in Int
  BY <1>1, <1>3, <1>4
<1>6. l - k + n \in DOMAIN b /\ b[l - k + n] = a[l]
  BY <1>5, FollowsIs
<1>7. i < l - k + n /\ l - k + n < j
  BY <1>1, <1>3, <1>4, <1>5
<1> QED  BY <1>4, <1>6, <1>7

(* What an error passes over. *)
Passes(a, b, k) ==
  /\ Moves(a, b, k, 0) /\ k >= 1 /\ a[k].do = "catch"
  /\ \A j \in 1 .. k : ~Looks(a[j])

LEMMA ThrowLeaves ==
  ASSUME Sequenced(agenda), BlocksOK(agenda), Throw, agenda' # <<>>
  PROVE  \E k \in Nat : Passes(agenda, agenda', k)
<1> DEFINE catches == {k \in DOMAIN agenda :
                        /\ agenda[k].do = "catch"
                        /\ \A j \in 1 .. k : agenda[j].do # "try"}
           k == CHOOSE k \in catches : \A j \in catches : k <= j
           u == agenda'
<1>1. /\ Sequenced(agenda)
      /\ DOMAIN agenda = 1 .. Len(agenda) /\ Len(agenda) \in Nat
  BY SequencedHas
<1>2. catches # {} /\ agenda' = SubSeq(agenda, k + 1, Len(agenda))
  BY Zenon DEF Throw
<1>3. k \in catches
  <2>1. catches \subseteq Nat
    BY <1>1
  <2> HIDE DEF catches
  <2> QED  BY <1>2, <2>1, MinIsLeast, Zenon
<1> HIDE DEF k, u
<1>4. /\ k \in DOMAIN agenda /\ k \in 0 .. Len(agenda) /\ k \in Nat /\ k >= 1
      /\ agenda[k].do = "catch"
      /\ \A j \in 1 .. k : agenda[j].do # "try"
  BY <1>1, <1>3
<1>5. u = SubSeq(agenda, k + 1, Len(agenda))
  BY <1>2 DEF u
<1>6. /\ DOMAIN u = 1 .. Len(agenda) - k
      /\ \A i \in DOMAIN u : i + k \in DOMAIN agenda /\ u[i] = agenda[i + k]
  <2>1. Sequenced(agenda) /\ k \in 0 .. Len(agenda)
    BY <1>1, <1>4
  <2> QED  BY <1>5, <2>1, RestIs, ZenonT(60)
<1>7. ASSUME NEW i \in DOMAIN agenda, i > k
      PROVE  u[i - k + 0] = agenda[i]
  <2>1. i \in Int /\ i <= Len(agenda)
    BY <1>1
  <2>2. i - k \in 1 .. Len(agenda) - k /\ i - k + k = i /\ i - k + 0 = i - k
    BY <1>1, <1>4, <1>7, <2>1
  <2> QED  BY <1>6, <2>2
<1>8. DOMAIN u = 1 .. Len(agenda) - k + 0
  BY <1>1, <1>4, <1>6
<1>9. Moves(agenda, u, k, 0)
  BY <1>1, <1>4, <1>7, <1>8 DEF Moves
<1>10. ASSUME NEW j \in 1 .. k
       PROVE  ~Looks(agenda[j])
  <2>1. j \in DOMAIN agenda /\ j \in Int /\ j <= k
    BY <1>1, <1>4
  <2>2. CASE j = k
    BY <1>4, <2>2 DEF Looks
  <2>3. CASE j < k
    <3>1. ASSUME NEW l \in DOMAIN agenda, j < l, l < k
          PROVE  agenda[l].do # "try"
      <4>1. l \in 1 .. k
        BY <1>1, <1>4, <3>1
      <4> QED  BY <1>4, <4>1
    <3> QED  BY <1>4, <2>1, <2>3, <3>1 DEF BlocksOK
  <2> QED  BY <1>4, <2>1, <2>2, <2>3
<1> QED  BY <1>4, <1>9, <1>10 DEF Passes, u

LEMMA JudgedMoves ==
  ASSUME NEW a, NEW b, NEW k, NEW n, Moves(a, b, k, n), NEW x, NEW addr,
         NEW h \in Int, h > k, Judged(a, h, x, addr)
  PROVE  Judged(b, h - k + n, x, addr)
<1>1. /\ h \in DOMAIN a /\ a[h] = [do |-> "verify", area |-> x, addr |-> addr]
      /\ \E l \in DOMAIN a : l > h /\ a[l].do = "verified"
  BY DEF Judged
<1>2. PICK l \in DOMAIN a : l > h /\ a[l].do = "verified"
  BY <1>1
<1>3. k \in Nat /\ n \in Nat /\ DOMAIN a \subseteq Int
  BY DEF Moves
<1>4. l > k /\ l - k + n > h - k + n
  BY <1>2, <1>3
<1>5. /\ h - k + n \in DOMAIN b /\ b[h - k + n] = a[h]
      /\ l - k + n \in DOMAIN b /\ b[l - k + n] = a[l]
  BY <1>1, <1>2, <1>4, MovedIs
<1> QED  BY <1>1, <1>2, <1>4, <1>5 DEF Judged

LEMMA AskedMoves ==
  ASSUME NEW a, NEW b, NEW k, NEW n, Moves(a, b, k, n), NEW x, NEW addr,
         NEW i \in DOMAIN a, i > k, a[i] = jtagRead(x, addr, PageSize[x]),
         Judged(a, i + 1, x, addr)
  PROVE  Asked(b, x, addr)
<1>1. k \in Nat /\ n \in Nat /\ i \in Int
  BY DEF Moves
<1>2. i - k + n \in DOMAIN b /\ b[i - k + n] = a[i]
  BY MovedIs
<1>3. Judged(b, i - k + n + 1, x, addr)
  <2>1. PICK g \in Int : g = i + 1
    BY <1>1
  <2>2. g > k /\ g - k + n = i - k + n + 1
    BY <1>1, <2>1
  <2>3. Judged(a, g, x, addr)
    BY <2>1
  <2>4. Judged(b, g - k + n, x, addr)
    BY <2>2, <2>3, JudgedMoves
  <2> QED  BY <2>2, <2>4
<1> QED  BY <1>2, <1>3 DEF Asked

(* The page e asks for is copied from the cache, which may be filled first. *)
Copied(e) ==
  \/ /\ Cached(e.area, e.page) /\ UNCHANGED cache
     /\ result' = result \o CopiedFrom(cache[e.area], e.offset, e.n)
  \/ /\ cache' = [cache EXCEPT ![e.area] = FilledCache(e.area, e.page)]
     /\ result' = result \o CopiedFrom(FilledCache(e.area, e.page), e.offset, e.n)

(* The steps of the work, with what each leaves alone. *)
LEMMA StepCases ==
  ASSUME IInv, Work, NEW e, e = agenda[1]
  PROVE  \/ CallRead
         \/ CallWrite
         \/ ThrowText
         \/ Throw /\ e.do # "catch" /\ UNCHANGED <<reply, mem, result, verified, cache>>
         \/ /\ e.do = "bytes" /\ agenda' = <<[e EXCEPT !.cnt = 1]>> \o Rest
            /\ UNCHANGED <<reply, mem, result, verified, cache>>
         \/ /\ e.do \in {"try", "catch", "enable", "disable", "reply"} /\ agenda' = Rest
            /\ UNCHANGED <<mem, result, verified, cache>>
         \/ /\ e.do \in {"erase", "write"} /\ agenda' = Rest
            /\ UNCHANGED <<reply, result, verified, cache>>
         \/ /\ e.do = "page" /\ agenda' = Rest /\ Copied(e)
            /\ UNCHANGED <<reply, mem, verified>>
         \/ /\ e.do = "bytes" /\ agenda' = Rest /\ result' = BytesOf(e)
            /\ UNCHANGED <<reply, mem, verified, cache>>
         \/ /\ e.do = "verify" /\ agenda' = Rest
            /\ UNCHANGED <<reply, mem, result, cache>>
            /\ verified' = (verified /\ \A i \in DOMAIN result :
                               e.addr + i - 1 \in Image[e.area] =>
                                 result[i] = ImageByte(e.area, e.addr + i - 1))
         \/ /\ e.do = "verified" /\ verified /\ agenda' = Rest
            /\ UNCHANGED <<reply, mem, result, verified, cache>>
<1>1. CASE TryBlock \/ Answer
  <2>1. Doing("try") \/ Doing("catch") \/ Doing("reply")
    BY <1>1 DEF TryBlock, Answer
  <2>2. /\ Doing("try") => e.do = "try"
        /\ Doing("catch") => e.do = "catch"
        /\ Doing("reply") => e.do = "reply"
    BY HeadIs
  <2>3. e.do \in {"try", "catch", "enable", "disable", "reply"}
    BY <2>1, <2>2
  <2>4. agenda' = Rest /\ UNCHANGED <<mem, result, verified, cache>>
    BY <1>1 DEF TryBlock, Answer, answer
  <2> QED  BY <2>3, <2>4
<1>2. CASE enableProgramming \/ disableProgramming
  <2>1. PICK on \in BOOLEAN : SetMode(on)
    BY <1>2 DEF enableProgramming, disableProgramming
  <2>2. e.do \in {"enable", "disable"}
    BY <2>1, HeadIs DEF SetMode
  <2>3. UNCHANGED <<reply, mem, result, verified, cache>>
    BY <2>1 DEF SetMode, answer
  <2>4. agenda' = Rest \/ Throw
    BY <2>1 DEF SetMode
  <2> QED  BY <2>2, <2>3, <2>4
<1>3. CASE EraseProgramMemory
  <2>1. e.do = "erase"
    BY <1>3, HeadIs DEF EraseProgramMemory
  <2>2. UNCHANGED <<reply, result, verified, cache>>
    BY <1>3 DEF EraseProgramMemory, answer
  <2>3. agenda' = Rest \/ (Throw /\ UNCHANGED mem)
    BY <1>3 DEF EraseProgramMemory
  <2> QED  BY <2>1, <2>2, <2>3
<1>4. CASE ReadPage
  <2>1. e.do = "page" /\ Head(agenda) = e
    BY <1>4, HeadIs DEF ReadPage
  <2>2. UNCHANGED <<mem, reply, verified>>
    BY <1>4 DEF ReadPage
  <2>3. (agenda' = Rest /\ Copied(e)) \/ (Throw /\ UNCHANGED <<result, cache>>)
    BY <1>4, <2>1, Zenon DEF ReadPage, Copied
  <2> QED  BY <1>4, <2>1, <2>2, <2>3
<1>5. CASE ReadBytes
  <2>1. e.do = "bytes" /\ Head(agenda) = e
    BY <1>5, HeadIs DEF ReadBytes
  <2>2. UNCHANGED <<mem, reply, verified, cache>>
    BY <1>5 DEF ReadBytes
  <2>3. \/ agenda' = Rest /\ result' = BytesOf(e)
        \/ Throw /\ UNCHANGED result
        \/ agenda' = <<[e EXCEPT !.cnt = 1]>> \o Rest /\ UNCHANGED result
    BY <1>5, <2>1, Zenon DEF ReadBytes
  <2> QED  BY <2>1, <2>2, <2>3
<1>6. CASE WriteBytes
  <2>1. e.do = "write" /\ Head(agenda) = e
    BY <1>6, HeadIs DEF WriteBytes
  <2>2. UNCHANGED <<reply, result, verified, cache>>
    BY <1>6 DEF WriteBytes, answer
  <2>3. agenda' = Rest \/ (Throw /\ UNCHANGED mem)
    BY <1>6, Zenon DEF WriteBytes
  <2> QED  BY <2>1, <2>2, <2>3
<1>7. CASE VerifyPage
  <2>1. e.do = "verify" /\ Head(agenda) = e
    BY <1>7, HeadIs DEF VerifyPage
  <2>2. agenda' = Rest /\ UNCHANGED <<reply, mem, result, cache>>
    BY <1>7 DEF VerifyPage
  <2>3. verified' = (verified /\ \A i \in DOMAIN result :
                        e.addr + i - 1 \in Image[e.area] =>
                          result[i] = ImageByte(e.area, e.addr + i - 1))
    BY <1>7, <2>1, Zenon DEF VerifyPage
  <2> QED  BY <2>1, <2>2, <2>3
<1>8. CASE Verified
  <2>1. e.do = "verified"
    BY <1>8, HeadIs DEF Verified
  <2>2. UNCHANGED <<reply, mem, result, verified, cache>>
    BY <1>8 DEF Verified, answer
  <2>3. (verified /\ agenda' = Rest) \/ Throw
    BY <1>8, Zenon DEF Verified
  <2> QED  BY <2>1, <2>2, <2>3
<1>9. CASE GiveUp
  <2>1. e.do = "give up"
    BY <1>9, HeadIs DEF GiveUp
  <2>2. UNCHANGED <<reply, mem, result, verified, cache>>
    BY <1>9 DEF GiveUp, answer
  <2>3. Throw
    BY <1>9 DEF GiveUp
  <2> QED  BY <2>1, <2>2, <2>3
<1>10. CASE CallRead \/ CallWrite \/ ThrowText
  BY <1>10
<1> QED  BY <1>1, <1>2, <1>3, <1>4, <1>5, <1>6, <1>7, <1>8, <1>9, <1>10 DEF Work

(* A step either drops what cannot be reached any more, or goes on behind   *)
(* the head, for which the new commands stand.                             *)
Progress ==
  \/ agenda' = <<>> /\ reply' # "ok"
  \/ \E k \in Nat : Passes(agenda, agenda', k)
  \/ \E n \in Nat : Follows(agenda, agenda', 1, n)

AllStand(w, e) == Sequenced(w) /\ \A i \in DOMAIN w : Stands(w[i], e)

LEMMA JoinStand ==
  ASSUME NEW a, NEW b, NEW e, AllStand(a, e), AllStand(b, e)
  PROVE  AllStand(a \o b, e)
<1> DEFINE c == a \o b
           m == Len(a)
<1>1. Sequenced(a) /\ Sequenced(b)
  BY DEF AllStand
<1>2. /\ Sequenced(c)
      /\ \A i \in DOMAIN c :
           \/ i \in DOMAIN a /\ c[i] = a[i]
           \/ i > m /\ i - m \in DOMAIN b /\ c[i] = b[i - m]
  BY <1>1, JoinIs, SequencedHas
<1> HIDE DEF c, m
<1>3. ASSUME NEW i \in DOMAIN c
      PROVE  Stands(c[i], e)
  BY <1>2 DEF AllStand
<1> QED  BY <1>2, <1>3 DEF AllStand, c

LEMMA OneStands ==
  ASSUME NEW d, NEW e
  PROVE  AllStand(<<>>, e) /\ (Stands(d, e) => AllStand(<<d>>, e))
<1>1. Sequenced(<<>>) /\ DOMAIN <<>> = {}
  BY NothingFits DEF Fits
<1>2. Sequenced(<<d>>) /\ DOMAIN <<d>> = {1} /\ <<d>>[1] = d
  BY SequencedOne
<1> QED  BY <1>1, <1>2 DEF AllStand

LEMMA InProgmodeStands ==
  ASSUME NEW space, NEW y, NEW e, AllStand(y, e)
  PROVE  AllStand(InProgmode(space, y), e)
<1> DEFINE p == Do("enable")
           q == Do("disable")
<1>1. Stands(p, e) /\ Stands(q, e)
  BY DEF Stands, Do, Looks, Tells, Upsets
<1> HIDE DEF p, q
<1>2. AllStand(<<p>>, e) /\ AllStand(<<q>>, e)
  BY <1>1, OneStands
<1>3. AllStand(<<p>> \o y \o <<q>>, e)
  BY <1>2, JoinStand
<1>4. InProgmode(space, y) = y \/ InProgmode(space, y) = <<p>> \o y \o <<q>>
  BY DEF InProgmode, p, q
<1> QED  BY <1>3, <1>4

(* What stands for a call to read, and for one to write. *)
LEMMA ReadStands ==
  ASSUME TargetMemoryAssumption, NEW x \in Spaces, NEW addr \in Int, NEW n \in Int, NEW e,
         e.do = "jtagRead", e.area = x
  PROVE  AllStand(ReadCommands(x, addr, n), e)
<1> DEFINE space == MemorySpace(x)
           c == ByteCommand(x, space, addr, n)
           f == PageCommands(x, addr, n)
           y == IF Paged(space) THEN f ELSE <<c>>
<1>1. ASSUME NEW d, d.do \in {"page", "bytes"}, d.area = x
      PROVE  Stands(d, e)
  <2>1. Looks(e) /\ d.do \notin {"catch", "reply"} /\ \A z : ~Upsets(d, z)
    BY <1>1 DEF Looks, Upsets
  <2>2. \A z : Tells(d, z) => Tells(e, z)
    BY <1>1 DEF Tells
  <2> QED  BY <2>1, <2>2 DEF Stands
<1>2. CASE Paged(space)
  <2>1. Sequenced(f)
    BY <1>2, PagedAreas, PageCommandsFit DEF Fits
  <2>2. \A i \in DOMAIN f : f[i].do = "page" /\ f[i].area = x
    BY DEF PageCommands
  <2> HIDE DEF f
  <2>3. \A i \in DOMAIN f : Stands(f[i], e)
    BY <1>1, <2>2
  <2>4. AllStand(f, e)
    BY <2>1, <2>3 DEF AllStand
  <2>5. AllStand(y, e)
    BY <1>2, <2>4, Zenon
  <2> QED  BY <1>2, <2>5, InProgmodeStands DEF ReadCommands, f
<1>3. CASE ~Paged(space)
  <2>1. c.do = "bytes" /\ c.area = x
    BY DEF ByteCommand
  <2> HIDE DEF c
  <2>2. AllStand(<<c>>, e)
    BY <1>1, <2>1, OneStands
  <2>3. AllStand(y, e)
    BY <1>3, <2>2, Zenon
  <2> QED  BY <1>3, <2>3, InProgmodeStands DEF ReadCommands, c
<1> QED  BY <1>2, <1>3

LEMMA WriteStands ==
  ASSUME TargetMemoryAssumption, NEW x \in Spaces, NEW addr, NEW bytes, Len(bytes) \in Nat,
         NEW e, e.do = "jtagWrite", e.area = x
  PROVE  AllStand(WriteCommands(x, addr, bytes), e)
<1> DEFINE y == Parts(x, addr, bytes)
           d == Do("erase")
           load == Load(x, addr, Len(bytes))
           o == IF load THEN <<d>> ELSE <<>>
           K == {"write", "throw"}
<1>1. Kinds(y, K)
  BY PartsKinds
<1>2. \A i \in DOMAIN y : y[i].do = "write" => y[i].area = x
  BY DEF Parts, Part, WriteCommand, Do
<1> HIDE DEF y
<1>3. ASSUME NEW i \in DOMAIN y
      PROVE  Stands(y[i], e)
  <2>1. y[i].do \in K
    BY <1>1 DEF Kinds
  <2>2. ~Looks(y[i]) /\ y[i].do \notin {"catch", "reply"} /\ \A z : ~Tells(y[i], z)
    BY <2>1 DEF Looks, Tells
  <2>3. \A z : Upsets(y[i], z) => Upsets(e, z)
    BY <1>2, <2>1 DEF Upsets
  <2> QED  BY <2>2, <2>3 DEF Stands
<1>4. AllStand(y, e)
  BY <1>1, <1>3 DEF AllStand, Kinds
<1>5. AllStand(InProgmode(MemorySpace(x), y), e)
  BY <1>4, InProgmodeStands
<1>6. load => x = "flash"
  <2>1. load => MemorySpace(x) = "SPM"
    BY DEF Load
  <2>2. MemorySpace("eeprom") # "SPM" /\ MemorySpace("fuse") # "SPM" /\ MemorySpace("lock") # "SPM"
    BY DEF MemorySpace
  <2>3. x \in {"flash", "eeprom", "fuse", "lock"}
    BY DEF Spaces, Areas
  <2> QED  BY <2>1, <2>2, <2>3
<1>7. load => Stands(d, e)
  BY <1>6 DEF Stands, Do, Looks, Tells, Upsets
<1> HIDE DEF d, load
<1>8. AllStand(o, e)
  BY <1>7, OneStands
<1> HIDE DEF o
<1>9. AllStand(o \o InProgmode(MemorySpace(x), y), e)
  BY <1>5, <1>8, JoinStand
<1> QED  BY <1>9, WriteParts DEF o, d, load, y

LEMMA WorkProgress ==
  ASSUME TargetMemoryAssumption, IInv, BlocksOK(agenda), Work
  PROVE  Progress
<1>1. PICK e : e = agenda[1]
  OBVIOUS
<1>2. /\ agenda # <<>> /\ Sequenced(agenda) /\ CallOK(e, request.cmd)
      /\ (e.do # "catch" => reply # "ok")
  <2>1. agenda # <<>>
    BY WorkIs
  <2> QED  BY <1>1, <2>1, UnderWay DEF Well
<1>3. ASSUME NEW w, AllStand(w, e), agenda' = w \o Rest
      PROVE  \E n \in Nat : Follows(agenda, agenda', 1, n)
  <2>1. Sequenced(w) /\ \A i \in DOMAIN w : Stands(w[i], e)
    BY <1>3 DEF AllStand
  <2>2. Len(w) \in Nat /\ 1 \in DOMAIN agenda
    BY <1>2, <2>1, SequencedHas, UnderWay
  <2>3. /\ Moves(agenda, agenda', 1, Len(w))
        /\ \A i \in 1 .. Len(w) : i \in DOMAIN w /\ agenda'[i] = w[i]
    BY <1>2, <1>3, <2>1, ReplacedMoves DEF Rest
  <2> QED  BY <1>1, <2>1, <2>2, <2>3 DEF Follows
<1>4. agenda' = Rest => Follows(agenda, agenda', 1, 0)
  BY <1>2, TailMoves DEF Rest, Follows
<1>5. CASE CallRead
  <2>1. e.do = "jtagRead" /\ agenda' = ReadCommands(e.area, e.addr, e.n) \o Rest
    BY <1>1, <1>5, CallReadIs
  <2>2. AllStand(ReadCommands(e.area, e.addr, e.n), e)
    BY <1>2, <2>1, ReadStands DEF CallOK
  <2> QED  BY <1>3, <2>1, <2>2, Zenon DEF Progress
<1>6. CASE CallWrite
  <2>1. e.do = "jtagWrite"
    BY <1>1, <1>6, CallWriteIs
  <2>2. PICK w : /\ agenda' = w \o Rest
                 /\ w = <<>> \/ w = WriteCommands(e.area, e.addr, e.bytes)
    BY <1>1, <1>6, CallWriteIs
  <2>3. AllStand(WriteCommands(e.area, e.addr, e.bytes), e)
    BY <1>2, <2>1, WriteStands DEF CallOK
  <2>4. AllStand(<<>>, e)
    BY OneStands
  <2>5. AllStand(w, e)
    BY <2>2, <2>3, <2>4, Zenon
  <2> QED  BY <1>3, <2>2, <2>5, Zenon DEF Progress
<1>7. CASE ThrowText
  <2>1. e.do = "throw"
    BY <1>1, <1>7, HeadIs DEF ThrowText
  <2>2. agenda' = <<>> /\ UNCHANGED reply
    BY <1>7 DEF ThrowText, answer
  <2> QED  BY <1>2, <2>1, <2>2 DEF Progress
<1>8. CASE Throw /\ e.do # "catch" /\ UNCHANGED <<reply, mem, result, verified, cache>>
  <2>1. CASE agenda' = <<>>
    BY <1>2, <1>8, <2>1 DEF Progress
  <2>2. CASE agenda' # <<>>
    BY <1>2, <1>8, <2>2, ThrowLeaves DEF Progress
  <2> QED  BY <2>1, <2>2
<1>9. CASE e.do = "bytes" /\ agenda' = <<[e EXCEPT !.cnt = 1]>> \o Rest
  <2>1. PICK d : d = [e EXCEPT !.cnt = 1]
    OBVIOUS
  <2>2. d.do = e.do /\ d.area = e.area
    BY <2>1
  <2>3. Stands(d, e)
    BY <1>9, <2>2 DEF Stands, Looks, Tells, Upsets
  <2>4. AllStand(<<d>>, e) /\ agenda' = <<d>> \o Rest
    BY <1>9, <2>1, <2>3, OneStands
  <2> QED  BY <1>3, <2>4, Zenon DEF Progress
<1>10. CASE agenda' = Rest
  BY <1>4, <1>10 DEF Progress
<1> QED  BY <1>1, <1>5, <1>6, <1>7, <1>8, <1>9, <1>10, StepCases

LEMMA ProgressFollows ==
  ASSUME Progress
  PROVE  agenda' = <<>> \/ \E k, n \in Nat : Follows(agenda, agenda', k, n)
<1>1. ASSUME NEW k \in Nat, Passes(agenda, agenda', k)
      PROVE  Follows(agenda, agenda', k, 0)
  BY <1>1 DEF Passes, Follows
<1> QED  BY <1>1, Zenon DEF Progress

LEMMA OrderKept ==
  ASSUME TargetMemoryAssumption, IInv, BlocksOK(agenda), OrderOK(agenda), Work
  PROVE  /\ BlocksOK(agenda') /\ OrderOK(agenda')
         /\ \A x : Calm(agenda, x) => Calm(agenda', x)
<1>1. CASE agenda' = <<>>
  <2>1. DOMAIN agenda' = {}
    BY <1>1
  <2> QED  BY <2>1 DEF BlocksOK, OrderOK, Calm
<1>2. CASE \E k, n \in Nat : Follows(agenda, agenda', k, n)
  <2>1. PICK k \in Nat, n \in Nat : Follows(agenda, agenda', k, n)
    BY <1>2
  <2>2. PICK b : b = agenda'
    OBVIOUS
  <2>3. Follows(agenda, b, k, n)
    BY <2>1, <2>2
  <2>4. BlocksOK(b) /\ OrderOK(b) /\ \A x : Calm(agenda, x) => Calm(b, x)
    BY <2>3, BlocksFollow, OrderFollows, CalmFollows
  <2> QED  BY <2>2, <2>4
<1> QED  BY <1>1, <1>2, WorkProgress, ProgressFollows

LEMMA UpsetBy ==
  ASSUME IInv, Shaped, Work, NEW x \in Areas, mem'[x] # mem[x]
  PROVE  Upsets(agenda[1], x)
<1> DEFINE e == agenda[1]
<1>1. \/ e.do = "erase"
      \/ /\ e.do = "write" /\ e.area \in Areas
         /\ mem' = [mem EXCEPT ![e.area] = Overlaid(mem[e.area], e.addr, e.bytes)]
  BY MemoryIs
<1>2. CASE e.do = "erase"
  BY <1>2 DEF Upsets
<1>3. CASE /\ e.do = "write" /\ e.area \in Areas
           /\ mem' = [mem EXCEPT ![e.area] = Overlaid(mem[e.area], e.addr, e.bytes)]
  <2>1. e.area = x
    BY <1>3 DEF Shaped, MemOK
  <2> QED  BY <1>3, <2>1 DEF Upsets
<1> QED  BY <1>1, <1>2, <1>3

LEMMA CacheIs ==
  ASSUME IInv, Work
  PROVE  \/ UNCHANGED cache
         \/ /\ agenda[1].do = "page" /\ UNCHANGED mem
            /\ cache' = [cache EXCEPT ![agenda[1].area] =
                           FilledCache(agenda[1].area, agenda[1].page)]
<1> DEFINE e == agenda[1]
<1>1. CASE ~Reader(e)
  BY <1>1, OthersKeep
<1>2. CASE e.do = "jtagRead"
  BY <1>2, ReaderIs DEF CallRead
<1>3. CASE e.do = "bytes"
  BY <1>3, ReaderIs DEF ReadBytes
<1>4. CASE e.do = "page"
  <2>1. ReadPage /\ Head(agenda) = e
    <3>1. ReadPage
      BY <1>4, ReaderIs
    <3> QED  BY <3>1, HeadIs DEF ReadPage
  <2>2. UNCHANGED mem
    BY <2>1 DEF ReadPage
  <2>3. UNCHANGED cache \/ cache' = [cache EXCEPT ![e.area] = FilledCache(e.area, e.page)]
    BY <2>1, Zenon DEF ReadPage
  <2> QED  BY <1>4, <2>2, <2>3
<1> QED  BY <1>1, <1>2, <1>3, <1>4 DEF Reader

LEMMA FreshKept ==
  ASSUME TargetMemoryAssumption, IInv, Shaped, CacheOK, BlocksOK(agenda), OrderOK(agenda),
         FreshOK, Work
  PROVE  FreshOK'
<1> SUFFICES ASSUME NEW x \in Areas
             PROVE  CacheFresh(x)' /\ (cache'[x].page = NoPage \/ Calm(agenda', x))
  BY DEF FreshOK
<1> DEFINE e == agenda[1]
<1>1. CacheFresh(x) /\ (cache[x].page = NoPage \/ Calm(agenda, x))
  BY DEF FreshOK
<1>2. Carried(x)' = Carried(x)
  BY WorkIs DEF Carried
<1>3. Calm(agenda, x) => Calm(agenda', x)
  BY OrderKept
<1>4. 1 \in DOMAIN agenda /\ DOMAIN agenda \subseteq Nat \ {0} /\ agenda # <<>>
  <2>1. agenda # <<>>
    BY WorkIs
  <2>2. Sequenced(agenda) /\ 1 \in DOMAIN agenda
    BY <2>1, UnderWay DEF Well
  <2>3. DOMAIN agenda = 1 .. Len(agenda) /\ Len(agenda) \in Nat
    BY <2>2, SequencedHas
  <2> QED  BY <2>1, <2>2, <2>3
<1>5. CASE cache'[x] = cache[x] /\ mem'[x] = mem[x]
  <2>1. CacheFresh(x)'
    BY <1>1, <1>2, <1>5 DEF CacheFresh
  <2> QED  BY <1>1, <1>3, <1>5, <2>1
<1>6. CASE UNCHANGED cache
  <2>1. CASE mem'[x] # mem[x]
    <3>1. Upsets(e, x)
      BY <2>1, UpsetBy
    <3>2. ~Calm(agenda, x)
      BY <1>4, <3>1 DEF Calm
    <3>3. cache'[x].page = NoPage
      BY <1>1, <1>6, <3>2
    <3>4. CacheFresh(x)'
      BY <3>3 DEF CacheFresh
    <3> QED  BY <3>3, <3>4
  <2> QED  BY <1>5, <1>6, <2>1
<1>7. CASE /\ e.do = "page" /\ UNCHANGED mem
           /\ cache' = [cache EXCEPT ![e.area] = FilledCache(e.area, e.page)]
  <2>1. CASE e.area # x
    <3>1. cache'[x] = cache[x]
      BY <1>7, <2>1 DEF CacheOK
    <3> QED  BY <1>5, <1>7, <3>1
  <2>2. CASE e.area = x
    <3>1. cache'[x] = FilledCache(x, e.page)
      BY <1>7, <2>2 DEF CacheOK
    <3>2. /\ cache'[x].page = e.page
          /\ cache'[x].data = [i \in DOMAIN cache[x].data |->
                IF i < Carried(x) THEN mem[x][e.page + i] ELSE cache[x].data[i]]
      BY <3>1 DEF FilledCache
    <3>3. /\ DOMAIN cache[x].data = 0 .. PageSize[x] - 1
          /\ Carried(x) \in Nat /\ PageSize[x] \in Nat /\ Carried(x) <= PageSize[x]
      BY CarriedIs DEF CacheOK
    <3>4. ASSUME NEW i \in 0 .. Carried(x) - 1
          PROVE  cache'[x].data[i] = mem[x][e.page + i]
      <4>1. i \in DOMAIN cache[x].data /\ i < Carried(x)
        BY <3>3
      <4> QED  BY <3>2, <4>1
    <3>5. CacheFresh(x)'
      BY <1>2, <1>7, <3>2, <3>4 DEF CacheFresh
    <3>6. Tells(e, x) /\ ~Upsets(e, x)
      BY <1>7, <2>2 DEF Tells, Upsets
    <3>7. ASSUME NEW i \in DOMAIN agenda
          PROVE  ~Upsets(agenda[i], x)
      <4>1. i = 1 \/ 1 < i
        BY <1>4
      <4> QED  BY <1>4, <3>6, <4>1 DEF OrderOK
    <3>8. Calm(agenda, x)
      BY <3>7 DEF Calm
    <3> QED  BY <1>3, <3>5, <3>8
  <2> QED  BY <2>1, <2>2
<1> QED  BY <1>6, <1>7, CacheIs

LEMMA FirstOf ==
  ASSUME IInv, Work
  PROVE  /\ agenda # <<>> /\ Sequenced(agenda) /\ 1 \in DOMAIN agenda
         /\ DOMAIN agenda = 1 .. Len(agenda) /\ Len(agenda) \in Nat
<1>1. agenda # <<>>
  BY WorkIs
<1>2. Sequenced(agenda) /\ 1 \in DOMAIN agenda
  BY <1>1, UnderWay DEF Well
<1> QED  BY <1>1, <1>2, SequencedHas

(* The steps after which the answer is still to be expected. *)
LEMMA LiveCases ==
  ASSUME IInv, BlocksOK(agenda), Work, Live(agenda', reply'), NEW e, e = agenda[1]
  PROVE  \/ CallRead
         \/ CallWrite
         \/ /\ \E k \in Nat : Passes(agenda, agenda', k)
            /\ UNCHANGED <<mem, result, verified>>
         \/ /\ e.do = "bytes" /\ agenda' = <<[e EXCEPT !.cnt = 1]>> \o Rest
            /\ UNCHANGED <<mem, result, verified>>
         \/ /\ e.do \in {"try", "catch", "enable", "disable", "reply"} /\ agenda' = Rest
            /\ UNCHANGED <<mem, result, verified>>
         \/ /\ e.do \in {"erase", "write"} /\ agenda' = Rest /\ UNCHANGED <<result, verified>>
         \/ e.do = "page" /\ agenda' = Rest /\ Copied(e) /\ UNCHANGED <<mem, verified>>
         \/ /\ e.do = "bytes" /\ agenda' = Rest /\ result' = BytesOf(e)
            /\ UNCHANGED <<mem, verified>>
         \/ /\ e.do = "verify" /\ agenda' = Rest /\ UNCHANGED <<mem, result>>
            /\ verified' = (verified /\ \A i \in DOMAIN result :
                               e.addr + i - 1 \in Image[e.area] =>
                                 result[i] = ImageByte(e.area, e.addr + i - 1))
         \/ /\ e.do = "verified" /\ verified /\ agenda' = Rest
            /\ UNCHANGED <<mem, result, verified>>
<1>1. agenda # <<>> /\ Sequenced(agenda) /\ (e.do # "catch" => reply # "ok")
  BY FirstOf, UnderWay
<1>2. ASSUME agenda' = <<>>, e.do # "catch", UNCHANGED reply
      PROVE  FALSE
  <2>1. DOMAIN agenda' = {}
    BY <1>2
  <2> QED  BY <1>1, <1>2, <2>1 DEF Live
<1>3. CASE ThrowText
  <2>1. e.do = "throw" /\ agenda' = <<>> /\ UNCHANGED reply
    BY <1>3, HeadIs DEF ThrowText, answer
  <2> QED  BY <1>2, <2>1
<1>4. CASE Throw /\ e.do # "catch" /\ UNCHANGED <<reply, mem, result, verified, cache>>
  <2>1. \E k \in Nat : Passes(agenda, agenda', k)
    BY <1>1, <1>2, <1>4, ThrowLeaves
  <2> QED  BY <1>4, <2>1
<1> QED  BY <1>3, <1>4, StepCases

LEMMA SettledKept ==
  ASSUME TargetMemoryAssumption, IInv, Shaped, BlocksOK(agenda), OrderOK(agenda), Work,
         NEW x \in Areas, NEW c, Settled(agenda, mem, x, c)
  PROVE  Settled(agenda', mem', x, c)
<1>1. ~Upsets(agenda[1], x) /\ Calm(agenda', x)
  BY FirstOf, OrderKept DEF Settled, Calm
<1>2. mem'[x] = mem[x]
  BY <1>1, UpsetBy
<1> QED  BY <1>1, <1>2 DEF Settled

(* What is left of the comparisons behind the head is still left. *)
LEMMA LaterMoves ==
  ASSUME TargetMemoryAssumption, IInv, BlocksOK(agenda), Work, Live(agenda', reply'),
         NEW i \in DOMAIN agenda, Looks(agenda[i]), i > 1
  PROVE  \E k, n \in Nat : Moves(agenda, agenda', k, n) /\ i > k
<1>1. CASE agenda' = <<>> /\ reply' # "ok"
  <2>1. DOMAIN agenda' = {}
    BY <1>1
  <2> QED  BY <1>1, <2>1 DEF Live
<1>2. ASSUME NEW k \in Nat, Passes(agenda, agenda', k)
      PROVE  Moves(agenda, agenda', k, 0) /\ i > k
  <2>1. Moves(agenda, agenda', k, 0) /\ \A j \in 1 .. k : ~Looks(agenda[j])
    BY <1>2 DEF Passes
  <2>2. i \in Int
    BY FirstOf
  <2> QED  BY <2>1, <2>2
<1>3. ASSUME NEW n \in Nat, Follows(agenda, agenda', 1, n)
      PROVE  Moves(agenda, agenda', 1, n) /\ i > 1
  BY <1>3 DEF Follows
<1>4. 0 \in Nat /\ 1 \in Nat
  OBVIOUS
<1> QED  BY <1>1, <1>2, <1>3, <1>4, WorkProgress, Zenon DEF Progress

LEMMA Quotient ==
  ASSUME NEW C \in Nat \ {0}, NEW m \in Nat, NEW q \in Nat, NEW r \in Nat, r < C, m = C * q + r
  PROVE  m \div C = q
<1> DEFINE d == m \div C
<1>1. d \in Nat /\ C * d <= m /\ m < C * d + C
  OBVIOUS
<1> HIDE DEF d
<1>2. ASSUME NEW s \in Nat, NEW t \in Nat, s < t
      PROVE  C * s + C <= C * t
  <2> DEFINE u == t - (s + 1)
  <2>1. u \in Nat /\ t = s + 1 + u
    BY <1>2
  <2> HIDE DEF u
  <2>2. C * t = C * s + C + C * u /\ C * u \in Nat /\ C * s \in Nat
    BY <2>1
  <2> QED  BY <2>2
<1>3. C * q \in Nat /\ C * d \in Nat
  BY <1>1
<1>4. ~(d < q)
  BY <1>1, <1>2, <1>3
<1>5. ~(q < d)
  BY <1>1, <1>2, <1>3
<1> QED  BY <1>1, <1>4, <1>5 DEF d

(* A page in blocks of C bytes. *)
LEMMA InBlocks ==
  ASSUME NEW C \in Nat \ {0}, NEW P \in Nat \ {0}, P % C = 0, NEW addr \in Nat, addr % P = 0
  PROVE  /\ P \div C \in Nat /\ P = (P \div C) * C /\ C <= P
         /\ addr % C = 0
         /\ (P - C + C - 1) \div C = P \div C - 1
<1> DEFINE N == P \div C
           d == addr \div P
           t == N * d
<1>1. N \in Nat /\ P = C * N /\ d \in Nat /\ addr = P * d
  OBVIOUS
<1> HIDE DEF N, d
<1>2. N >= 1 /\ N * C = P
  BY <1>1
<1>3. t \in Nat /\ addr = C * t
  BY <1>1
<1> HIDE DEF t
<1>4. addr \div C = t
  <2>1. 0 \in Nat /\ 0 < C /\ addr = C * t + 0
    BY <1>3
  <2> QED  BY <1>3, <2>1, Quotient
<1>5. addr % C = 0
  <2>1. addr = C * (addr \div C) + (addr % C) /\ addr % C \in Nat
    OBVIOUS
  <2>2. C * t \in Nat
    BY <1>3
  <2> QED  BY <1>3, <1>4, <2>1, <2>2
<1>6. C <= P
  <2> DEFINE u == N - 1
  <2>1. u \in Nat /\ N = u + 1
    BY <1>1, <1>2
  <2> HIDE DEF u
  <2>2. C * N = C * u + C /\ C * u \in Nat
    BY <2>1
  <2> QED  BY <1>1, <2>2
<1>7. (P - C + C - 1) \div C = N - 1
  <2> DEFINE u == N - 1
             m == P - 1
             r == C - 1
  <2>1. u \in Nat /\ N = u + 1 /\ m \in Nat /\ r \in Nat /\ r < C /\ P - C + C - 1 = m
    BY <1>1, <1>2
  <2>2. m = C * u + r
    <3>1. C * N = C * u + C /\ C * u \in Nat
      BY <2>1
    <3> QED  BY <1>1, <3>1
  <2> HIDE DEF u, m, r
  <2>3. m \div C = u
    BY <2>1, <2>2, Quotient
  <2> QED  BY <2>1, <2>3 DEF u
<1> QED  BY <1>1, <1>2, <1>5, <1>6, <1>7 DEF N

LEMMA ChunksAre ==
  ASSUME TargetMemoryAssumption, NEW x \in Areas, NEW paged \in BOOLEAN
  PROVE  /\ Chunk(x, paged) \in Nat \ {0} /\ Chunks(x, paged) \in Nat
         /\ Chunks(x, paged) * Chunk(x, paged) = PageSize[x]
         /\ PageSize[x] % Carried(x) = 0
         /\ (~paged => Chunks(x, paged) = 1)
<1> DEFINE C == Chunk(x, paged)
           P == PageSize[x]
<1>1. C \in Nat \ {0} /\ P \in Nat \ {0}
  BY CarriedIs DEF Chunk
<1>2. P % Carried(x) = 0
  <2>1. P % P = 0
    BY <1>1
  <2> QED  BY <2>1 DEF Carried, TargetMemoryAssumption
<1>3. P % C = 0
  <2>1. P % P = 0
    BY <1>1
  <2> QED  BY <1>2, <2>1 DEF Chunk
<1>4. Chunks(x, paged) = P \div C
  BY DEF Chunks
<1>5. ~paged => P \div C = 1
  <2>1. P \div P = 1
    BY <1>1
  <2> QED  BY <2>1 DEF Chunk
<1> HIDE DEF C, P
<1>6. 0 \in Nat /\ 0 % P = 0
  BY <1>1
<1>7. P \div C \in Nat /\ P = (P \div C) * C
  BY <1>1, <1>3, <1>6, InBlocks
<1> QED  BY <1>1, <1>2, <1>4, <1>5, <1>7 DEF C, P

(* Commands that fetch the whole page, with switches before s and behind. *)
Loads(w, x, addr, paged, s) ==
  /\ Sequenced(w) /\ s \in Nat /\ Chunks(x, paged) \in Nat /\ s + Chunks(x, paged) <= Len(w)
  /\ \A j \in 1 .. Len(w) : IF s < j /\ j <= s + Chunks(x, paged)
                              THEN Fetches(w[j], x, addr, paged, j - s)
                              ELSE Switch(w[j])

LEMMA SameRange ==
  ASSUME NEW n \in Nat, NEW m \in Nat, 1 .. n = 1 .. m
  PROVE  n <= m /\ m <= n
<1>1. n # 0 => n \in 1 .. m
  <2>1. n # 0 => n \in 1 .. n
    OBVIOUS
  <2> QED  BY <2>1
<1>2. m # 0 => m \in 1 .. n
  <2>1. m # 0 => m \in 1 .. m
    OBVIOUS
  <2> QED  BY <2>1
<1> QED  BY <1>1, <1>2

LEMMA PagesLoad ==
  ASSUME TargetMemoryAssumption, NEW x \in Areas, NEW addr \in Nat, addr % PageSize[x] = 0
  PROVE  Loads(PageCommands(x, addr, PageSize[x]), x, addr, TRUE, 0)
<1> DEFINE P     == PageSize[x]
           C     == Carried(x)
           N     == P \div C
           base  == PageStart(addr, C)
           first == IF addr + P >= base + C THEN base + C - addr ELSE P
           pages == 1 + ((P - first + C - 1) \div C)
           Left(k) == P - first - (k - 2) * C
           f     == PageCommands(x, addr, P)
           n(k)  == IF k = 1 THEN first ELSE IF Left(k) > C THEN C ELSE Left(k)
<1>1. C \in Nat \ {0} /\ P \in Nat \ {0} /\ P % C = 0 /\ addr % P = 0
  BY CarriedIs, ChunksAre
<1> HIDE DEF C, P
<1>2. N \in Nat /\ P = N * C /\ C <= P /\ addr % C = 0 /\ (P - C + C - 1) \div C = N - 1
  BY <1>1, InBlocks
<1>3. Sequenced(f)
  <2>1. Carried(x) \in Nat \ {0} /\ P \in Int
    BY <1>1 DEF C
  <2>2. Fits(f, "m")
    BY <2>1, PageCommandsFit
  <2> QED  BY <2>2 DEF Fits
<1>4. DOMAIN f = 1 .. pages
  BY DEF PageCommands, C, P
<1>5. \A k \in 1 .. pages :
        f[k] = [do |-> "page", area |-> x, page |-> base + (k - 1) * C,
                offset |-> Offset(addr, C), n |-> n(k)]
  BY DEF PageCommands, C, P
<1>6. base = addr /\ Offset(addr, C) = 0
  BY <1>2 DEF PageStart, Offset
<1> HIDE DEF f, base, N
<1>7. first = C
  BY <1>1, <1>2, <1>6
<1>8. pages = N
  BY <1>1, <1>2, <1>7
<1>9. Len(f) = N
  <2>1. DOMAIN f = 1 .. Len(f) /\ Len(f) \in Nat
    BY <1>3, SequencedHas
  <2> HIDE DEF pages
  <2>2. 1 .. Len(f) = 1 .. N
    BY <1>4, <1>8, <2>1
  <2>3. N \in Nat
    BY <1>2
  <2>4. PICK l \in Nat : l = Len(f)
    BY <2>1
  <2>5. 1 .. l = 1 .. N
    BY <2>2, <2>4
  <2>6. l <= N /\ N <= l
    BY <2>3, <2>5, SameRange
  <2> QED  BY <2>3, <2>4, <2>6
<1>10. ASSUME NEW k \in 1 .. N
       PROVE  n(k) = C
  <2>1. CASE k = 1
    BY <1>7, <2>1
  <2>2. CASE k # 1
    <3> DEFINE u == N - k
    <3>1. u \in Nat /\ N = u + k /\ k \in Nat
      BY <1>2
    <3> HIDE DEF u
    <3>2. N * C = u * C + k * C /\ u * C \in Nat /\ k * C \in Nat
      BY <1>1, <3>1
    <3>3. (k - 2) * C = k * C - 2 * C
      BY <1>1, <3>1
    <3>4. Left(k) = u * C + C
      <4> HIDE DEF first
      <4>1. Left(k) = P - C - (k - 2) * C
        BY <1>7
      <4> HIDE DEF Left
      <4> QED  BY <1>1, <1>2, <3>2, <3>3, <4>1
    <3> HIDE DEF Left, first
    <3>5. IF Left(k) > C THEN Left(k) > C ELSE Left(k) = C
      BY <1>1, <3>2, <3>4
    <3> QED  BY <2>2, <3>5
  <2> QED  BY <2>1, <2>2
<1> HIDE DEF n, Left, first, pages
<1>11. Chunks(x, TRUE) = N
  BY DEF Chunks, Chunk, N, P, C
<1>12. ASSUME NEW j \in 1 .. N
       PROVE  Fetches(f[j], x, addr, TRUE, j - 0)
  <2>1. f[j] = [do |-> "page", area |-> x, page |-> addr + (j - 1) * C, offset |-> 0, n |-> C]
    BY <1>5, <1>6, <1>8, <1>10
  <2>2. j - 0 = j
    OBVIOUS
  <2> QED  BY <2>1, <2>2 DEF Fetches, C
<1>13. ASSUME NEW j \in 1 .. Len(f)
       PROVE  j \in 1 .. N /\ 0 < j /\ j <= 0 + N
  BY <1>2, <1>9
<1>14. 0 + N <= Len(f)
  BY <1>2, <1>9
<1>15. Loads(f, x, addr, TRUE, 0)
  BY <1>2, <1>3, <1>11, <1>12, <1>13, <1>14 DEF Loads
<1> QED  BY <1>15 DEF f, P

LEMMA BytesLoad ==
  ASSUME TargetMemoryAssumption, NEW x \in Areas, NEW addr \in Nat, addr % PageSize[x] = 0,
         NEW space
  PROVE  Loads(<<ByteCommand(x, space, addr, PageSize[x])>>, x, addr, FALSE, 0)
<1> DEFINE P == PageSize[x]
           c == ByteCommand(x, space, addr, P)
           h == addr % 2
           l == P % 2
<1>1. P \in Nat \ {0} /\ Chunks(x, FALSE) = 1 /\ (P = 1 \/ P % 2 = 0)
  BY CarriedIs, ChunksAre DEF TargetMemoryAssumption
<1>2. h \in {0, 1} /\ l \in {0, 1} /\ (P = 1 => l = 1) /\ (l = 0 => h = 0)
  <2>1. h \in {0, 1} /\ l \in {0, 1} /\ (P = 1 => l = 1)
    BY <1>1
  <2>2. l = 0 => h = 0
    BY <1>1, EvenPage
  <2> QED  BY <2>1, <2>2
<1>3. /\ c.do = "bytes" /\ c.area = x /\ c.asked = P
      /\ c.skip = IF space = "SPM" THEN h ELSE 0
      /\ c.addr = addr - c.skip
      /\ c.n = IF space = "SPM" THEN P + l ELSE P
  BY DEF ByteCommand
<1> HIDE DEF c, h, l
<1>4. c.addr + c.skip = addr /\ c.n - c.skip \in Nat /\ c.n - c.skip >= P
  <2>1. CASE space = "SPM"
    <3>1. c.skip = h /\ c.n = P + l /\ c.addr = addr - h
      BY <1>3, <2>1
    <3>2. P \in Nat /\ h \in Int /\ l \in Int /\ l >= h
      BY <1>1, <1>2
    <3> HIDE DEF P
    <3>3. P + l - h >= P /\ (addr - h) + h = addr
      BY <3>2
    <3>4. c.addr + c.skip = addr
      BY <3>1, <3>2
    <3>5. c.n - c.skip \in Nat /\ c.n - c.skip >= P
      BY <3>1, <3>2
    <3> QED  BY <3>4, <3>5
  <2>2. CASE space # "SPM"
    <3>1. c.skip = 0 /\ c.n = P /\ c.addr = addr - 0
      BY <1>3, <2>2
    <3> QED  BY <1>1, <3>1
  <2> QED  BY <2>1, <2>2
<1> DEFINE w == <<c>>
<1>5. Sequenced(w) /\ Len(w) = 1 /\ w[1] = c
  BY SequencedOne
<1>6. ASSUME NEW k
      PROVE  Fetches(w[1], x, addr, FALSE, k)
  BY <1>3, <1>4, <1>5 DEF Fetches
<1> HIDE DEF w
<1>7. Loads(w, x, addr, FALSE, 0)
  <2>1. 0 \in Nat /\ 1 \in Nat /\ 0 + 1 <= Len(w)
    BY <1>5
  <2>2. ASSUME NEW j \in 1 .. Len(w)
        PROVE  j = 1 /\ 0 < j /\ j <= 0 + 1
    BY <1>5
  <2> QED  BY <1>1, <1>5, <1>6, <2>1, <2>2 DEF Loads
<1> QED  BY <1>7 DEF w, c, P

LEMMA InProgmodeLoads ==
  ASSUME NEW x, NEW addr, NEW paged, NEW space, NEW y, Loads(y, x, addr, paged, 0)
  PROVE  \E s \in Nat : Loads(InProgmode(space, y), x, addr, paged, s)
<1> DEFINE p == Do("enable")
           q == Do("disable")
           N == Chunks(x, paged)
           m == Len(y)
           u == <<p>> \o y
           z == u \o <<q>>
<1>1. Switch(p) /\ Switch(q)
  BY DEF Switch, Do
<1> HIDE DEF p, q
<1>2. Sequenced(<<p>>) /\ Sequenced(<<q>>) /\ Len(<<p>>) = 1 /\ Len(<<q>>) = 1
      /\ DOMAIN <<p>> = {1} /\ DOMAIN <<q>> = {1} /\ <<p>>[1] = p /\ <<q>>[1] = q
  BY SequencedOne
<1>3. /\ Sequenced(y) /\ N \in Nat /\ 0 + N <= m
      /\ \A j \in 1 .. m : IF 0 < j /\ j <= 0 + N THEN Fetches(y[j], x, addr, paged, j - 0)
                                                   ELSE Switch(y[j])
  BY DEF Loads
<1>4. m \in Nat /\ DOMAIN y = 1 .. m
  BY <1>3, SequencedHas
<1>5. /\ Sequenced(u) /\ Len(u) = 1 + m /\ u[1] = p
      /\ \A i \in 1 .. m : u[1 + i] = y[i]
  BY <1>2, <1>3, <1>4, JoinIs, SequencedHas
<1>6. DOMAIN u = 1 .. 1 + m
  BY <1>5, SequencedHas
<1> HIDE DEF u, m
<1>7. /\ Sequenced(z) /\ Len(z) = 1 + m + 1
      /\ \A i \in 1 .. 1 + m : z[i] = u[i]
      /\ z[1 + m + 1] = q
  BY <1>2, <1>5, <1>6, JoinIs, SequencedHas
<1> HIDE DEF z, N
<1>8. ASSUME NEW j \in 1 .. Len(z)
      PROVE  IF 1 < j /\ j <= 1 + N THEN Fetches(z[j], x, addr, paged, j - 1)
                                     ELSE Switch(z[j])
  <2>1. CASE j = 1
    <3>1. z[j] = p
      BY <1>4, <1>5, <1>7, <2>1
    <3> QED  BY <1>1, <2>1, <3>1
  <2>2. CASE j = 1 + m + 1
    <3>1. ~(j <= 1 + N)
      BY <1>3, <1>4, <2>2
    <3> QED  BY <1>1, <1>7, <2>2, <3>1
  <2>3. CASE j # 1 /\ j # 1 + m + 1
    <3> DEFINE i == j - 1
    <3>1. i \in 1 .. m /\ 1 + i = j /\ j \in 1 .. 1 + m /\ 1 < j /\ 0 < i /\ i - 0 = j - 1
          /\ (i <= 0 + N <=> j <= 1 + N)
      BY <1>3, <1>4, <1>7, <2>3
    <3> HIDE DEF i
    <3>2. z[j] = y[i]
      BY <1>5, <1>7, <3>1
    <3>3. IF 0 < i /\ i <= 0 + N THEN Fetches(y[i], x, addr, paged, i - 0) ELSE Switch(y[i])
      BY <1>3, <3>1
    <3> QED  BY <3>1, <3>2, <3>3
  <2> QED  BY <2>1, <2>2, <2>3
<1>9. 1 + N <= Len(z) /\ 1 \in Nat
  BY <1>3, <1>4, <1>7
<1>10. Loads(z, x, addr, paged, 1)
  BY <1>3, <1>7, <1>8, <1>9 DEF Loads, N
<1>11. InProgmode(space, y) = y \/ InProgmode(space, y) = z
  BY Zenon DEF InProgmode, z, u, p, q
<1>12. 0 \in Nat
  OBVIOUS
<1> QED  BY <1>9, <1>10, <1>11, <1>12

LEMMA ReadLoads ==
  ASSUME TargetMemoryAssumption, NEW x \in Areas, NEW addr \in Nat, addr % PageSize[x] = 0
  PROVE  \E paged \in BOOLEAN : \E s \in Nat :
           Loads(ReadCommands(x, addr, PageSize[x]), x, addr, paged, s)
<1> DEFINE space == MemorySpace(x)
           paged == Paged(space)
           y == IF paged THEN PageCommands(x, addr, PageSize[x])
                ELSE <<ByteCommand(x, space, addr, PageSize[x])>>
<1>1. Loads(PageCommands(x, addr, PageSize[x]), x, addr, TRUE, 0)
  BY PagesLoad
<1>2. Loads(<<ByteCommand(x, space, addr, PageSize[x])>>, x, addr, FALSE, 0)
  BY BytesLoad
<1>3. PICK b \in BOOLEAN : Loads(y, x, addr, b, 0)
  <2>1. y = PageCommands(x, addr, PageSize[x])
        \/ y = <<ByteCommand(x, space, addr, PageSize[x])>>
    OBVIOUS
  <2> QED  BY <1>1, <1>2, <2>1, Zenon
<1>4. ReadCommands(x, addr, PageSize[x]) = InProgmode(space, y)
  BY DEF ReadCommands
<1> HIDE DEF y, space, paged
<1> QED  BY <1>3, <1>4, InProgmodeLoads

LEMMA FetchBegins ==
  ASSUME TargetMemoryAssumption, IInv, CallRead, NEW x \in Areas, NEW addr \in Nat,
         addr % PageSize[x] = 0, agenda[1] = jtagRead(x, addr, PageSize[x]),
         Judged(agenda, 2, x, addr)
  PROVE  Under(agenda', result', mem', x, addr)
<1> DEFINE w == ReadCommands(x, addr, PageSize[x])
           n == Len(w)
           h == n + 1
<1>1. /\ agenda' = w \o Rest /\ result' = <<>>
      /\ agenda # <<>> /\ Sequenced(agenda)
  <2>1. PICK e : e = agenda[1]
    OBVIOUS
  <2>2. e.area = x /\ e.addr = addr /\ e.n = PageSize[x]
    BY <2>1 DEF jtagRead
  <2>3. /\ agenda' = ReadCommands(e.area, e.addr, e.n) \o Rest /\ result' = <<>>
        /\ agenda # <<>>
    BY <2>1, CallReadIs
  <2> QED  BY <2>2, <2>3, FirstOf DEF Work
<1>2. PICK paged \in BOOLEAN, s \in Nat : Loads(w, x, addr, paged, s)
  BY ReadLoads
<1> HIDE DEF w
<1> DEFINE N == Chunks(x, paged)
<1>3. /\ Sequenced(w) /\ N \in Nat /\ s + N <= n
      /\ \A j \in 1 .. n : IF s < j /\ j <= s + N THEN Fetches(w[j], x, addr, paged, j - s)
                                                   ELSE Switch(w[j])
  BY <1>2 DEF Loads
<1>4. n \in Nat
  BY <1>3, SequencedHas
<1>5. /\ Moves(agenda, agenda', 1, n)
      /\ \A j \in 1 .. n : agenda'[j] = w[j]
  BY <1>1, <1>3, ReplacedMoves DEF Rest
<1>6. Judged(agenda', h, x, addr)
  <2>1. PICK g \in Int : g = 2
    OBVIOUS
  <2>2. g > 1 /\ g - 1 + n = h
    BY <1>4, <2>1
  <2>3. Judged(agenda', g - 1 + n, x, addr)
    BY <1>5, <2>1, <2>2, JudgedMoves
  <2> QED  BY <2>2, <2>3
<1> HIDE DEF n, N
<1>7. ASSUME NEW j \in 1 .. h - 1
      PROVE  IF s < j /\ j <= s + (N - 0)
               THEN Fetches(agenda'[j], x, addr, paged, 0 + j - s) ELSE Switch(agenda'[j])
  <2>1. j \in 1 .. n /\ 0 + j - s = j - s /\ s + (N - 0) = s + N
    BY <1>3, <1>4
  <2> QED  BY <1>3, <1>5, <2>1
<1>8. N - 0 >= 0 /\ s + (N - 0) < h
  BY <1>3, <1>4
<1>9. Coming(agenda', x, addr, paged, 0, s, h)
  BY <1>6, <1>7, <1>8, Zenon DEF Coming, N
<1>10. Fetched(result', mem', x, addr, 0 * Chunk(x, paged))
  <2>1. 0 * Chunk(x, paged) = 0
    BY ChunksAre
  <2>2. [i \in 1 .. 0 |-> mem'[x][addr + i - 1]] = <<>>
    OBVIOUS
  <2> QED  BY <1>1, <2>1, <2>2 DEF Fetched
<1>11. h \in Nat /\ 0 \in Nat
  BY <1>4
<1> QED  BY <1>9, <1>10, <1>11 DEF Under

(* What the head is in front of h. *)
Foreseen(a, x, addr, paged, k, s, h) ==
  /\ h \in DOMAIN a /\ a[h].do = "verify" /\ h >= 1
  /\ \A j \in 1 .. h - 1 : a[j].do \in {"page", "bytes", "enable", "disable"}
  /\ h = 1 => k = Chunks(x, paged)
  /\ h > 1 /\ s = 0 /\ k # Chunks(x, paged)
       => k < Chunks(x, paged) /\ Fetches(a[1], x, addr, paged, k + 1)
  /\ h > 1 /\ (s > 0 \/ k = Chunks(x, paged)) => Switch(a[1])

LEMMA ComingIs ==
  ASSUME NEW a, NEW x, NEW addr, NEW paged, NEW k \in Nat, NEW s \in Nat, NEW h \in Nat,
         Coming(a, x, addr, paged, k, s, h), Chunks(x, paged) \in Nat, DOMAIN a = 1 .. Len(a)
  PROVE  Foreseen(a, x, addr, paged, k, s, h)
<1> DEFINE N == Chunks(x, paged)
<1>1. /\ Judged(a, h, x, addr) /\ N - k >= 0 /\ s + (N - k) < h
      /\ \A j \in 1 .. h - 1 : IF s < j /\ j <= s + (N - k)
                                 THEN Fetches(a[j], x, addr, paged, k + j - s)
                                 ELSE Switch(a[j])
  BY Zenon DEF Coming
<1>2. h \in DOMAIN a /\ a[h].do = "verify" /\ h >= 1
  BY <1>1 DEF Judged
<1>3. ASSUME NEW j \in 1 .. h - 1
      PROVE  a[j].do \in {"page", "bytes", "enable", "disable"}
  BY <1>1 DEF Fetches, Switch
<1> HIDE DEF N
<1>4. h = 1 => k = N
  BY <1>1 DEF N
<1>5. h > 1 /\ s = 0 /\ k # N => k < N /\ Fetches(a[1], x, addr, paged, k + 1)
  <2> SUFFICES ASSUME h > 1, s = 0, k # N PROVE k < N /\ Fetches(a[1], x, addr, paged, k + 1)
    OBVIOUS
  <2>1. 1 \in 1 .. h - 1 /\ s < 1 /\ 1 <= s + (N - k) /\ k + 1 - s = k + 1 /\ k < N
    BY <1>1 DEF N
  <2> QED  BY <1>1, <2>1
<1>6. h > 1 /\ (s > 0 \/ k = N) => Switch(a[1])
  <2> SUFFICES ASSUME h > 1, s > 0 \/ k = N PROVE Switch(a[1])
    OBVIOUS
  <2>1. 1 \in 1 .. h - 1 /\ ~(s < 1 /\ 1 <= s + (N - k))
    BY <1>1 DEF N
  <2> QED  BY <1>1, <2>1
<1> QED  BY <1>2, <1>3, <1>4, <1>5, <1>6 DEF N, Foreseen

(* One switch is done, or one block is fetched. *)
LEMMA ComingOn ==
  ASSUME NEW a, NEW b, Moves(a, b, 1, 0), NEW x, NEW addr, NEW paged, NEW k \in Nat,
         NEW s \in Nat, NEW h \in Nat, Coming(a, x, addr, paged, k, s, h), h > 1,
         Chunks(x, paged) \in Nat, NEW l \in Nat, NEW t \in Nat,
         \/ s > 0 /\ l = k /\ t = s - 1
         \/ s = 0 /\ k # Chunks(x, paged) /\ l = k + 1 /\ t = 0
         \/ s = 0 /\ k = Chunks(x, paged) /\ l = k /\ t = 0
  PROVE  Coming(b, x, addr, paged, l, t, h - 1)
<1> DEFINE N == Chunks(x, paged)
<1>1. /\ Judged(a, h, x, addr) /\ N - k >= 0 /\ s + (N - k) < h
      /\ \A j \in 1 .. h - 1 : IF s < j /\ j <= s + (N - k)
                                 THEN Fetches(a[j], x, addr, paged, k + j - s)
                                 ELSE Switch(a[j])
  BY Zenon DEF Coming
<1>2. h \in DOMAIN a /\ DOMAIN a = 1 .. Len(a) /\ Len(a) \in Nat
  BY <1>1 DEF Judged, Moves
<1>3. Judged(b, h - 1, x, addr)
  <2>1. h \in Int /\ h - 1 + 0 = h - 1
    OBVIOUS
  <2> QED  BY <1>1, <2>1, JudgedMoves
<1>4. N - l >= 0 /\ t + (N - l) < h - 1
  BY <1>1
<1>5. ASSUME NEW j \in 1 .. h - 1 - 1
      PROVE  IF t < j /\ j <= t + (N - l)
               THEN Fetches(b[j], x, addr, paged, l + j - t) ELSE Switch(b[j])
  <2> DEFINE i == j + 1
  <2>1. i \in 1 .. h - 1 /\ i > 1 /\ i - 1 + 0 = j
    OBVIOUS
  <2>2. i \in DOMAIN a
    BY <1>2, <2>1
  <2>3. b[j] = a[i]
    BY <2>1, <2>2, MovedIs
  <2>4. t < j /\ j <= t + (N - l) <=> s < i /\ i <= s + (N - k)
    BY <1>1
  <2>5. t < j /\ j <= t + (N - l) => l + j - t = k + i - s
    BY <1>1
  <2> HIDE DEF N, i
  <2>6. IF s < i /\ i <= s + (N - k) THEN Fetches(a[i], x, addr, paged, k + i - s)
                                     ELSE Switch(a[i])
    BY <1>1, <2>1
  <2> QED  BY <2>3, <2>4, <2>5, <2>6
<1> QED  BY <1>3, <1>4, <1>5, Zenon DEF Coming

(* A block put behind the bytes that are fetched. *)
LEMMA FetchedMore ==
  ASSUME NEW res, NEW m, NEW x, NEW addr \in Int, NEW n \in Nat, Fetched(res, m, x, addr, n),
         NEW l \in Nat, NEW g, g = [i \in 1 .. l |-> m[x][addr + n + i - 1]]
  PROVE  Fetched(res \o g, m, x, addr, n + l)
<1> DEFINE S == {res[i] : i \in 1 .. n} \cup {g[i] : i \in 1 .. l}
           u == res \o g
           T == {u[i] : i \in DOMAIN u}
<1>1. /\ res = [i \in 1 .. n |-> res[i]] /\ DOMAIN res = 1 .. n
      /\ \A i \in 1 .. n : res[i] = m[x][addr + i - 1]
  BY DEF Fetched
<1>2. /\ g = [i \in 1 .. l |-> g[i]] /\ DOMAIN g = 1 .. l
      /\ \A i \in 1 .. l : g[i] = m[x][addr + n + i - 1]
  OBVIOUS
<1>3. (\A i \in 1 .. n : res[i] \in S) /\ (\A i \in 1 .. l : g[i] \in S)
  OBVIOUS
<1> HIDE DEF S
<1>4. n \in Int /\ l \in Int
  OBVIOUS
<1>5. Sequenced(res) /\ Sequenced(g)
  <2>1. res \in [1 .. n -> S]
    BY <1>1, <1>3, Zenon
  <2>2. g \in [1 .. l -> S]
    BY <1>2, <1>3, Zenon
  <2> HIDE DEF u, T
  <2>3. Sequenced(res)
    <3>1. n \in Int
      OBVIOUS
    <3> QED  BY <2>1, <3>1, ListIs, Zenon
  <2>4. Sequenced(g)
    <3>1. l \in Int
      OBVIOUS
    <3> QED  BY <2>2, <3>1, ListIs, Zenon
  <2> QED  BY <2>3, <2>4
<1>6. Len(res) = n /\ Len(g) = l
  BY <1>1, <1>2, <1>5, SequencedHas
<1>7. /\ Sequenced(u) /\ DOMAIN u = 1 .. Len(res) + Len(g)
      /\ \A i \in DOMAIN u : \/ i \in DOMAIN res /\ u[i] = res[i]
                            \/ /\ i > Len(res) /\ i - Len(res) \in DOMAIN g
                               /\ u[i] = g[i - Len(res)]
  BY <1>5, JoinIs
<1> HIDE DEF u
<1>8. u \in Seq(T)
  BY <1>7 DEF Sequenced
<1> HIDE DEF T
<1>9. u = [i \in 1 .. n + l |-> u[i]]
  <2>1. u \in [1 .. Len(u) -> T] /\ Len(u) \in Nat /\ DOMAIN u = 1 .. Len(u)
    BY <1>8, LenProperties
  <2>2. u = [i \in DOMAIN u |-> u[i]]
    BY <2>1
  <2> QED  BY <1>6, <1>7, <2>2
<1>10. ASSUME NEW i \in 1 .. n + l
       PROVE  u[i] = m[x][addr + i - 1]
  <2>1. CASE i \in DOMAIN res /\ u[i] = res[i]
    BY <1>1, <2>1
  <2>2. CASE i > n /\ i - n \in DOMAIN g /\ u[i] = g[i - n]
    <3>1. i - n \in 1 .. l /\ addr + n + (i - n) - 1 = addr + i - 1
      BY <1>2, <2>2
    <3> QED  BY <1>2, <2>2, <3>1
  <2> QED  BY <1>6, <1>7, <2>1, <2>2
<1>11. u = [i \in 1 .. n + l |-> m[x][addr + i - 1]]
  BY <1>9, <1>10
<1> QED  BY <1>11 DEF Fetched, u

LEMMA PageFetched ==
  ASSUME TargetMemoryAssumption, CacheOK, CacheOK', FreshOK', UNCHANGED <<box, mem>>,
         NEW x \in Areas, NEW addr \in Nat, NEW k \in Nat, NEW e,
         Fetches(e, x, addr, TRUE, k + 1), Copied(e),
         Fetched(result, mem, x, addr, k * Chunk(x, TRUE))
  PROVE  Fetched(result', mem', x, addr, (k + 1) * Chunk(x, TRUE))
<1> DEFINE C == Chunk(x, TRUE)
           f == cache'[x]
           g == CopiedFrom(f, 0, C)
           n == k * C
<1>1. C \in Nat \ {0} /\ C = Carried(x) /\ C <= PageSize[x] /\ PageSize[x] \in Nat
  BY CarriedIs DEF Chunk
<1> HIDE DEF C
<1>2. n \in Nat /\ (k + 1) * C = n + C /\ k + 1 - 1 = k
  BY <1>1
<1>3. e.area = x /\ e.page = addr + n /\ e.offset = 0 /\ e.n = C
  <2>1. e.area = x /\ e.page = addr + (k + 1 - 1) * C /\ e.offset = 0 /\ e.n = C
    BY <1>1 DEF Fetches
  <2> QED  BY <1>2, <2>1
<1> HIDE DEF n
<1>4. f.page = addr + n /\ result' = result \o g
  <2>1. CASE /\ Cached(x, addr + n) /\ UNCHANGED cache
             /\ result' = result \o CopiedFrom(cache[x], 0, C)
    BY <2>1 DEF Cached
  <2>2. CASE /\ cache' = [cache EXCEPT ![x] = FilledCache(x, addr + n)]
             /\ result' = result \o CopiedFrom(FilledCache(x, addr + n), 0, C)
    <3>1. cache'[x] = FilledCache(x, addr + n)
      BY <2>2 DEF CacheOK
    <3>2. cache'[x].page = addr + n
      BY <3>1 DEF FilledCache
    <3> QED  BY <2>2, <3>1, <3>2
  <2> QED  BY <1>3, <2>1, <2>2 DEF Copied
<1>5. DOMAIN f.data = 0 .. PageSize[x] - 1
  BY DEF CacheOK
<1>6. \A i \in 0 .. C - 1 : f.data[i] = mem[x][addr + n + i]
  <2>1. Carried(x)' = C
    BY <1>1 DEF Carried
  <2>2. addr + n # NoPage
    BY <1>2 DEF NoPage
  <2>3. CacheFresh(x)'
    BY DEF FreshOK
  <2> QED  BY <1>4, <2>1, <2>2, <2>3 DEF CacheFresh
<1> HIDE DEF f
<1>7. ASSUME NEW i \in 1 .. C
      PROVE  g[i] = mem[x][addr + n + i - 1]
  <2> DEFINE j == 0 + i - 1
  <2>1. j \in 0 .. C - 1 /\ j \in 0 .. PageSize[x] - 1 /\ addr + n + j = addr + n + i - 1
    BY <1>1, <1>2
  <2>2. g[i] = IF j \in DOMAIN f.data THEN f.data[j] ELSE Junk
    BY DEF CopiedFrom
  <2> HIDE DEF j, g
  <2>3. j \in DOMAIN f.data
    BY <1>5, <2>1
  <2> QED  BY <1>6, <2>1, <2>2, <2>3
<1>8. g = [i \in 1 .. C |-> g[i]]
  BY DEF CopiedFrom
<1> HIDE DEF g
<1>9. g = [i \in 1 .. C |-> mem[x][addr + n + i - 1]]
  BY <1>7, <1>8
<1>10. Fetched(result, mem, x, addr, n)
  BY DEF n, C
<1>11. Fetched(result \o g, mem, x, addr, n + C)
  <2>1. addr \in Int /\ C \in Nat
    BY <1>1
  <2> QED  BY <1>2, <1>9, <1>10, <2>1, FetchedMore
<1> QED  BY <1>2, <1>4, <1>11 DEF C

LEMMA BytesFetched ==
  ASSUME TargetMemoryAssumption, NEW x \in Areas, NEW addr \in Nat, NEW k \in Nat, NEW e,
         Fetches(e, x, addr, FALSE, k), result' = BytesOf(e), UNCHANGED mem
  PROVE  Fetched(result', mem', x, addr, PageSize[x])
<1>1. /\ e.area = x /\ e.asked = PageSize[x] /\ e.addr + e.skip = addr
      /\ e.n - e.skip \in Nat /\ e.n - e.skip >= PageSize[x]
  BY DEF Fetches
<1>2. BytesOf(e) = [i \in 1 .. e.asked |-> IF i <= e.n - e.skip
                                             THEN mem[e.area][e.addr + e.skip + i - 1]
                                             ELSE Junk]
  BY <1>1 DEF BytesOf
<1>3. PICK t \in Nat : t = e.n - e.skip
  BY <1>1
<1>4. PageSize[x] \in Nat /\ t >= PageSize[x]
  BY <1>1, <1>3, CarriedIs
<1>5. BytesOf(e) = [i \in 1 .. PageSize[x] |-> IF i <= t THEN mem[x][addr + i - 1] ELSE Junk]
  BY <1>1, <1>2, <1>3
<1>6. \A i \in 1 .. PageSize[x] : i <= t
  BY <1>4
<1>7. BytesOf(e) = [i \in 1 .. PageSize[x] |-> mem[x][addr + i - 1]]
  BY <1>5, <1>6
<1> QED  BY <1>7 DEF Fetched

(* A page that compares equal is in the target. *)
LEMMA PageCompared ==
  ASSUME TargetMemoryAssumption, NEW x \in Areas, NEW c \in Image[x], NEW addr,
         addr = PageStart(c, PageSize[x]), NEW e,
         e = [do |-> "verify", area |-> x, addr |-> addr],
         Fetched(result, mem, x, addr, PageSize[x]),
         \A i \in DOMAIN result : e.addr + i - 1 \in Image[e.area] =>
                                    result[i] = ImageByte(e.area, e.addr + i - 1)
  PROVE  mem[x][c] = ImageByte(x, c)
<1> DEFINE P == PageSize[x]
           r == c % P
           i == r + 1
<1>1. P \in Nat \ {0} /\ c \in Nat
  BY CarriedIs DEF TargetMemoryAssumption
<1>2. r \in Nat /\ r < P /\ addr = c - r
  BY <1>1 DEF PageStart
<1> HIDE DEF r, P
<1>3. i \in 1 .. P /\ addr + i - 1 = c
  BY <1>1, <1>2
<1> HIDE DEF i
<1>4. result = [j \in 1 .. P |-> mem[x][addr + j - 1]]
  BY DEF Fetched, P
<1>5. i \in DOMAIN result /\ result[i] = mem[x][c]
  BY <1>3, <1>4
<1>6. e.addr = addr /\ e.area = x
  OBVIOUS
<1> QED  BY <1>3, <1>5, <1>6

(* A comparison to come stays to come until its read is made. *)
LEMMA AskedKept ==
  ASSUME TargetMemoryAssumption, IInv, BlocksOK(agenda), Work, Live(agenda', reply'),
         NEW x \in Areas, NEW addr \in Nat, addr % PageSize[x] = 0, Asked(agenda, x, addr)
  PROVE  Asked(agenda', x, addr) \/ Under(agenda', result', mem', x, addr)
<1>1. PICK i \in DOMAIN agenda : /\ agenda[i] = jtagRead(x, addr, PageSize[x])
                                 /\ Judged(agenda, i + 1, x, addr)
  BY DEF Asked
<1>2. i \in Nat /\ i >= 1
  BY FirstOf
<1>3. agenda[i].do = "jtagRead"
  BY <1>1 DEF jtagRead
<1>4. CASE i = 1
  <2>1. CallRead
    BY <1>3, <1>4, ReaderIs
  <2>2. i + 1 = 2
    BY <1>4
  <2>3. agenda[1] = jtagRead(x, addr, PageSize[x]) /\ Judged(agenda, 2, x, addr)
    BY <1>1, <1>4, <2>2
  <2> QED  BY <2>1, <2>3, FetchBegins
<1>5. CASE i > 1
  <2>1. Looks(agenda[i])
    BY <1>3 DEF Looks
  <2>2. PICK k, n \in Nat : Moves(agenda, agenda', k, n) /\ i > k
    BY <1>5, <2>1, LaterMoves
  <2>3. Asked(agenda', x, addr)
    BY <1>1, <2>2, AskedMoves
  <2> QED  BY <2>3
<1> QED  BY <1>2, <1>4, <1>5

(* The outcome is still to be looked at. *)
Ahead(a) == \E l \in DOMAIN a : a[l].do = "verified"

LEMMA AheadMoves ==
  ASSUME NEW a, NEW b, NEW k, NEW n, Moves(a, b, k, n), NEW l \in DOMAIN a, l > k,
         a[l].do = "verified"
  PROVE  Ahead(b)
<1>1. l - k + n \in DOMAIN b /\ b[l - k + n] = a[l]
  BY MovedIs
<1> QED  BY <1>1 DEF Ahead

(* While a page is read nothing but its commands is carried out. *)
LEMMA UnderKept ==
  ASSUME TargetMemoryAssumption, IInv, Shaped, CacheOK, CacheOK', FreshOK', BlocksOK(agenda),
         OrderOK(agenda), Work, Live(agenda', reply'), NEW x \in Areas, NEW c \in Image[x],
         NEW addr \in Nat, addr = PageStart(c, PageSize[x]),
         Under(agenda, result, mem, x, addr)
  PROVE  \/ Under(agenda', result', mem', x, addr)
         \/ Ahead(agenda') /\ (verified' => Settled(agenda', mem', x, c))
<1> DEFINE e == agenda[1]
           N(p) == Chunks(x, p)
           goal == \/ Under(agenda', result', mem', x, addr)
                   \/ Ahead(agenda') /\ (verified' => Settled(agenda', mem', x, c))
<1>1. PICK paged \in BOOLEAN, k \in Nat, s \in Nat, h \in Nat :
        /\ Coming(agenda, x, addr, paged, k, s, h)
        /\ Fetched(result, mem, x, addr, k * Chunk(x, paged))
  BY DEF Under
<1>2. /\ agenda # <<>> /\ Sequenced(agenda) /\ 1 \in DOMAIN agenda
      /\ DOMAIN agenda = 1 .. Len(agenda) /\ Len(agenda) \in Nat /\ UNCHANGED box
  BY FirstOf, WorkIs
<1>3. /\ Chunk(x, paged) \in Nat \ {0} /\ N(paged) \in Nat
      /\ N(paged) * Chunk(x, paged) = PageSize[x]
      /\ (~paged => N(paged) = 1) /\ PageSize[x] \in Nat
  BY ChunksAre, CarriedIs
<1>4. /\ h \in DOMAIN agenda /\ agenda[h].do = "verify" /\ h >= 1
      /\ \A j \in 1 .. h - 1 : agenda[j].do \in {"page", "bytes", "enable", "disable"}
      /\ h = 1 => k = N(paged)
      /\ h > 1 /\ s = 0 /\ k # N(paged)
           => k < N(paged) /\ Fetches(e, x, addr, paged, k + 1)
      /\ h > 1 /\ (s > 0 \/ k = N(paged)) => Switch(e)
  <2>1. Coming(agenda, x, addr, paged, k, s, h) /\ Chunks(x, paged) \in Nat
    BY <1>1, <1>3
  <2>2. DOMAIN agenda = 1 .. Len(agenda)
    BY <1>2
  <2>3. Foreseen(agenda, x, addr, paged, k, s, h)
    BY <2>1, <2>2, ComingIs
  <2> QED  BY <2>3, Zenon DEF Foreseen
<1>5. e.do \in {"page", "bytes", "enable", "disable", "verify"}
  BY <1>4
<1>6. agenda' = Rest => Moves(agenda, agenda', 1, 0)
  BY <1>2, TailMoves DEF Rest
<1>7. ASSUME NEW j \in Nat, Passes(agenda, agenda', j)
      PROVE  FALSE
  <2>1. /\ j \in Nat /\ j >= 1 /\ agenda[j].do = "catch"
        /\ \A i \in 1 .. j : ~Looks(agenda[i])
    BY <1>7 DEF Passes
  <2>2. CASE j < h
    <3>1. j \in 1 .. h - 1
      BY <2>1, <2>2
    <3> QED  BY <1>4, <2>1, <3>1
  <2>3. CASE j >= h
    <3>1. h \in 1 .. j /\ Looks(agenda[h])
      BY <1>4, <2>3 DEF Looks
    <3> QED  BY <2>1, <3>1
  <2> QED  BY <2>1, <2>2, <2>3
<1>8. CASE e.do \in {"enable", "disable"} /\ agenda' = Rest /\ UNCHANGED <<mem, result, verified>>
  <2>1. h > 1
    BY <1>4, <1>8
  <2>2. s > 0 \/ (s = 0 /\ k = N(paged))
    <3>1. ~Fetches(e, x, addr, paged, k + 1)
      BY <1>8 DEF Fetches
    <3> QED  BY <1>4, <2>1, <3>1
  <2>3. PICK t \in Nat : (s > 0 /\ t = s - 1) \/ (s = 0 /\ k = N(paged) /\ t = 0)
    <3>1. s > 0 => s - 1 \in Nat
      OBVIOUS
    <3> QED  BY <2>2, <3>1
  <2>4. Coming(agenda', x, addr, paged, k, t, h - 1)
    BY <1>1, <1>3, <1>6, <1>8, <2>1, <2>3, ComingOn
  <2>5. Fetched(result', mem', x, addr, k * Chunk(x, paged)) /\ h - 1 \in Nat
    BY <1>1, <1>8, <2>1
  <2> QED  BY <2>4, <2>5 DEF Under
<1>9. CASE e.do = "bytes" /\ agenda' = <<[e EXCEPT !.cnt = 1]>> \o Rest
           /\ UNCHANGED <<mem, result, verified>>
  <2> DEFINE d == [e EXCEPT !.cnt = 1]
           w == <<d>>
  <2>1. Sequenced(w) /\ Len(w) = 1 /\ w[1] = d /\ agenda' = w \o Tail(agenda)
    BY <1>9, SequencedOne DEF Rest
  <2> HIDE DEF w, d
  <2>2. Moves(agenda, agenda', 1, 1) /\ agenda'[1] = d
    <3>1. /\ Moves(agenda, w \o Tail(agenda), 1, Len(w))
          /\ \A i \in 1 .. Len(w) : (w \o Tail(agenda))[i] = w[i]
      <4>1. agenda # <<>> /\ Sequenced(agenda) /\ Sequenced(w)
        BY <1>2, <2>1
      <4> QED  BY <4>1, ReplacedMoves
    <3>2. 1 \in 1 .. Len(w)
      BY <2>1
    <3> QED  BY <2>1, <3>1, <3>2, Zenon
  <2>3. h > 1
    BY <1>4, <1>9
  <2>4. Fetches(e, x, addr, paged, k + 1) => Fetches(d, x, addr, paged, k + 1)
    BY DEF Fetches, d
  <2>5. Coming(agenda', x, addr, paged, k, s, h)
    <3> DEFINE left == N(paged) - k
    <3>1. ~Switch(e)
      BY <1>9 DEF Switch
    <3>2. s = 0 /\ k # N(paged) /\ Fetches(d, x, addr, paged, k + 1) /\ k < N(paged)
      BY <1>4, <2>3, <2>4, <3>1
    <3>3. left >= 1 /\ left \in Int /\ s + left < h
      BY <1>1, <1>3, <3>2 DEF Coming
    <3>4. ASSUME NEW j \in 1 .. h - 1
          PROVE  IF s < j /\ j <= s + left THEN Fetches(agenda'[j], x, addr, paged, k + j - s)
                                            ELSE Switch(agenda'[j])
      <4>1. CASE j = 1
        <5>1. s < j /\ j <= s + left /\ k + j - s = k + 1
          BY <3>2, <3>3, <4>1
        <5> QED  BY <2>2, <3>2, <4>1, <5>1
      <4>2. CASE j > 1
        <5>1. j \in DOMAIN agenda
          BY <1>2, <1>4
        <5>2. agenda'[j - 1 + 1] = agenda[j] /\ j - 1 + 1 = j
          BY <2>2, <4>2, <5>1 DEF Moves
        <5>3. IF s < j /\ j <= s + left THEN Fetches(agenda[j], x, addr, paged, k + j - s)
                                         ELSE Switch(agenda[j])
          BY <1>1 DEF Coming
        <5> QED  BY <5>2, <5>3
      <4> QED  BY <4>1, <4>2
    <3>5. Judged(agenda', h, x, addr)
      <4>1. Judged(agenda', h - 1 + 1, x, addr)
        <5>1. Judged(agenda, h, x, addr) /\ h \in Int /\ h > 1
          BY <1>1, <2>3 DEF Coming
        <5> QED  BY <2>2, <5>1, JudgedMoves
      <4>2. h - 1 + 1 = h
        OBVIOUS
      <4> QED  BY <4>1, <4>2
    <3>6. left >= 0
      BY <3>3
    <3> QED  BY <3>3, <3>4, <3>5, <3>6, Zenon DEF Coming
  <2> QED  BY <1>1, <1>9, <2>5 DEF Under
<1>10. CASE e.do = "page" /\ agenda' = Rest /\ Copied(e) /\ UNCHANGED <<mem, verified>>
  <2>1. h > 1
    BY <1>4, <1>10
  <2>2. ~Switch(e)
    BY <1>10 DEF Switch
  <2>3. s = 0 /\ k # N(paged) /\ Fetches(e, x, addr, paged, k + 1)
    BY <1>4, <2>1, <2>2
  <2>4. paged = TRUE
    BY <1>10, <2>3 DEF Fetches
  <2>5. Coming(agenda', x, addr, paged, k + 1, 0, h - 1)
    <3>1. PICK l \in Nat : l = k + 1
      OBVIOUS
    <3>2. Coming(agenda', x, addr, paged, l, 0, h - 1)
      BY <1>1, <1>3, <1>6, <1>10, <2>1, <2>3, <3>1, ComingOn
    <3> QED  BY <3>1, <3>2
  <2>6. Fetched(result', mem', x, addr, (k + 1) * Chunk(x, paged))
    <3>1. Fetches(e, x, addr, TRUE, k + 1) /\ Fetched(result, mem, x, addr, k * Chunk(x, TRUE))
      BY <1>1, <2>3, <2>4
    <3> QED  BY <1>2, <1>10, <2>4, <3>1, PageFetched
  <2>7. k + 1 \in Nat /\ 0 \in Nat /\ h - 1 \in Nat
    BY <2>1
  <2> QED  BY <2>5, <2>6, <2>7 DEF Under
<1>11. CASE e.do = "bytes" /\ agenda' = Rest /\ result' = BytesOf(e) /\ UNCHANGED <<mem, verified>>
  <2>1. h > 1
    BY <1>4, <1>11
  <2>2. ~Switch(e)
    BY <1>11 DEF Switch
  <2>3. s = 0 /\ k # N(paged) /\ k < N(paged) /\ Fetches(e, x, addr, paged, k + 1)
    BY <1>4, <2>1, <2>2
  <2>4. paged = FALSE
    BY <1>11, <2>3 DEF Fetches
  <2>5. Coming(agenda', x, addr, paged, k + 1, 0, h - 1)
    <3>1. PICK l \in Nat : l = k + 1
      OBVIOUS
    <3>2. Coming(agenda', x, addr, paged, l, 0, h - 1)
      BY <1>1, <1>3, <1>6, <1>11, <2>1, <2>3, <3>1, ComingOn
    <3> QED  BY <3>1, <3>2
  <2>6. k + 1 = N(paged)
    BY <1>3, <2>3, <2>4
  <2>7. (k + 1) * Chunk(x, paged) = PageSize[x]
    BY <1>3, <2>6
  <2>8. Fetches(e, x, addr, FALSE, k + 1)
    BY <2>3, <2>4, Zenon
  <2>9. Fetched(result', mem', x, addr, PageSize[x])
    <3>1. k + 1 \in Nat
      OBVIOUS
    <3> QED  BY <1>11, <2>8, <3>1, BytesFetched
  <2>10. k + 1 \in Nat /\ 0 \in Nat /\ h - 1 \in Nat
    BY <2>1
  <2> QED  BY <2>5, <2>7, <2>9, <2>10 DEF Under
<1>12. CASE /\ e.do = "verify" /\ agenda' = Rest /\ UNCHANGED <<mem, result>>
            /\ verified' = (verified /\ \A i \in DOMAIN result :
                               e.addr + i - 1 \in Image[e.area] =>
                                 result[i] = ImageByte(e.area, e.addr + i - 1))
  <2>1. h = 1
    <3>1. CASE h > 1
      <4>1. 1 \in 1 .. h - 1
        BY <3>1
      <4> QED  BY <1>4, <1>12, <4>1
    <3> QED  BY <1>4, <3>1
  <2>2. k * Chunk(x, paged) = PageSize[x]
    BY <1>3, <1>4, <2>1
  <2>3. /\ e = [do |-> "verify", area |-> x, addr |-> addr]
        /\ \E l \in DOMAIN agenda : l > 1 /\ agenda[l].do = "verified"
    BY <1>1, <2>1 DEF Coming, Judged
  <2>4. Ahead(agenda')
    BY <1>6, <1>12, <2>3, AheadMoves
  <2>5. Calm(agenda', x)
    <3>1. Tells(e, x)
      BY <2>3 DEF Tells
    <3>2. \A i \in DOMAIN agenda' : 1 + i \in DOMAIN agenda /\ agenda'[i] = agenda[1 + i] /\ 1 < 1 + i
      <4>1. \A i \in DOMAIN agenda' : i > 0 => /\ i - 0 + 1 \in DOMAIN agenda /\ i - 0 + 1 > 1
                                              /\ agenda'[i] = agenda[i - 0 + 1]
        BY <1>6, <1>12, MovedIs
      <4>2. \A i \in DOMAIN agenda' : i \in Int /\ i > 0
        BY <1>6, <1>12 DEF Moves
      <4> QED  BY <4>1, <4>2
    <3> QED  BY <1>2, <3>1, <3>2 DEF OrderOK, Calm
  <2>6. ASSUME verified' PROVE mem[x][c] = ImageByte(x, c)
    <3>1. Fetched(result, mem, x, addr, PageSize[x])
      BY <1>1, <2>2
    <3>2. \A i \in DOMAIN result : e.addr + i - 1 \in Image[e.area] =>
                                     result[i] = ImageByte(e.area, e.addr + i - 1)
      BY <1>12, <2>6, Zenon
    <3> HIDE DEF e
    <3> QED  BY <2>3, <3>1, <3>2, PageCompared
  <2> QED  BY <1>12, <2>4, <2>5, <2>6 DEF Settled
<1>13. ~CallRead /\ ~CallWrite
  BY <1>5, HeadIs DEF CallRead, CallWrite
<1> QED  BY <1>5, <1>7, <1>8, <1>9, <1>10, <1>11, <1>12, <1>13, LiveCases

LEMMA Multiple ==
  ASSUME NEW P \in Nat \ {0}, NEW q \in Nat, NEW a, a = P * q
  PROVE  a \in Nat /\ a % P = 0 /\ a \div P = q
<1>1. a \in Nat
  OBVIOUS
<1>2. a \div P = q
  <2>1. 0 \in Nat /\ 0 < P /\ a = P * q + 0
    BY <1>1
  <2> QED  BY <1>1, <2>1, Quotient
<1>3. a = P * (a \div P) + (a % P) /\ a % P \in Nat
  BY <1>1
<1> QED  BY <1>1, <1>2, <1>3

LEMMA StartIs ==
  ASSUME NEW P \in Nat \ {0}, NEW c \in Nat
  PROVE  /\ PageStart(c, P) \in Nat /\ PageStart(c, P) % P = 0
         /\ c \div P \in Nat /\ PageStart(c, P) = P * (c \div P)
<1> DEFINE q == c \div P
           r == c % P
<1>1. c = P * q + r /\ q \in Nat /\ r \in Nat
  OBVIOUS
<1> HIDE DEF q
<1>2. PageStart(c, P) = P * q
  BY <1>1 DEF PageStart
<1> QED  BY <1>1, <1>2, Multiple DEF q

(* The outcome is looked at before it is forgotten. *)
LEMMA AheadKept ==
  ASSUME TargetMemoryAssumption, IInv, Shaped, BlocksOK(agenda), OrderOK(agenda), Work,
         Live(agenda', reply'), NEW x \in Areas, NEW c,
         Ahead(agenda), verified => Settled(agenda, mem, x, c)
  PROVE  \/ Ahead(agenda') /\ (verified' => Settled(agenda', mem', x, c))
         \/ Settled(agenda', mem', x, c)
<1> DEFINE e == agenda[1]
<1>1. PICK l \in DOMAIN agenda : agenda[l].do = "verified"
  BY DEF Ahead
<1>2. l \in Nat /\ l >= 1
  BY FirstOf
<1>3. CASE verified
  <2>1. Settled(agenda', mem', x, c)
    BY <1>3, SettledKept
  <2> QED  BY <2>1
<1>4. CASE ~verified
  <2>1. l > 1
    <3>1. CASE l = 1
      <4>1. e.do = "verified"
        BY <1>1, <3>1
      <4>2. ~CallRead /\ ~CallWrite
        BY <4>1, HeadIs DEF CallRead, CallWrite
      <4>3. PICK k \in Nat : Passes(agenda, agenda', k)
        BY <1>4, <4>1, <4>2, LiveCases
      <4>4. k >= 1 /\ \A j \in 1 .. k : ~Looks(agenda[j])
        BY <4>3 DEF Passes
      <4>5. Looks(agenda[1])
        BY <4>1 DEF Looks
      <4> QED  BY <4>4, <4>5
    <3> QED  BY <1>2, <3>1
  <2>2. Looks(agenda[l])
    BY <1>1 DEF Looks
  <2>3. PICK k, n \in Nat : Moves(agenda, agenda', k, n) /\ l > k
    BY <2>1, <2>2, LaterMoves
  <2>4. Ahead(agenda')
    BY <1>1, <2>3, AheadMoves
  <2>5. ~verified'
    <3>1. CASE CallRead \/ CallWrite
      BY <1>4, <3>1 DEF CallRead, CallWrite, answer
    <3> QED  BY <1>4, <3>1, LiveCases
  <2> QED  BY <2>4, <2>5
<1> QED  BY <1>3, <1>4

(* What is left to find out of a byte, or what was found out, stays. *)
LEMMA CheckedKept ==
  ASSUME TargetMemoryAssumption, IInv, Shaped, CacheOK, CacheOK', FreshOK', BlocksOK(agenda),
         OrderOK(agenda), Work, Live(agenda', reply'), NEW x \in Areas, NEW c \in Image[x],
         CellChecked(agenda, result, mem, verified, x, c)
  PROVE  CellChecked(agenda', result', mem', verified', x, c)
<1> DEFINE addr == PageStart(c, PageSize[x])
<1>1. addr \in Nat /\ addr % PageSize[x] = 0
  <2>1. PageSize[x] \in Nat \ {0} /\ c \in Nat
    BY DEF TargetMemoryAssumption
  <2> QED  BY <2>1, StartIs
<1>2. CASE Asked(agenda, x, addr)
  <2> HIDE DEF addr
  <2>1. Asked(agenda', x, addr) \/ Under(agenda', result', mem', x, addr)
    BY <1>1, <1>2, AskedKept
  <2> QED  BY <2>1 DEF CellChecked, addr
<1>3. CASE Under(agenda, result, mem, x, addr)
  <2>1. addr = PageStart(c, PageSize[x])
    OBVIOUS
  <2> HIDE DEF addr
  <2>2. \/ Under(agenda', result', mem', x, addr)
        \/ Ahead(agenda') /\ (verified' => Settled(agenda', mem', x, c))
    BY <1>1, <1>3, <2>1, UnderKept
  <2> QED  BY <2>2 DEF CellChecked, Ahead, addr
<1>4. CASE Ahead(agenda) /\ (verified => Settled(agenda, mem, x, c))
  <2>1. \/ Ahead(agenda') /\ (verified' => Settled(agenda', mem', x, c))
        \/ Settled(agenda', mem', x, c)
    BY <1>4, AheadKept
  <2> QED  BY <2>1 DEF CellChecked, Ahead
<1>5. CASE Settled(agenda, mem, x, c)
  BY <1>5, SettledKept DEF CellChecked
<1>6. CASE agenda[1].do = "give up"
  <2>1. ~CallRead /\ ~CallWrite
    <3>1. ~Doing("jtagRead") /\ ~Doing("jtagWrite")
      <4>1. Doing("jtagRead") => agenda[1].do = "jtagRead"
        BY HeadIs
      <4>2. Doing("jtagWrite") => agenda[1].do = "jtagWrite"
        BY HeadIs
      <4> QED  BY <1>6, <4>1, <4>2
    <3> QED  BY <3>1 DEF CallRead, CallWrite
  <2>2. PICK k \in Nat : Passes(agenda, agenda', k)
    BY <1>6, <2>1, LiveCases
  <2>3. k >= 1 /\ \A j \in 1 .. k : ~Looks(agenda[j])
    BY <2>2 DEF Passes
  <2>4. Looks(agenda[1])
    BY <1>6 DEF Looks
  <2> QED  BY <2>3, <2>4
<1> QED  BY <1>2, <1>3, <1>4, <1>5, <1>6 DEF CellChecked, Ahead

(* The answer that is still to be expected was to be expected before. *)
LEMMA LiveBefore ==
  ASSUME TargetMemoryAssumption, IInv, BlocksOK(agenda), Work, Live(agenda', reply')
  PROVE  Live(agenda, reply)
<1>1. CASE reply' = "ok"
  <2>1. reply = "ok" \/ agenda[1].do = "reply"
    <3>1. CASE CallRead \/ CallWrite
      BY <1>1, <3>1 DEF CallRead, CallWrite, answer
    <3>2. CASE ThrowText
      BY <1>1, <3>2 DEF ThrowText, answer
    <3> QED  BY <1>1, <3>1, <3>2, WorkCases
  <2> QED  BY <2>1, FirstOf DEF Live
<1>2. CASE \E i \in DOMAIN agenda' : agenda'[i].do = "reply"
  <2>1. PICK i \in DOMAIN agenda' : agenda'[i].do = "reply"
    BY <1>2
  <2>2. agenda' # <<>>
    <3>1. agenda' = <<>> => DOMAIN agenda' = {}
      OBVIOUS
    <3> QED  BY <3>1
  <2>3. PICK k, n \in Nat : Follows(agenda, agenda', k, n)
    BY <2>2, WorkProgress, ProgressFollows
  <2>4. \/ k \in DOMAIN agenda /\ Stands(agenda'[i], agenda[k])
        \/ i - n + k \in DOMAIN agenda /\ agenda'[i] = agenda[i - n + k]
    BY <2>3, FollowsIs
  <2>5. ~Stands(agenda'[i], agenda[k])
    BY <2>1 DEF Stands
  <2> QED  BY <2>1, <2>4, <2>5 DEF Live
<1> QED  BY <1>1, <1>2 DEF Live

LEMMA NoPagesKept ==
  ASSUME TargetMemoryAssumption, IInv, BlocksOK(agenda), Work, NoPages(agenda)
  PROVE  BlocksOK(agenda') /\ NoPages(agenda')
<1>1. agenda' = <<>> => DOMAIN agenda' = {}
  OBVIOUS
<1>2. CASE agenda' = <<>>
  BY <1>1, <1>2 DEF BlocksOK, NoPages
<1>3. ASSUME NEW k \in Nat, NEW n \in Nat, Follows(agenda, agenda', k, n)
      PROVE  BlocksOK(agenda') /\ NoPages(agenda')
  <2>1. BlocksOK(agenda')
    BY <1>3, BlocksFollow
  <2>2. ASSUME NEW i \in DOMAIN agenda', NEW x \in Areas
        PROVE  ~Tells(agenda'[i], x)
    <3>1. \/ k \in DOMAIN agenda /\ Stands(agenda'[i], agenda[k])
          \/ i - n + k \in DOMAIN agenda /\ agenda'[i] = agenda[i - n + k]
      BY <1>3, FollowsIs
    <3> QED  BY <3>1 DEF Stands, NoPages
  <2> QED  BY <2>1, <2>2 DEF NoPages
<1> QED  BY <1>2, <1>3, WorkProgress, ProgressFollows

LEMMA StageIs ==
  ASSUME Work
  PROVE  stage' = stage \/ stage' = gone
<1>1. CASE CallRead \/ CallWrite \/ ThrowText \/ TryBlock \/ Answer
  BY <1>1 DEF CallRead, CallWrite, ThrowText, TryBlock, Answer, session
<1>2. Throw => stage' = stage \/ stage' = gone
  BY Zenon DEF Throw
<1>3. CASE enableProgramming \/ disableProgramming
  <2>1. PICK on : SetMode(on)
    BY <1>3 DEF enableProgramming, disableProgramming
  <2>2. Throw \/ UNCHANGED session
    BY <2>1, Zenon DEF SetMode
  <2> QED  BY <1>2, <2>2 DEF session
<1>4. CASE EraseProgramMemory
  BY <1>2, <1>4, Zenon DEF EraseProgramMemory, session
<1>5. CASE ReadPage \/ ReadBytes \/ WriteBytes
  <2>1. Throw \/ UNCHANGED session \/ UNCHANGED <<session, faults>>
           \/ UNCHANGED <<result, session>>
    BY <1>5, ZenonT(60) DEF ReadPage, ReadBytes, WriteBytes
  <2> QED  BY <1>2, <2>1 DEF session
<1>6. CASE VerifyPage \/ Verified \/ GiveUp
  <2>1. Throw \/ UNCHANGED session \/ UNCHANGED <<session, faults>>
    BY <1>6, ZenonT(60) DEF VerifyPage, Verified, GiveUp
  <2> QED  BY <1>2, <2>1 DEF session
<1> QED  BY <1>1, <1>3, <1>4, <1>5, <1>6 DEF Work

(* What is checked does not depend on when it is said. *)
LEMMA SameUnder ==
  ASSUME UNCHANGED box, NEW x, NEW addr, Under(agenda', result', mem', x, addr)
  PROVE  Under(agenda, result, mem, x, addr)'
<1>1. PICK paged \in BOOLEAN, k \in Nat, s \in Nat, h \in Nat :
        /\ Coming(agenda', x, addr, paged, k, s, h)
        /\ Fetched(result', mem', x, addr, k * Chunk(x, paged))
  BY DEF Under
<1>2. Chunk(x, paged)' = Chunk(x, paged) /\ Chunks(x, paged)' = Chunks(x, paged)
  BY DEF Chunk, Chunks, Carried
<1>3. \A e, m : Fetches(e, x, addr, paged, m) => Fetches(e, x, addr, paged, m)'
  BY DEF Fetches, Carried
<1>4. Coming(agenda, x, addr, paged, k, s, h)'
  BY <1>1, <1>2, <1>3, ZenonT(60) DEF Coming
<1>5. Fetched(result, mem, x, addr, k * Chunk(x, paged))'
  BY <1>1, <1>2 DEF Fetched
<1> QED  BY <1>4, <1>5 DEF Under

LEMMA SameChecked ==
  ASSUME UNCHANGED box, NEW x, NEW c, CellChecked(agenda', result', mem', verified', x, c)
  PROVE  CellChecked(agenda, result, mem, verified, x, c)'
<1> DEFINE addr == PageStart(c, PageSize[x])
<1>1. Under(agenda', result', mem', x, addr) => Under(agenda, result, mem, x, addr)'
  BY SameUnder
<1> QED  BY <1>1 DEF CellChecked, Asked, Judged, Settled, Calm

LEMMA WorkDue ==
  ASSUME TargetMemoryAssumption, IInv, Shaped, CacheOK, CacheOK', DownloadDue, Work
  PROVE  DownloadDue'
<1>1. UNCHANGED <<box, request>>
  BY WorkIs
<1>2. ASSUME stage' < 6
      PROVE  /\ BlocksOK(agenda)' /\ NoPages(agenda)'
             /\ \A x \in Areas : cache'[x].page = NoPage
  <2>1. stage < 6
    <3>1. serving = 8 /\ gone = 9
      BY OptionIs DEF Options
    <3> QED  BY <1>2, <3>1, StageIs
  <2>2. BlocksOK(agenda) /\ NoPages(agenda) /\ \A x \in Areas : cache[x].page = NoPage
    BY <2>1 DEF DownloadDue
  <2>3. BlocksOK(agenda') /\ NoPages(agenda')
    BY <2>2, NoPagesKept
  <2>4. ASSUME NEW x \in Areas
        PROVE  cache'[x].page = NoPage
    <3>1. CASE UNCHANGED cache
      BY <2>2, <3>1
    <3>2. CASE /\ agenda[1].do = "page"
               /\ cache' = [cache EXCEPT ![agenda[1].area] =
                              FilledCache(agenda[1].area, agenda[1].page)]
      <4>1. ~Tells(agenda[1], x)
        BY <2>2, FirstOf DEF NoPages
      <4>2. agenda[1].area # x
        BY <3>2, <4>1 DEF Tells
      <4>3. cache'[x] = cache[x]
        BY <3>2, <4>2 DEF CacheOK
      <4> QED  BY <2>2, <4>3
    <3> QED  BY <3>1, <3>2, CacheIs
  <2> QED  BY <2>3, <2>4 DEF BlocksOK, NoPages
<1>3. ASSUME request'.cmd = "download"
      PROVE  /\ BlocksOK(agenda)' /\ OrderOK(agenda)' /\ FreshOK'
             /\ request'.n = 1 /\ Live(agenda', reply')
                  => AllChecked(agenda, result, mem, verified)'
  <2>1. /\ BlocksOK(agenda) /\ OrderOK(agenda) /\ FreshOK
        /\ request.n = 1 /\ Live(agenda, reply) => AllChecked(agenda, result, mem, verified)
    BY <1>1, <1>3 DEF DownloadDue
  <2>2. BlocksOK(agenda') /\ OrderOK(agenda')
    BY <2>1, OrderKept
  <2>3. FreshOK'
    BY <2>1, FreshKept
  <2>4. ASSUME request'.n = 1, Live(agenda', reply'), NEW x \in Areas, NEW c \in Image[x]
        PROVE  CellChecked(agenda, result, mem, verified, x, c)'
    <3>1. Live(agenda, reply)
      BY <2>1, <2>4, LiveBefore
    <3>2. CellChecked(agenda, result, mem, verified, x, c)
      BY <1>1, <2>1, <2>4, <3>1 DEF AllChecked
    <3>3. CellChecked(agenda', result', mem', verified', x, c)
      BY <2>1, <2>3, <2>4, <3>2, CheckedKept
    <3> QED  BY <1>1, <3>3, SameChecked
  <2> QED  BY <2>2, <2>3, <2>4 DEF BlocksOK, OrderOK, AllChecked
<1> QED  BY <1>2, <1>3 DEF DownloadDue, Live

(* What neither reads a memory nor is a handler of errors. *)
Plain(a) ==
  /\ Sequenced(a)
  /\ \A i \in DOMAIN a : a[i].do # "catch" /\ \A x \in Areas : ~Tells(a[i], x)

Joined(u, a, b) ==
  /\ Sequenced(u) /\ DOMAIN u = 1 .. Len(a) + Len(b)
  /\ \A i \in DOMAIN u : \/ i \in DOMAIN a /\ u[i] = a[i]
                        \/ /\ i > Len(a) /\ i - Len(a) \in DOMAIN b
                           /\ u[i] = b[i - Len(a)]
  /\ \A i \in DOMAIN a : i \in DOMAIN u /\ u[i] = a[i]
  /\ \A i \in DOMAIN b : Len(a) + i \in DOMAIN u /\ u[Len(a) + i] = b[i]

LEMMA JoinHas ==
  ASSUME NEW a, NEW b, Sequenced(a), Sequenced(b), NEW u, u = a \o b
  PROVE  /\ Sequenced(u) /\ DOMAIN u = 1 .. Len(a) + Len(b)
         /\ \A i \in DOMAIN u : \/ i \in DOMAIN a /\ u[i] = a[i]
                               \/ /\ i > Len(a) /\ i - Len(a) \in DOMAIN b
                                  /\ u[i] = b[i - Len(a)]
         /\ \A i \in DOMAIN a : i \in DOMAIN u /\ u[i] = a[i]
         /\ \A i \in DOMAIN b : Len(a) + i \in DOMAIN u /\ u[Len(a) + i] = b[i]
BY JoinIs

LEMMA JoinIsJoined ==
  ASSUME NEW a, NEW b, Sequenced(a), Sequenced(b)
  PROVE  Joined(a \o b, a, b)
<1>1. PICK u : u = a \o b
  OBVIOUS
<1>2. Sequenced(u) /\ DOMAIN u = 1 .. Len(a) + Len(b)
  BY <1>1, JoinIs
<1>3. \A i \in DOMAIN u : \/ i \in DOMAIN a /\ u[i] = a[i]
                         \/ /\ i > Len(a) /\ i - Len(a) \in DOMAIN b
                            /\ u[i] = b[i - Len(a)]
  BY <1>1, JoinIs
<1>4. \A i \in DOMAIN a : i \in DOMAIN u /\ u[i] = a[i]
  BY <1>1, JoinIs
<1>5. \A i \in DOMAIN b : Len(a) + i \in DOMAIN u /\ u[Len(a) + i] = b[i]
  BY <1>1, JoinIs
<1>6. Joined(u, a, b)
  BY <1>2, <1>3, <1>4, <1>5, Zenon DEF Joined
<1> QED  BY <1>1, <1>6

LEMMA JoinPlain ==
  ASSUME NEW a, NEW b, Plain(a), Plain(b)
  PROVE  Plain(a \o b)
<1> DEFINE c == a \o b
<1>1. /\ Sequenced(c)
      /\ \A i \in DOMAIN c : \/ i \in DOMAIN a /\ c[i] = a[i]
                             \/ i - Len(a) \in DOMAIN b /\ c[i] = b[i - Len(a)]
  <2>1. Sequenced(a) /\ Sequenced(b)
    BY DEF Plain
  <2> QED  BY <2>1, JoinIs
<1> HIDE DEF c
<1>2. Plain(c)
  BY <1>1 DEF Plain
<1> QED  BY <1>2 DEF c

LEMMA OnePlain ==
  ASSUME NEW e, e.do # "catch", \A x \in Areas : ~Tells(e, x)
  PROVE  Plain(<<e>>) /\ Plain(<<>>)
<1>1. Sequenced(<<e>>) /\ DOMAIN <<e>> = {1} /\ <<e>>[1] = e
  BY SequencedOne
<1>2. Sequenced(<<>>) /\ DOMAIN <<>> = {}
  BY NothingFits DEF Fits
<1> QED  BY <1>1, <1>2 DEF Plain

LEMMA ElementsPlain ==
  ASSUME NEW S, NEW a \in Seq(S), \A e \in S : e.do # "catch" /\ \A x \in Areas : ~Tells(e, x)
  PROVE  Plain(a)
<1>1. \A i \in DOMAIN a : a[i] \in S
  OBVIOUS
<1> QED  BY <1>1, SequencedIs DEF Plain

LEMMA PlainIs ==
  ASSUME NEW a, Plain(a)
  PROVE  BlocksOK(a) /\ NoPages(a)
BY DEF Plain, BlocksOK, NoPages

(* The options before the download read no memory. *)
LEMMA OptionReadsNone ==
  ASSUME NEW k \in DOMAIN Options, k < 6, NEW program, NEW verify, NEW a,
         a = Option(Options[k], program, verify) \o <<Do("reply")>>
  PROVE  BlocksOK(a) /\ NoPages(a)
<1> DEFINE x == Option(Options[k], program, verify)
           fuses == jtagRead("fuse", 0, 3)
           locks == jtagRead("lock", 0, 1)
           erase == Do("erase")
           catch == Do("catch")
           on    == Do("enable")
           off   == Do("disable")
           end   == Do("reply")
           wf    == jtagWrite("fuse", 0, <<FF, FF, FF>>)
           wo    == jtagWrite("fuse", 0, <<FF>>)
<1>1. /\ \A y \in Areas : /\ ~Tells(fuses, y) /\ ~Tells(locks, y) /\ ~Tells(erase, y)
                          /\ ~Tells(catch, y) /\ ~Tells(on, y) /\ ~Tells(off, y)
                          /\ ~Tells(end, y) /\ ~Tells(wf, y) /\ ~Tells(wo, y)
      /\ fuses.do # "catch" /\ locks.do # "catch" /\ erase.do # "catch" /\ on.do # "catch"
      /\ off.do # "catch" /\ end.do # "catch" /\ wf.do # "catch" /\ wo.do # "catch"
  BY DEF Tells, Areas, jtagRead, jtagWrite, Do
<1>2. ~Looks(wf)
  BY DEF Looks, jtagWrite
<1> HIDE DEF fuses, locks, erase, catch, on, off, end, wf, wo
<1>3. /\ Plain(<<fuses>>) /\ Plain(<<locks>>) /\ Plain(<<erase>>) /\ Plain(<<on>>)
      /\ Plain(<<off>>) /\ Plain(<<end>>) /\ Plain(<<wo>>) /\ Plain(<<>>)
  BY <1>1, OnePlain
<1>4. \A u : Plain(u) => Plain(<<on>> \o u \o <<off>>) /\ Plain(u \o <<end>>)
  BY <1>3, JoinPlain
<1>5. Plain(<<on, erase, off>>) /\ Plain(<<on, locks, off>>)
  <2> DEFINE S == {on, erase, locks, off}
  <2>1. <<on, erase, off>> \in Seq(S) /\ <<on, locks, off>> \in Seq(S)
    OBVIOUS
  <2>2. \A e \in S : e.do # "catch" /\ \A y \in Areas : ~Tells(e, y)
    BY <1>1
  <2> HIDE DEF S
  <2> QED  BY <2>1, <2>2, ElementsPlain
<1>7. /\ Options[1] = "erase" /\ Options[2] = "readFuses" /\ Options[3] = "readLockBits"
      /\ Options[4] = "writeFuses" /\ Options[5] = "debug"
      /\ k \in {1, 2, 3, 4, 5}
  <2>1. k \in 1 .. 7
    BY OptionIs
  <2> QED  BY <2>1 DEF Options
<1>8. ASSUME Plain(x)
      PROVE  BlocksOK(a) /\ NoPages(a)
  <2>1. Plain(a)
    BY <1>4, <1>8 DEF end
  <2> QED  BY <2>1, PlainIs
<1>9. CASE k = 1
  <2>1. x = IF box.proto = "dw" THEN <<>> ELSE <<on, erase, off>>
    BY <1>7, <1>9, Zenon DEF Option, on, erase, off
  <2> QED  BY <1>3, <1>5, <1>8, <2>1, Zenon
<1>10. CASE k = 2
  <2>1. x = <<fuses>>
    BY <1>7, <1>10, Zenon DEF Option, fuses
  <2> QED  BY <1>3, <1>8, <2>1, Zenon
<1>11. CASE k = 3
  <2>1. x = <<on, locks, off>>
    BY <1>7, <1>11, Zenon DEF Option, on, locks, off
  <2> QED  BY <1>5, <1>8, <2>1, Zenon
<1>12. CASE k = 4
  <2>1. x = <<wf, catch, fuses>>
    BY <1>7, <1>12, Zenon DEF Option, wf, catch, fuses
  <2> DEFINE w == <<wf, catch, fuses>>
             v == <<end>>
  <2>2. a = w \o v
    BY <2>1 DEF end
  <2>3. /\ DOMAIN a = 1 .. 4 /\ a[1] = wf /\ a[2] = catch /\ a[3] = fuses /\ a[4] = end
    <3>1. /\ Sequenced(w) /\ Len(w) = 3 /\ w[1] = wf /\ w[2] = catch /\ w[3] = fuses
          /\ DOMAIN w = 1 .. 3
      <4>1. w \in Seq({wf, catch, fuses})
        OBVIOUS
      <4> QED  BY <4>1, SequencedIs
    <3>2. Sequenced(v) /\ Len(v) = 1 /\ v[1] = end /\ DOMAIN v = 1 .. 1
      BY SequencedOne
    <3> HIDE DEF w, v
    <3> DEFINE b == w \o v
    <3>3. /\ DOMAIN b = 1 .. Len(w) + Len(v)
          /\ \A i \in DOMAIN w : b[i] = w[i]
          /\ \A i \in DOMAIN v : b[Len(w) + i] = v[i]
      <4>1. Sequenced(w) /\ Sequenced(v)
        BY <3>1, <3>2
      <4> QED  BY <4>1, JoinHas
    <3> HIDE DEF b
    <3>4. /\ 1 \in DOMAIN w /\ 2 \in DOMAIN w /\ 3 \in DOMAIN w /\ 1 \in DOMAIN v
          /\ Len(w) + 1 = 4 /\ Len(w) + Len(v) = 4
      BY <3>1, <3>2
    <3>5. /\ DOMAIN b = 1 .. 4 /\ b[1] = wf /\ b[2] = catch /\ b[3] = fuses /\ b[4] = end
      BY <3>1, <3>2, <3>3, <3>4
    <3> QED  BY <2>2, <3>5 DEF b
  <2>4. BlocksOK(a)
    <3>1. ASSUME NEW j \in 1 .. 4, NEW l \in 1 .. 4, j < l, a[l].do = "catch"
          PROVE  ~Looks(a[j])
      <4>1. l = 2
        BY <1>1, <2>3, <3>1
      <4>2. j = 1
        BY <3>1, <4>1
      <4> QED  BY <1>2, <2>3, <4>2
    <3> QED  BY <2>3, <3>1 DEF BlocksOK
  <2>5. NoPages(a)
    <3>1. ASSUME NEW j \in 1 .. 4
          PROVE  j = 1 \/ j = 2 \/ j = 3 \/ j = 4
      OBVIOUS
    <3> QED  BY <1>1, <2>3, <3>1 DEF NoPages
  <2> QED  BY <2>4, <2>5
<1>13. CASE k = 5
  <2> DEFINE o == IF program THEN <<wo>> ELSE <<>>
             u == IF box.xmega \/ box.proto = "dw" THEN <<>> ELSE <<fuses>> \o o
  <2>1. x = IF box.ice = "jtag2" THEN <<on>> \o u \o <<off>> ELSE u
    BY <1>7, <1>13, Zenon DEF Option, fuses, wo, on, off
  <2>2. Plain(o)
    BY <1>3
  <2> HIDE DEF o
  <2>3. Plain(<<fuses>> \o o)
    BY <1>3, <2>2, JoinPlain
  <2>4. Plain(u)
    BY <1>3, <2>3
  <2> HIDE DEF u
  <2> QED  BY <1>4, <1>8, <2>1, <2>4, Zenon
<1> QED  BY <1>7, <1>9, <1>10, <1>11, <1>12, <1>13

(* A handler has a try block that looks at nothing right before it. *)
Enclosed(w) ==
  \A k \in DOMAIN w : w[k].do = "catch" =>
    /\ k - 1 \in DOMAIN w /\ w[k - 1].do = "jtagWrite"
    /\ k - 2 \in DOMAIN w /\ w[k - 2].do = "try"

LEMMA EnclosedBlocks ==
  ASSUME NEW a, Sequenced(a), Enclosed(a)
  PROVE  BlocksOK(a)
<1> SUFFICES ASSUME NEW j \in DOMAIN a, NEW k \in DOMAIN a, j < k, Looks(a[j]),
                    a[k].do = "catch"
             PROVE  \E l \in DOMAIN a : j < l /\ l < k /\ a[l].do = "try"
  BY DEF BlocksOK
<1>1. /\ k - 1 \in DOMAIN a /\ a[k - 1].do = "jtagWrite"
      /\ k - 2 \in DOMAIN a /\ a[k - 2].do = "try"
  BY DEF Enclosed
<1>2. j \in Int /\ k \in Int
  BY SequencedHas
<1>3. j # k - 1 /\ j # k - 2
  BY <1>1 DEF Looks
<1>4. j < k - 2 /\ k - 2 < k
  BY <1>2, <1>3
<1> QED  BY <1>1, <1>4

LEMMA JoinEnclosed ==
  ASSUME NEW a, NEW b, Sequenced(a), Sequenced(b), Enclosed(a), Enclosed(b)
  PROVE  Enclosed(a \o b)
<1>1. PICK u : u = a \o b
  OBVIOUS
<1>2. /\ \A i \in DOMAIN u : \/ i \in DOMAIN a /\ u[i] = a[i]
                             \/ /\ i > Len(a) /\ i - Len(a) \in DOMAIN b
                                /\ u[i] = b[i - Len(a)]
      /\ \A i \in DOMAIN a : i \in DOMAIN u /\ u[i] = a[i]
      /\ \A i \in DOMAIN b : Len(a) + i \in DOMAIN u /\ u[Len(a) + i] = b[i]
      /\ DOMAIN u = 1 .. Len(a) + Len(b)
  BY <1>1, JoinHas
<1>3. Len(a) \in Nat /\ Len(b) \in Nat
  BY SequencedHas
<1>4. ASSUME NEW k \in DOMAIN u, u[k].do = "catch"
      PROVE  /\ k - 1 \in DOMAIN u /\ u[k - 1].do = "jtagWrite"
             /\ k - 2 \in DOMAIN u /\ u[k - 2].do = "try"
  <2>1. CASE k \in DOMAIN a /\ u[k] = a[k]
    <3>1. /\ k - 1 \in DOMAIN a /\ a[k - 1].do = "jtagWrite"
          /\ k - 2 \in DOMAIN a /\ a[k - 2].do = "try"
      BY <1>4, <2>1 DEF Enclosed
    <3> QED  BY <1>2, <3>1
  <2>2. CASE k - Len(a) \in DOMAIN b /\ u[k] = b[k - Len(a)]
    <3> DEFINE l == k - Len(a)
    <3>1. l \in DOMAIN b /\ b[l].do = "catch"
      BY <1>4, <2>2
    <3>2. Len(a) + (l - 1) = k - 1 /\ Len(a) + (l - 2) = k - 2
      BY <1>2, <1>3
    <3> HIDE DEF l
    <3>3. /\ l - 1 \in DOMAIN b /\ b[l - 1].do = "jtagWrite"
          /\ l - 2 \in DOMAIN b /\ b[l - 2].do = "try"
      BY <3>1 DEF Enclosed
    <3>4. /\ Len(a) + (l - 1) \in DOMAIN u /\ u[Len(a) + (l - 1)] = b[l - 1]
          /\ Len(a) + (l - 2) \in DOMAIN u /\ u[Len(a) + (l - 2)] = b[l - 2]
      BY <1>2, <3>3
    <3> QED  BY <3>2, <3>3, <3>4
  <2> QED  BY <1>2, <2>1, <2>2
<1> QED  BY <1>1, <1>4 DEF Enclosed

LEMMA JoinOrder ==
  ASSUME NEW a, NEW b, Sequenced(a), Sequenced(b), OrderOK(a), OrderOK(b),
         \A x \in Areas : \A i \in DOMAIN a, j \in DOMAIN b : Tells(a[i], x) => ~Upsets(b[j], x)
  PROVE  OrderOK(a \o b)
<1>1. PICK u : u = a \o b
  OBVIOUS
<1>2. /\ \A i \in DOMAIN u : \/ i \in DOMAIN a /\ u[i] = a[i]
                             \/ /\ i > Len(a) /\ i - Len(a) \in DOMAIN b
                                /\ u[i] = b[i - Len(a)]
      /\ DOMAIN u = 1 .. Len(a) + Len(b)
  BY <1>1, JoinHas
<1>3. Len(a) \in Nat /\ Len(b) \in Nat /\ DOMAIN a = 1 .. Len(a)
  BY SequencedHas
<1>4. ASSUME NEW x \in Areas, NEW i \in DOMAIN u, NEW j \in DOMAIN u, i < j, Tells(u[i], x)
      PROVE  ~Upsets(u[j], x)
  <2>0. i \in Int /\ j \in Int
    BY <1>2, <1>3
  <2>1. CASE i \in DOMAIN a /\ u[i] = a[i] /\ j \in DOMAIN a /\ u[j] = a[j]
    BY <1>4, <2>1 DEF OrderOK
  <2>2. CASE i \in DOMAIN a /\ u[i] = a[i] /\ j - Len(a) \in DOMAIN b /\ u[j] = b[j - Len(a)]
    BY <1>4, <2>2
  <2>3. CASE i > Len(a) /\ j \in DOMAIN a
    BY <1>3, <1>4, <2>0, <2>3
  <2>4. CASE /\ i - Len(a) \in DOMAIN b /\ u[i] = b[i - Len(a)]
             /\ j - Len(a) \in DOMAIN b /\ u[j] = b[j - Len(a)]
    <3> DEFINE k == i - Len(a)
               l == j - Len(a)
    <3>1. k < l /\ k \in DOMAIN b /\ l \in DOMAIN b /\ Tells(b[k], x) /\ u[j] = b[l]
      BY <1>3, <1>4, <2>0, <2>4
    <3> HIDE DEF k, l
    <3> QED  BY <3>1 DEF OrderOK
  <2> QED  BY <1>2, <2>1, <2>2, <2>3, <2>4
<1> QED  BY <1>1, <1>4 DEF OrderOK

LEMMA JoinAsked ==
  ASSUME NEW a, NEW b, Sequenced(a), Sequenced(b), NEW x, NEW addr,
         Asked(a, x, addr) \/ Asked(b, x, addr)
  PROVE  Asked(a \o b, x, addr)
<1>1. PICK u : u = a \o b
  OBVIOUS
<1>2. /\ \A i \in DOMAIN a : i \in DOMAIN u /\ u[i] = a[i]
      /\ \A i \in DOMAIN b : Len(a) + i \in DOMAIN u /\ u[Len(a) + i] = b[i]
  <2>1. Joined(u, a, b)
    BY <1>1, JoinIsJoined
  <2> QED  BY <2>1 DEF Joined
<1>3. Len(a) \in Nat /\ DOMAIN b \subseteq Int
  BY SequencedHas
<1>4. CASE Asked(a, x, addr)
  <2>1. Asked(u, x, addr)
    BY <1>2, <1>4 DEF Asked, Judged
  <2> QED  BY <1>1, <2>1
<1>5. CASE Asked(b, x, addr)
  <2>1. PICK i \in DOMAIN b : /\ b[i] = jtagRead(x, addr, PageSize[x])
                              /\ Judged(b, i + 1, x, addr)
    BY <1>5 DEF Asked
  <2>2. /\ i + 1 \in DOMAIN b /\ b[i + 1] = [do |-> "verify", area |-> x, addr |-> addr]
        /\ \E l \in DOMAIN b : l > i + 1 /\ b[l].do = "verified"
    BY <2>1 DEF Judged
  <2>3. PICK l \in DOMAIN b : l > i + 1 /\ b[l].do = "verified"
    BY <2>2
  <2>4. /\ Len(a) + i \in DOMAIN u /\ u[Len(a) + i] = b[i]
        /\ Len(a) + (i + 1) \in DOMAIN u /\ u[Len(a) + (i + 1)] = b[i + 1]
        /\ Len(a) + l \in DOMAIN u /\ u[Len(a) + l] = b[l]
    BY <1>2, <2>2
  <2>5. Len(a) + (i + 1) = (Len(a) + i) + 1 /\ Len(a) + l > (Len(a) + i) + 1
    BY <1>3, <2>3
  <2>6. Judged(u, (Len(a) + i) + 1, x, addr)
    BY <2>2, <2>3, <2>4, <2>5 DEF Judged
  <2>7. Asked(u, x, addr)
    BY <2>1, <2>4, <2>6 DEF Asked
  <2> QED  BY <1>1, <2>7
<1> QED  BY <1>4, <1>5

(* The commands of a file for memory x: writes that are passed over when    *)
(* they fail, then the reads and comparisons of the pages.                 *)
Imaged(w, x) ==
  /\ Sequenced(w) /\ Enclosed(w)
  /\ \A i \in DOMAIN w :
       /\ w[i].do \in {"try", "jtagWrite", "catch", "jtagRead", "verify", "verified"}
       /\ w[i].do \in {"jtagWrite", "jtagRead", "verify"} => w[i].area = x
  /\ \A i, j \in DOMAIN w : i < j /\ Tells(w[i], x) => w[j].do # "jtagWrite"

(* The writes and the reads of the pages. *)
Programs(x) == {jtagWrite(x, a, ImagePage(x, a)) : a \in Int} \cup {Do("try"), Do("catch")}
Compares(x) ==
  {jtagRead(x, a, PageSize[x]) : a \in Int} \cup {[do |-> "verify", area |-> x, addr |-> a] : a \in Int}

LEMMA ProgramsAre ==
  ASSUME NEW x, NEW e
  PROVE  /\ e \in Programs(x) => /\ e.do \in {"try", "jtagWrite", "catch"}
                                 /\ e.do = "jtagWrite" => e.area = x
         /\ e \in Compares(x) => e.do \in {"jtagRead", "verify"} /\ e.area = x
<1>1. ASSUME NEW a \in Int
      PROVE  /\ jtagWrite(x, a, ImagePage(x, a)).do = "jtagWrite"
             /\ jtagWrite(x, a, ImagePage(x, a)).area = x
             /\ jtagRead(x, a, PageSize[x]).do = "jtagRead"
             /\ jtagRead(x, a, PageSize[x]).area = x
  BY DEF jtagWrite, jtagRead
<1>2. Do("try").do = "try" /\ Do("catch").do = "catch"
  BY DEF Do
<1>3. e \in Programs(x) => \/ \E a \in Int : e = jtagWrite(x, a, ImagePage(x, a))
                           \/ e = Do("try") \/ e = Do("catch")
  BY Zenon DEF Programs
<1>4. e \in Compares(x) => \/ \E a \in Int : e = jtagRead(x, a, PageSize[x])
                           \/ \E a \in Int : e = [do |-> "verify", area |-> x, addr |-> a]
  BY Zenon DEF Compares
<1>5. e \in Programs(x) => /\ e.do \in {"try", "jtagWrite", "catch"}
                           /\ e.do = "jtagWrite" => e.area = x
  BY <1>1, <1>2, <1>3
<1>6. e \in Compares(x) => e.do \in {"jtagRead", "verify"} /\ e.area = x
  BY <1>1, <1>4
<1> QED  BY <1>5, <1>6

(* The pages in their order. *)
PageCount(x) == Size[x] \div PageSize[x]
PageAddr(x, k) == (k - 1) * PageSize[x]

LEMMA PageRange ==
  ASSUME TargetMemoryAssumption, NEW x \in Areas
  PROVE  /\ PageCount(x) \in Nat /\ \A k \in 1 .. PageCount(x) : PageAddr(x, k) \in Int
         /\ PageSize[x] \in Nat \ {0}
<1>1. Size[x] \in Nat /\ PageSize[x] \in Nat \ {0}
  BY DEF TargetMemoryAssumption
<1>2. PageCount(x) \in Nat
  BY <1>1 DEF PageCount
<1>3. \A k \in 1 .. PageCount(x) : PageAddr(x, k) \in Int
  BY <1>1, <1>2 DEF PageAddr
<1> QED  BY <1>1, <1>2, <1>3

(* A list of n parts. *)
Lists(f, n) == f = [k \in 1 .. n |-> f[k]]

LEMMA ListHas ==
  ASSUME NEW n \in Nat, NEW S, NEW f, Lists(f, n), \A k \in 1 .. n : f[k] \in S
  PROVE  f \in Seq(S) /\ Len(f) = n
<1>1. f \in [1 .. n -> S]
  BY DEF Lists
<1>2. f \in Seq(S) /\ Len(f) = n
  BY <1>1
<1> QED  BY <1>2

LEMMA ListKeeps ==
  ASSUME NEW n \in Nat, NEW W, NEW G, NEW f, Lists(f, n),
         \A k \in 1 .. n : f[k] \in G, \A u \in G : u \in Seq(W),
         <<>> \in G, \A u, v \in G : u \o v \in G
  PROVE  FlattenSeq(f) \in G
<1> DEFINE S == Seq(W)
<1>1. \A k \in 1 .. n : f[k] \in S
  OBVIOUS
<1> HIDE DEF S
<1>2. f \in Seq(S) /\ Len(f) = n
  BY <1>1, ListHas
<1>3. f \in Seq(Seq(W)) /\ \A k \in 1 .. Len(f) : f[k] \in G
  BY <1>2 DEF S
<1> QED  BY <1>3, FlattenKeeps

LEMMA ListBrings ==
  ASSUME NEW n \in Nat, NEW W, NEW G, NEW H, NEW f, Lists(f, n), NEW m \in 1 .. n,
         \A k \in 1 .. n : f[k] \in G, f[m] \in H, \A u \in G : u \in Seq(W),
         \A u, v \in G : u \o v \in G,
         \A u \in G, w \in H : u \o w \in H /\ w \o u \in H
  PROVE  FlattenSeq(f) \in H
<1> DEFINE S == Seq(W)
<1>1. \A k \in 1 .. n : f[k] \in S
  OBVIOUS
<1> HIDE DEF S
<1>2. f \in Seq(S) /\ Len(f) = n
  BY <1>1, ListHas
<1>3. /\ f \in Seq(Seq(W)) /\ \A k \in 1 .. Len(f) : f[k] \in G
      /\ m \in 1 .. Len(f)
  BY <1>2 DEF S
<1> QED  BY <1>3, FlattenBrings

LEMMA WritesAre ==
  ASSUME TargetMemoryAssumption, NEW x \in Areas, NEW ws,
         ws = [k \in 1 .. PageCount(x) |-> ProgramPage(x, PageAddr(x, k))]
  PROVE  FlattenSeq(ws) \in Seq(Programs(x)) /\ Enclosed(FlattenSeq(ws))
<1> DEFINE W == Programs(x)
           G == {w \in Seq(W) : Enclosed(w)}
           N == PageCount(x)
<1>1. ASSUME NEW k \in 1 .. N
      PROVE  ProgramPage(x, PageAddr(x, k)) \in G
  <2> DEFINE a == PageAddr(x, k)
             u == jtagWrite(x, a, ImagePage(x, a))
             t == Do("try")
             v == Do("catch")
             w == <<t, u, v>>
  <2>1. a \in Int
    BY PageRange
  <2>2. t \in W /\ u \in W /\ v \in W
    BY <2>1, Zenon DEF Programs
  <2>3. ProgramPage(x, a) = <<>> \/ ProgramPage(x, a) = w
    BY Zenon DEF ProgramPage
  <2>4. t.do = "try" /\ u.do = "jtagWrite" /\ v.do = "catch"
    BY DEF Do, jtagWrite
  <2> HIDE DEF a, t, u, v, W
  <2>5. w \in Seq(W) /\ DOMAIN w = 1 .. 3 /\ w[1] = t /\ w[2] = u /\ w[3] = v
    BY <2>2
  <2> HIDE DEF w
  <2>6. Enclosed(w)
    <3>1. ASSUME NEW i \in DOMAIN w, w[i].do = "catch"
          PROVE  i = 3
      BY <2>4, <2>5, <3>1
    <3>2. 3 - 1 = 2 /\ 3 - 2 = 1 /\ 1 \in 1 .. 3 /\ 2 \in 1 .. 3
      OBVIOUS
    <3> QED  BY <2>4, <2>5, <3>1, <3>2 DEF Enclosed
  <2>7. <<>> \in Seq(W) /\ Enclosed(<<>>)
    BY DEF Enclosed
  <2> QED  BY <2>3, <2>5, <2>6, <2>7 DEF a
<1>2. ASSUME NEW u \in G, NEW v \in G
      PROVE  u \o v \in G
  <2>1. Sequenced(u) /\ Sequenced(v) /\ u \o v \in Seq(W)
    BY SequencedIs, ConcatProperties
  <2>2. Enclosed(u \o v)
    BY <2>1, JoinEnclosed
  <2> QED  BY <2>1, <2>2
<1>3. <<>> \in G
  BY DEF Enclosed
<1> HIDE DEF W
<1>4. G \subseteq Seq(W)
  OBVIOUS
<1> HIDE DEF G
<1>5. /\ N \in Nat /\ Lists(ws, N)
      /\ \A k \in 1 .. N : ws[k] \in G
  <2>1. N \in Nat
    BY PageRange
  <2>2. Lists(ws, N) /\ \A k \in 1 .. N : ws[k] \in G
    BY <1>1 DEF Lists
  <2> QED  BY <2>1, <2>2
<1>6. \A u \in G : u \in Seq(W)
  BY <1>4
<1> HIDE DEF N
<1>7. FlattenSeq(ws) \in G
  BY <1>2, <1>3, <1>5, <1>6, ListKeeps
<1> QED  BY <1>7 DEF G, W

(* The page of a byte of the file. *)
LEMMA PageHas ==
  ASSUME TargetMemoryAssumption, NEW x \in Areas, NEW c \in Image[x]
  PROVE  LET P == PageSize[x]
         IN  \E m \in 1 .. PageCount(x) :
               PageAddr(x, m) = PageStart(c, P) /\ InImage(x, PageStart(c, P))
<1> DEFINE P == PageSize[x]
           q == c \div P
           N == PageCount(x)
           L == Size[x]
           s == PageStart(c, P)
           m == q + 1
<1>1. P \in Nat \ {0} /\ L \in Nat /\ L % P = 0 /\ c \in Nat /\ c < L
  BY DEF TargetMemoryAssumption
<1>2. N \in Nat /\ L = P * N
  <2>1. N = L \div P
    BY DEF PageCount
  <2> HIDE DEF N, L, P
  <2>2. L \div P \in Nat /\ L = P * (L \div P) + (L % P)
    BY <1>1
  <2> QED  BY <1>1, <2>1, <2>2
<1>3. s \in Nat /\ q \in Nat /\ s = P * q /\ s <= c /\ c < s + P
  <2>1. s \in Nat /\ q \in Nat /\ s = P * q
    BY <1>1, StartIs
  <2>2. s = c - (c % P)
    BY DEF PageStart
  <2> HIDE DEF s, P, q
  <2>3. c % P \in Nat /\ c % P < P
    BY <1>1
  <2> QED  BY <1>1, <2>1, <2>2, <2>3
<1>4. m \in 1 .. N
  <2>1. m = q + 1
    OBVIOUS
  <2> HIDE DEF P, q, N, L, s, m
  <2>2. ASSUME q >= N
        PROVE  FALSE
    <3>1. PICK d \in Nat : q = N + d
      <4>1. q - N \in Nat /\ q = N + (q - N)
        BY <1>2, <1>3, <2>2
      <4> QED  BY <4>1
    <3>2. P * (N + d) = P * N + P * d /\ P * d \in Nat /\ P * N \in Nat
      BY <1>1, <1>2
    <3>3. s >= L
      BY <1>2, <1>3, <3>1, <3>2
    <3> QED  BY <1>1, <1>3, <3>3
  <2> QED  BY <1>2, <1>3, <2>1, <2>2
<1>5. PageAddr(x, m) = s
  <2>1. PageAddr(x, m) = (m - 1) * P /\ m = q + 1
    BY DEF PageAddr
  <2> HIDE DEF P, q, N, L, s, m
  <2>2. m - 1 = q /\ q * P = P * q
    BY <1>1, <1>3, <2>1
  <2> QED  BY <1>3, <2>1, <2>2
<1>6. InImage(x, s)
  <2>1. c < s + P /\ c >= s
    <3> HIDE DEF s, P
    <3> QED  BY <1>1, <1>3
  <2> QED  BY <2>1 DEF InImage
<1> HIDE DEF P, q, N, L, s, m
<1>7. \E k \in 1 .. N : PageAddr(x, k) = s /\ InImage(x, s)
  BY <1>4, <1>5, <1>6
<1> QED  BY <1>7 DEF s, N, P

(* Page a is read and compared. *)
GetsPage(w, x, a) ==
  \E i \in DOMAIN w : /\ i + 1 \in DOMAIN w /\ w[i] = jtagRead(x, a, PageSize[x])
                      /\ w[i + 1] = [do |-> "verify", area |-> x, addr |-> a]

LEMMA JoinGetsPage ==
  ASSUME NEW u, NEW v, Sequenced(u), Sequenced(v), NEW x, NEW a, GetsPage(u, x, a) \/ GetsPage(v, x, a)
  PROVE  GetsPage(u \o v, x, a)
<1>1. PICK w : w = u \o v
  OBVIOUS
<1>2. /\ \A i \in DOMAIN u : i \in DOMAIN w /\ w[i] = u[i]
      /\ \A i \in DOMAIN v : Len(u) + i \in DOMAIN w /\ w[Len(u) + i] = v[i]
  <2>1. Joined(w, u, v)
    BY <1>1, JoinIsJoined
  <2> QED  BY <2>1 DEF Joined
<1>3. Len(u) \in Nat /\ DOMAIN v \subseteq Int
  BY SequencedHas
<1>4. CASE GetsPage(u, x, a)
  <2>1. GetsPage(w, x, a)
    BY <1>2, <1>4 DEF GetsPage
  <2> QED  BY <1>1, <2>1
<1>5. CASE GetsPage(v, x, a)
  <2>1. PICK i \in DOMAIN v :
           /\ i + 1 \in DOMAIN v /\ v[i] = jtagRead(x, a, PageSize[x])
           /\ v[i + 1] = [do |-> "verify", area |-> x, addr |-> a]
    BY <1>5 DEF GetsPage
  <2>2. /\ Len(u) + i \in DOMAIN w /\ w[Len(u) + i] = v[i]
        /\ Len(u) + (i + 1) \in DOMAIN w /\ w[Len(u) + (i + 1)] = v[i + 1]
    BY <1>2, <2>1
  <2>3. Len(u) + (i + 1) = (Len(u) + i) + 1
    BY <1>3
  <2>4. GetsPage(w, x, a)
    BY <2>1, <2>2, <2>3 DEF GetsPage
  <2> QED  BY <1>1, <2>4
<1> QED  BY <1>4, <1>5

LEMMA ReadsAre ==
  ASSUME TargetMemoryAssumption, NEW x \in Areas, NEW rs,
         rs = [k \in 1 .. PageCount(x) |-> ReadBack(x, PageAddr(x, k))]
  PROVE  /\ FlattenSeq(rs) \in Seq(Compares(x))
         /\ \A c \in Image[x] : GetsPage(FlattenSeq(rs), x, PageStart(c, PageSize[x]))
<1> DEFINE W == Compares(x)
           G == Seq(W)
           N == PageCount(x)
<1>1. ASSUME NEW k \in 1 .. N
      PROVE  /\ ReadBack(x, PageAddr(x, k)) \in G
             /\ InImage(x, PageAddr(x, k))
                  => GetsPage(ReadBack(x, PageAddr(x, k)), x, PageAddr(x, k))
  <2> DEFINE a == PageAddr(x, k)
             t == jtagRead(x, a, PageSize[x])
             u == [do |-> "verify", area |-> x, addr |-> a]
             w == <<t, u>>
  <2>1. a \in Int
    BY PageRange
  <2>2. t \in W /\ u \in W
    BY <2>1, Zenon DEF Compares
  <2>3. ReadBack(x, a) = IF ~InImage(x, a) THEN <<>> ELSE w
    BY Zenon DEF ReadBack
  <2>4. t = jtagRead(x, a, PageSize[x]) /\ u = [do |-> "verify", area |-> x, addr |-> a]
    OBVIOUS
  <2> HIDE DEF a, t, u, W
  <2>5. w \in Seq(W) /\ DOMAIN w = 1 .. 2 /\ w[1] = t /\ w[2] = u
    BY <2>2
  <2> HIDE DEF w
  <2>6. GetsPage(w, x, a)
    <3>1. 1 \in DOMAIN w /\ 1 + 1 = 2 /\ 2 \in DOMAIN w
      BY <2>5
    <3> QED  BY <2>4, <2>5, <3>1 DEF GetsPage
  <2>7. <<>> \in Seq(W)
    OBVIOUS
  <2> QED  BY <2>3, <2>5, <2>6, <2>7 DEF a
<1>2. ASSUME NEW u \in G, NEW v \in G
      PROVE  u \o v \in G
  <2> HIDE DEF W
  <2> QED  OBVIOUS
<1>3. <<>> \in G /\ \A u \in G : u \in Seq(W)
  OBVIOUS
<1>4. \A u \in G : Sequenced(u)
  <2> HIDE DEF W
  <2> QED  BY SequencedIs
<1>5. N \in Nat /\ Lists(rs, N) /\ \A k \in 1 .. N : rs[k] \in G
  <2>1. N \in Nat
    BY PageRange
  <2>2. Lists(rs, N) /\ \A k \in 1 .. N : rs[k] \in G
    BY <1>1 DEF Lists
  <2> QED  BY <2>1, <2>2
<1>6. ASSUME NEW c \in Image[x]
      PROVE  GetsPage(FlattenSeq(rs), x, PageStart(c, PageSize[x]))
  <2> DEFINE s == PageStart(c, PageSize[x])
             H == {w \in G : GetsPage(w, x, s)}
  <2>1. PICK m \in 1 .. N : PageAddr(x, m) = s /\ InImage(x, s)
    BY PageHas
  <2>2. rs[m] \in H
    <3>1. rs[m] = ReadBack(x, PageAddr(x, m))
      BY <2>1
    <3>2. rs[m] \in G /\ GetsPage(rs[m], x, s)
      BY <1>1, <2>1, <3>1
    <3> QED  BY <3>2
  <2> HIDE DEF s, W
  <2>3. ASSUME NEW u \in G, NEW w \in H
        PROVE  u \o w \in H /\ w \o u \in H
    <3>1. u \o w \in G /\ w \o u \in G
      BY <1>2
    <3>2. GetsPage(w, x, s)
      OBVIOUS
    <3>3. w \in G /\ Sequenced(u) /\ Sequenced(w)
      BY <1>4
    <3>4. GetsPage(u \o w, x, s) /\ GetsPage(w \o u, x, s)
      BY <3>2, <3>3, JoinGetsPage
    <3> QED  BY <3>1, <3>4
  <2>4. \A w \in H : GetsPage(w, x, s)
    OBVIOUS
  <2>5. \A u, v \in G : u \o v \in G
    BY <1>2
  <2> HIDE DEF N, G, H
  <2>6. FlattenSeq(rs) \in H
    BY <1>3, <1>5, <2>1, <2>2, <2>3, <2>5, ListBrings
  <2> QED  BY <2>4, <2>6 DEF s
<1>7. FlattenSeq(rs) \in G
  <2>1. \A u, v \in G : u \o v \in G
    BY <1>2
  <2> HIDE DEF N, G, W
  <2> QED  BY <1>3, <1>5, <2>1, ListKeeps
<1> QED  BY <1>6, <1>7

(* The writes of a file come before its reads. *)
WritesOf(u, x) ==
  /\ Sequenced(u) /\ Enclosed(u)
  /\ \A i \in DOMAIN u : /\ u[i].do \in {"try", "jtagWrite", "catch"}
                         /\ u[i].do = "jtagWrite" => u[i].area = x

ReadsOf(v, x) ==
  /\ Sequenced(v)
  /\ \A i \in DOMAIN v : /\ v[i].do \in {"jtagRead", "verify", "verified"}
                         /\ v[i].do # "verified" => v[i].area = x

LEMMA JoinImage ==
  ASSUME NEW u, NEW v, NEW x, WritesOf(u, x), ReadsOf(v, x)
  PROVE  Imaged(u \o v, x)
<1>1. PICK w : w = u \o v
  OBVIOUS
<1>2. /\ Sequenced(u) /\ Sequenced(v) /\ Enclosed(u)
      /\ \A i \in DOMAIN u : /\ u[i].do \in {"try", "jtagWrite", "catch"}
                             /\ u[i].do = "jtagWrite" => u[i].area = x
      /\ \A i \in DOMAIN v : /\ v[i].do \in {"jtagRead", "verify", "verified"}
                             /\ v[i].do # "verified" => v[i].area = x
  BY DEF WritesOf, ReadsOf
<1>3. /\ Sequenced(w) /\ DOMAIN w = 1 .. Len(u) + Len(v)
      /\ \A i \in DOMAIN w : \/ i \in DOMAIN u /\ w[i] = u[i]
                             \/ /\ i > Len(u) /\ i - Len(u) \in DOMAIN v
                                /\ w[i] = v[i - Len(u)]
  <2>1. Sequenced(u) /\ Sequenced(v)
    BY <1>2
  <2>2. Sequenced(w)
    BY <1>1, <2>1, JoinHas
  <2>3. DOMAIN w = 1 .. Len(u) + Len(v)
    BY <1>1, <2>1, JoinHas
  <2>4. ASSUME NEW i \in DOMAIN w
        PROVE  \/ i \in DOMAIN u /\ w[i] = u[i]
               \/ /\ i > Len(u) /\ i - Len(u) \in DOMAIN v
                  /\ w[i] = v[i - Len(u)]
    BY <1>1, <2>1, JoinHas
  <2> QED  BY <2>2, <2>3, <2>4
<1>4. Enclosed(v)
  BY <1>2 DEF Enclosed
<1>5. Enclosed(w)
  BY <1>1, <1>2, <1>4, JoinEnclosed
<1>6. Len(u) \in Nat /\ Len(v) \in Nat /\ DOMAIN u = 1 .. Len(u)
  BY <1>2, SequencedHas
<1>7. \A i \in DOMAIN w :
        /\ w[i].do \in {"try", "jtagWrite", "catch", "jtagRead", "verify", "verified"}
        /\ w[i].do \in {"jtagWrite", "jtagRead", "verify"} => w[i].area = x
  <2> SUFFICES ASSUME NEW i \in DOMAIN w
               PROVE  /\ w[i].do \in {"try", "jtagWrite", "catch", "jtagRead", "verify", "verified"}
                      /\ w[i].do \in {"jtagWrite", "jtagRead", "verify"} => w[i].area = x
    OBVIOUS
  <2>1. CASE i \in DOMAIN u /\ w[i] = u[i]
    BY <1>2, <2>1
  <2>2. CASE i - Len(u) \in DOMAIN v /\ w[i] = v[i - Len(u)]
    BY <1>2, <2>2
  <2> QED  BY <1>3, <2>1, <2>2
<1>8. ASSUME NEW i \in DOMAIN w, NEW j \in DOMAIN w, i < j, Tells(w[i], x)
      PROVE  w[j].do # "jtagWrite"
  <2>1. w[i].do \in {"jtagRead", "page", "bytes", "verify"}
    BY <1>8 DEF Tells
  <2>2. i > Len(u) /\ i \in Int /\ j \in Int
    BY <1>2, <1>3, <1>6, <2>1
  <2>3. j > Len(u)
    BY <1>6, <1>8, <2>2
  <2>4. j \notin DOMAIN u
    BY <1>6, <2>2, <2>3
  <2>5. j - Len(u) \in DOMAIN v /\ w[j] = v[j - Len(u)]
    BY <1>3, <2>4
  <2> QED  BY <1>2, <2>5
<1>9. Imaged(w, x)
  BY <1>3, <1>5, <1>7, <1>8 DEF Imaged
<1> QED  BY <1>1, <1>9

LEMMA ImageIs ==
  ASSUME TargetMemoryAssumption, NEW x \in Areas, NEW program \in BOOLEAN,
         NEW verify \in BOOLEAN, NEW w, w = FlashImage(x, program, verify)
  PROVE  /\ Imaged(w, x)
         /\ verify => \A c \in Image[x] : Asked(w, x, PageStart(c, PageSize[x]))
<1> DEFINE ws == [k \in 1 .. PageCount(x) |-> ProgramPage(x, PageAddr(x, k))]
           rs == [k \in 1 .. PageCount(x) |-> ReadBack(x, PageAddr(x, k))]
           u  == FlattenSeq(ws)
           r  == FlattenSeq(rs)
           o  == Do("verified")
           z  == <<o>>
           v  == r \o z
           p  == IF program THEN u ELSE <<>>
           q  == IF verify THEN v ELSE <<>>
<1>1. w = IF Image[x] = {} THEN <<>> ELSE p \o q
  BY Zenon DEF FlashImage, PageCount, PageAddr
<1>2. WritesOf(u, x)
  <2>1. u \in Seq(Programs(x)) /\ Enclosed(u)
    <3> HIDE DEF u
    <3> QED  BY WritesAre DEF u
  <2> HIDE DEF u
  <2>2. \A i \in DOMAIN u : u[i] \in Programs(x)
    BY <2>1
  <2>3. Sequenced(u)
    BY <2>1, SequencedIs
  <2> QED  BY <2>1, <2>2, <2>3, ProgramsAre DEF WritesOf
<1>3. /\ Sequenced(r)
      /\ \A i \in DOMAIN r : r[i].do \in {"jtagRead", "verify"} /\ r[i].area = x
      /\ \A c \in Image[x] : GetsPage(r, x, PageStart(c, PageSize[x]))
  <2>1. /\ r \in Seq(Compares(x))
        /\ \A c \in Image[x] : GetsPage(r, x, PageStart(c, PageSize[x]))
    <3> HIDE DEF r
    <3> QED  BY ReadsAre DEF r
  <2> HIDE DEF r
  <2>2. \A i \in DOMAIN r : r[i] \in Compares(x)
    BY <2>1
  <2>3. Sequenced(r)
    BY <2>1, SequencedIs
  <2> QED  BY <2>1, <2>2, <2>3, ProgramsAre
<1>4. o.do = "verified"
  BY DEF Do
<1> HIDE DEF ws, rs, u, r, o
<1>5. Sequenced(z) /\ DOMAIN z = {1} /\ z[1] = o
  BY SequencedOne
<1> HIDE DEF z
<1>6. /\ Sequenced(v) /\ DOMAIN v = 1 .. Len(r) + Len(z)
      /\ \A i \in DOMAIN v : \/ i \in DOMAIN r /\ v[i] = r[i]
                             \/ /\ i > Len(r) /\ i - Len(r) \in DOMAIN z
                                /\ v[i] = z[i - Len(r)]
      /\ \A i \in DOMAIN r : i \in DOMAIN v /\ v[i] = r[i]
      /\ \A i \in DOMAIN z : Len(r) + i \in DOMAIN v /\ v[Len(r) + i] = z[i]
  <2>1. Sequenced(r) /\ Sequenced(z)
    BY <1>3, <1>5
  <2>2. Joined(v, r, z)
    BY <2>1, JoinIsJoined
  <2> QED  BY <2>2 DEF Joined
<1> HIDE DEF v
<1>7. ReadsOf(v, x)
  <2>1. ASSUME NEW i \in DOMAIN v
        PROVE  /\ v[i].do \in {"jtagRead", "verify", "verified"}
               /\ v[i].do # "verified" => v[i].area = x
    <3>1. CASE i \in DOMAIN r /\ v[i] = r[i]
      BY <1>3, <3>1
    <3>2. CASE i - Len(r) \in DOMAIN z /\ v[i] = z[i - Len(r)]
      <4>1. v[i] = o
        BY <1>5, <3>2
      <4> QED  BY <1>4, <4>1
    <3> QED  BY <1>6, <3>1, <3>2
  <2> QED  BY <1>6, <2>1 DEF ReadsOf
<1>8. ASSUME NEW c \in Image[x]
      PROVE  Asked(v, x, PageStart(c, PageSize[x]))
  <2> DEFINE a == PageStart(c, PageSize[x])
  <2>1. GetsPage(r, x, a)
    BY <1>3
  <2> HIDE DEF a
  <2>2. PICK i \in DOMAIN r :
           /\ i + 1 \in DOMAIN r /\ r[i] = jtagRead(x, a, PageSize[x])
           /\ r[i + 1] = [do |-> "verify", area |-> x, addr |-> a]
    BY <2>1 DEF GetsPage
  <2>3. Len(r) \in Nat /\ DOMAIN r = 1 .. Len(r)
    BY <1>3, SequencedHas
  <2>4. PICK l : l = Len(r) + 1
    OBVIOUS
  <2>5. l \in DOMAIN v /\ v[l] = o
    BY <1>5, <1>6, <2>4
  <2>6. l > i + 1
    BY <2>2, <2>3, <2>4
  <2>7. /\ i \in DOMAIN v /\ v[i] = r[i]
        /\ i + 1 \in DOMAIN v /\ v[i + 1] = r[i + 1]
    BY <1>6, <2>2
  <2>8. Judged(v, i + 1, x, a)
    BY <1>4, <2>2, <2>5, <2>6, <2>7 DEF Judged
  <2>9. Asked(v, x, a)
    BY <2>2, <2>7, <2>8 DEF Asked
  <2> QED  BY <2>9 DEF a
<1>9. Sequenced(<<>>) /\ DOMAIN <<>> = {}
  BY NothingFits DEF Fits
<1>10. WritesOf(<<>>, x) /\ ReadsOf(<<>>, x)
  BY <1>9 DEF WritesOf, ReadsOf, Enclosed
<1>11. Imaged(<<>>, x)
  BY <1>9 DEF Imaged, Enclosed
<1>12. WritesOf(p, x) /\ ReadsOf(q, x)
  BY <1>2, <1>7, <1>10
<1>13. verify => q = v
  OBVIOUS
<1> HIDE DEF p, q
<1>14. Imaged(p \o q, x)
  BY <1>12, JoinImage
<1>15. ASSUME verify, NEW c \in Image[x]
       PROVE  Asked(w, x, PageStart(c, PageSize[x]))
  <2>1. Image[x] # {}
    OBVIOUS
  <2>2. w = p \o q
    BY <1>1, <2>1
  <2>3. Sequenced(p) /\ Sequenced(q)
    BY <1>12 DEF WritesOf, ReadsOf
  <2>4. Asked(q, x, PageStart(c, PageSize[x]))
    BY <1>8, <1>13, <1>15
  <2> QED  BY <2>2, <2>3, <2>4, JoinAsked
<1> QED  BY <1>1, <1>11, <1>14, <1>15

(* What neither reads nor changes a memory. *)
Quiet(a) ==
  /\ Sequenced(a)
  /\ \A i \in DOMAIN a : /\ a[i].do # "catch"
                         /\ \A x \in Areas : ~Tells(a[i], x) /\ ~Upsets(a[i], x)

Orderly(a) == Sequenced(a) /\ Enclosed(a) /\ OrderOK(a)

LEMMA QuietIs ==
  ASSUME NEW a, Quiet(a)
  PROVE  Orderly(a)
BY DEF Quiet, Orderly, Enclosed, OrderOK

LEMMA SingleIs ==
  ASSUME NEW e
  PROVE  Sequenced(<<e>>) /\ DOMAIN <<e>> = {1} /\ <<e>>[1] = e
<1>1. Sequenced(<<e>>)
  BY SequencedOne
<1>2. DOMAIN <<e>> = {1} /\ <<e>>[1] = e
  OBVIOUS
<1> QED  BY <1>1, <1>2

Still(e) == e.do \in {"enable", "disable", "reply", "give up"}

LEMMA OneQuiet ==
  ASSUME NEW e, Still(e)
  PROVE  Quiet(<<e>>)
<1>1. Sequenced(<<e>>) /\ DOMAIN <<e>> = {1} /\ <<e>>[1] = e
  BY SingleIs, Zenon
<1>2. e.do # "catch" /\ \A x \in Areas : ~Tells(e, x) /\ ~Upsets(e, x)
  BY DEF Tells, Upsets, Still
<1> QED  BY <1>1, <1>2 DEF Quiet

LEMMA JoinOrderly ==
  ASSUME NEW a, NEW b, Orderly(a), Orderly(b),
         \A x \in Areas : \A i \in DOMAIN a, j \in DOMAIN b : Tells(a[i], x) => ~Upsets(b[j], x)
  PROVE  Orderly(a \o b)
<1>1. Sequenced(a) /\ Sequenced(b) /\ Enclosed(a) /\ Enclosed(b) /\ OrderOK(a) /\ OrderOK(b)
  BY DEF Orderly
<1>2. PICK u : u = a \o b
  OBVIOUS
<1>3. Sequenced(u)
  BY <1>1, <1>2, JoinHas
<1>4. Enclosed(u)
  BY <1>1, <1>2, JoinEnclosed
<1>5. OrderOK(u)
  BY <1>1, <1>2, JoinOrder
<1> QED  BY <1>2, <1>3, <1>4, <1>5 DEF Orderly

LEMMA JoinQuiet ==
  ASSUME NEW a, NEW b, Orderly(a), Orderly(b), Quiet(a) \/ Quiet(b)
  PROVE  Orderly(a \o b)
<1>1. \A x \in Areas : \A i \in DOMAIN a, j \in DOMAIN b : Tells(a[i], x) => ~Upsets(b[j], x)
  BY DEF Quiet
<1> QED  BY <1>1, JoinOrderly

LEMMA ImageOrderly ==
  ASSUME NEW w, NEW x, Imaged(w, x)
  PROVE  Orderly(w)
<1>1. /\ Sequenced(w) /\ Enclosed(w)
      /\ \A i \in DOMAIN w :
           /\ w[i].do \in {"try", "jtagWrite", "catch", "jtagRead", "verify", "verified"}
           /\ w[i].do \in {"jtagWrite", "jtagRead", "verify"} => w[i].area = x
      /\ \A i, j \in DOMAIN w : i < j /\ Tells(w[i], x) => w[j].do # "jtagWrite"
  BY DEF Imaged
<1>2. ASSUME NEW y \in Areas, NEW i \in DOMAIN w, NEW j \in DOMAIN w, i < j, Tells(w[i], y)
      PROVE  ~Upsets(w[j], y)
  <2>1. w[i].do \in {"jtagRead", "page", "bytes", "verify"} /\ w[i].area = y
    BY <1>2 DEF Tells
  <2>2. w[i].area = x
    BY <1>1, <2>1
  <2>3. Tells(w[i], x)
    BY <1>2, <2>1, <2>2
  <2>4. w[j].do # "jtagWrite"
    BY <1>1, <1>2, <2>3
  <2>5. w[j].do \notin {"erase", "jtagWrite", "write"}
    BY <1>1, <2>4
  <2> QED  BY <2>5 DEF Upsets
<1> QED  BY <1>1, <1>2 DEF Orderly, OrderOK

LEMMA TwoImages ==
  ASSUME NEW u, NEW v, Imaged(u, "flash"), Imaged(v, "eeprom")
  PROVE  Orderly(u \o v)
<1>1. Orderly(u) /\ Orderly(v)
  BY ImageOrderly
<1>2. /\ \A i \in DOMAIN u :
           /\ u[i].do \in {"try", "jtagWrite", "catch", "jtagRead", "verify", "verified"}
           /\ u[i].do \in {"jtagWrite", "jtagRead", "verify"} => u[i].area = "flash"
      /\ \A i \in DOMAIN v :
           /\ v[i].do \in {"try", "jtagWrite", "catch", "jtagRead", "verify", "verified"}
           /\ v[i].do \in {"jtagWrite", "jtagRead", "verify"} => v[i].area = "eeprom"
  BY DEF Imaged
<1>3. ASSUME NEW x \in Areas, NEW i \in DOMAIN u, NEW j \in DOMAIN v, Tells(u[i], x)
      PROVE  ~Upsets(v[j], x)
  <2>1. x = "flash"
    BY <1>2, <1>3 DEF Tells
  <2>2. \/ v[j].do \in {"try", "catch", "jtagRead", "verify", "verified"}
        \/ v[j].do = "jtagWrite" /\ v[j].area = "eeprom"
    BY <1>2
  <2> QED  BY <2>1, <2>2 DEF Upsets
<1> QED  BY <1>1, <1>3, JoinOrderly

(* What a download is to do: the writes of a memory before its reads, and   *)
(* to be verified every page that holds a byte of the file is read.         *)
LEMMA DownloadIs ==
  ASSUME TargetMemoryAssumption, NEW program \in BOOLEAN, NEW verify \in BOOLEAN,
         NEW a, a = Option("download", program, verify) \o <<Do("reply")>>
  PROVE  /\ BlocksOK(a) /\ OrderOK(a)
         /\ \/ verify => \A x \in Areas : \A c \in Image[x] :
                           Asked(a, x, PageStart(c, PageSize[x]))
            \/ a # <<>> /\ a[1].do = "give up"
<1> DEFINE g   == Do("give up")
           on  == Do("enable")
           off == Do("disable")
           end == Do("reply")
           u   == FlashImage("flash", program, verify)
           v   == FlashImage("eeprom", program, verify)
<1>1. Option("download", program, verify)
        = IF box.ice = "jtag3" THEN <<g>> ELSE ((<<on>> \o u) \o v) \o <<off>>
  BY Zenon DEF Option
<1>2. /\ g.do = "give up" /\ on.do = "enable" /\ off.do = "disable" /\ end.do = "reply"
      /\ a = Option("download", program, verify) \o <<end>>
  BY DEF Do
<1>3. /\ Imaged(u, "flash") /\ Imaged(v, "eeprom")
      /\ verify => /\ \A c \in Image["flash"] : Asked(u, "flash", PageStart(c, PageSize["flash"]))
                   /\ \A c \in Image["eeprom"] : Asked(v, "eeprom", PageStart(c, PageSize["eeprom"]))
  <2>1. "flash" \in Areas /\ "eeprom" \in Areas
    BY DEF Areas
  <2> QED  BY <2>1, ImageIs
<1> HIDE DEF g, on, off, end, u, v
<1>4. Quiet(<<g>>) /\ Quiet(<<on>>) /\ Quiet(<<off>>) /\ Quiet(<<end>>)
  <2>1. Still(g) /\ Still(on) /\ Still(off) /\ Still(end)
    BY <1>2 DEF Still
  <2> QED  BY <2>1, OneQuiet, Zenon
<1>5. Orderly(<<g>>) /\ Orderly(<<on>>) /\ Orderly(<<off>>) /\ Orderly(<<end>>)
  BY <1>4, QuietIs
<1>6. \A w : Orderly(w) => BlocksOK(w) /\ OrderOK(w) /\ Sequenced(w)
  BY EnclosedBlocks DEF Orderly
<1>7. CASE box.ice = "jtag3"
  <2>1. a = <<g>> \o <<end>>
    BY <1>1, <1>2, <1>7
  <2> DEFINE w == <<g>>
             z == <<end>>
  <2>2. Sequenced(w) /\ Sequenced(z) /\ 1 \in DOMAIN w /\ w[1] = g
    <3>1. Sequenced(w) /\ Sequenced(z)
      BY SequencedOne
    <3> QED  BY <3>1
  <2>4. a = w \o z /\ Orderly(w) /\ Orderly(z) /\ Quiet(w)
    BY <1>4, <1>5, <2>1
  <2> HIDE DEF w, z
  <2>7. Orderly(w \o z)
    BY <2>4, JoinQuiet
  <2>3. Orderly(a)
    BY <2>4, <2>7
  <2>5. 1 \in DOMAIN a /\ a[1] = g
    BY <2>2, <2>4, JoinHas
  <2>6. a # <<>>
    BY <2>5
  <2> QED  BY <1>2, <1>6, <2>3, <2>5, <2>6
<1>8. CASE box.ice # "jtag3"
  <2> DEFINE p == <<on>>
             q == <<off>>
             z == <<end>>
             b == p \o u
             c == b \o v
             d == c \o q
  <2>1. a = d \o z
    BY <1>1, <1>2, <1>8
  <2>2. Orderly(p) /\ Orderly(q) /\ Orderly(z) /\ Quiet(p) /\ Quiet(q) /\ Quiet(z)
    BY <1>4, <1>5
  <2> HIDE DEF p, q, z
  <2>3. Orderly(u) /\ Orderly(v)
    BY <1>3, ImageOrderly
  <2>4. Orderly(b)
    BY <2>2, <2>3, JoinQuiet
  <2>5. Orderly(c)
    <3>1. \A x \in Areas : \A i \in DOMAIN b, j \in DOMAIN v : Tells(b[i], x) => ~Upsets(v[j], x)
      <4> SUFFICES ASSUME NEW x \in Areas, NEW i \in DOMAIN b, NEW j \in DOMAIN v, Tells(b[i], x)
                   PROVE  ~Upsets(v[j], x)
        OBVIOUS
      <4>1. Sequenced(p) /\ Sequenced(u)
        BY <2>2, <2>3, <1>6
      <4>2. \/ i \in DOMAIN p /\ b[i] = p[i]
            \/ i - Len(p) \in DOMAIN u /\ b[i] = u[i - Len(p)]
        BY <4>1, JoinHas
      <4>3. ~(i \in DOMAIN p /\ b[i] = p[i])
        BY <2>2 DEF Quiet
      <4>4. PICK k \in DOMAIN u : Tells(u[k], x)
        BY <4>2, <4>3
      <4>5. x = "flash"
        BY <1>3, <4>4 DEF Imaged, Tells
      <4>6. \/ v[j].do \in {"try", "catch", "jtagRead", "verify", "verified"}
            \/ v[j].do = "jtagWrite" /\ v[j].area = "eeprom"
        BY <1>3 DEF Imaged
      <4> QED  BY <4>5, <4>6 DEF Upsets
    <3> HIDE DEF b
    <3> QED  BY <2>3, <2>4, <3>1, JoinOrderly
  <2> HIDE DEF c
  <2>6. Orderly(d)
    BY <2>2, <2>5, JoinQuiet
  <2> HIDE DEF d
  <2>7. Orderly(a)
    <3>1. Orderly(d \o z)
      BY <2>2, <2>6, JoinQuiet
    <3> QED  BY <2>1, <3>1
  <2>8. ASSUME NEW x \in Areas, NEW s, Asked(u, x, s) \/ Asked(v, x, s)
        PROVE  Asked(a, x, s)
    <3>1. /\ Sequenced(p) /\ Sequenced(q) /\ Sequenced(z) /\ Sequenced(u) /\ Sequenced(v)
          /\ Sequenced(b) /\ Sequenced(c) /\ Sequenced(d)
      <4> HIDE DEF b
      <4> QED  BY <1>6, <2>2, <2>3, <2>4, <2>5, <2>6
    <3>2. Asked(u, x, s) => Asked(b, x, s)
      BY <3>1, JoinAsked
    <3> HIDE DEF b
    <3>3. Asked(c, x, s)
      BY <2>8, <3>1, <3>2, JoinAsked DEF c
    <3>4. Asked(d, x, s)
      BY <3>1, <3>3, JoinAsked DEF d
    <3>5. Asked(d \o z, x, s)
      BY <3>1, <3>4, JoinAsked
    <3> QED  BY <2>1, <3>5
  <2>9. ASSUME verify, NEW x \in Areas, NEW k \in Image[x]
        PROVE  Asked(a, x, PageStart(k, PageSize[x]))
    <3>1. x = "flash" \/ x = "eeprom"
      BY DEF Areas
    <3>2. Asked(u, x, PageStart(k, PageSize[x])) \/ Asked(v, x, PageStart(k, PageSize[x]))
      BY <1>3, <2>9, <3>1
    <3> QED  BY <2>8, <3>2
  <2> QED  BY <1>6, <2>7, <2>9
<1> QED  BY <1>7, <1>8

LEMMA OptionDue ==
  ASSUME TargetMemoryAssumption, IInv, DownloadDue, NEW k \in DOMAIN Options,
         NEW program \in BOOLEAN, NEW verify \in BOOLEAN, TakeOption(k, program, verify)
  PROVE  DownloadDue'
<1>1. /\ stage < k /\ stage' = k /\ UNCHANGED <<box, cache, mem>>
      /\ agenda' = Option(Options[k], program, verify) \o <<Do("reply")>>
      /\ request' = [NoRequest EXCEPT !.cmd = Options[k], !.found = programmingEnabled,
                                      !.n = IF verify THEN 1 ELSE 0]
  BY DEF TakeOption
<1>2. request'.cmd = Options[k] /\ request'.n = IF verify THEN 1 ELSE 0
  BY <1>1 DEF NoRequest
<1>3. /\ k \in 1 .. 7 /\ Options[6] = "download" /\ Options[7] = "writeLockBits"
      /\ Options[1] = "erase" /\ Options[2] = "readFuses" /\ Options[3] = "readLockBits"
      /\ Options[4] = "writeFuses" /\ Options[5] = "debug"
  <2>1. k \in 1 .. 7
    BY OptionIs
  <2> QED  BY <2>1 DEF Options
<1>4. PICK a : a = agenda'
  OBVIOUS
<1>5. k \in {1, 2, 3, 4, 5, 6, 7}
  BY <1>3
<1>6. CASE k = 7
  <2>1. request'.cmd # "download" /\ ~(stage' < 6)
    BY <1>1, <1>2, <1>3, <1>6
  <2> QED  BY <2>1 DEF DownloadDue
<1>7. ASSUME stage < 6
      PROVE  \A x \in Areas : cache'[x].page = NoPage
  BY <1>1, <1>7 DEF DownloadDue
<1>8. CASE k \in {1, 2, 3, 4, 5}
  <2>1. BlocksOK(a) /\ NoPages(a)
    <3>1. k < 6
      BY <1>8
    <3> QED  BY <1>1, <1>4, <3>1, OptionReadsNone
  <2>2. BlocksOK(agenda)' /\ NoPages(agenda)'
    BY <1>4, <2>1 DEF BlocksOK, NoPages
  <2>3. stage < 6
    <3>1. stage \in Int
      <4>1. gone = 9
        BY OptionIs
      <4> QED  BY <4>1 DEF IInv, StageOK
    <3> QED  BY <1>1, <1>8, <3>1
  <2>4. request'.cmd # "download"
    BY <1>2, <1>3, <1>8
  <2> QED  BY <1>7, <2>2, <2>3, <2>4 DEF DownloadDue
<1>9. CASE k = 6
  <2>1. /\ BlocksOK(a) /\ OrderOK(a)
        /\ \/ verify => \A x \in Areas : \A c \in Image[x] :
                          Asked(a, x, PageStart(c, PageSize[x]))
           \/ a # <<>> /\ a[1].do = "give up"
    <3>1. a = Option("download", program, verify) \o <<Do("reply")>>
      BY <1>1, <1>3, <1>4, <1>9
    <3> QED  BY <3>1, DownloadIs
  <2>2. BlocksOK(agenda)' /\ OrderOK(agenda)'
    <3>1. BlocksOK(agenda') /\ OrderOK(agenda')
      BY <1>4, <2>1
    <3>2. BlocksOK(agenda)'
      BY <3>1 DEF BlocksOK
    <3>3. OrderOK(agenda)'
      BY <3>1 DEF OrderOK
    <3> QED  BY <3>2, <3>3
  <2>3. \A x \in Areas : cache'[x].page = NoPage
    BY <1>1, <1>7, <1>9
  <2>4. FreshOK'
    BY <2>3 DEF FreshOK, CacheFresh
  <2>5. ASSUME request'.n = 1, NEW x \in Areas, NEW c \in Image[x]
        PROVE  CellChecked(agenda, result, mem, verified, x, c)'
    <3>1. verify
      BY <1>2, <2>5
    <3>2. \/ Asked(a, x, PageStart(c, PageSize[x]))
          \/ a # <<>> /\ a[1].do = "give up"
      BY <2>1, <3>1
    <3>3. CellChecked(agenda', result', mem', verified', x, c)
      BY <1>4, <3>2 DEF CellChecked
    <3> QED  BY <1>1, <3>3, SameChecked
  <2>6. AllChecked(agenda, result, mem, verified)' \/ request'.n # 1
    BY <2>5 DEF AllChecked
  <2>7. ~(stage' < 6)
    BY <1>1, <1>9
  <2> QED  BY <2>2, <2>4, <2>6, <2>7 DEF DownloadDue
<1> QED  BY <1>5, <1>6, <1>8, <1>9

(* A packet comes when the options are done with. *)
LEMMA LaterDue ==
  ASSUME NEW cmd, cmd # "download", stage' >= 6, stage' \in Int, request'.cmd = cmd
  PROVE  DownloadDue'
<1>1. ~(stage' < 6) /\ request'.cmd # "download"
  OBVIOUS
<1> QED  BY <1>1 DEF DownloadDue

LEMMA PacketDue ==
  ASSUME NEW cmd, NEW x, NEW addr, NEW n, NEW todo, Packet(cmd, x, addr, n, todo),
         cmd # "download"
  PROVE  DownloadDue'
<1>1. stage' = serving /\ request'.cmd = cmd
  BY DEF Packet, session
<1>2. serving = 8
  BY OptionIs DEF Options
<1> QED  BY <1>1, <1>2, LaterDue

LEMMA SameDue ==
  ASSUME UNCHANGED <<box, mem, cache, agenda, request, result, reply, verified>>,
         DownloadDue, stage' = stage \/ ~(stage' < 6)
  PROVE  DownloadDue'
<1>1. stage' < 6 => BlocksOK(agenda)' /\ NoPages(agenda)' /\ \A x \in Areas : cache'[x].page = NoPage
  BY DEF DownloadDue, BlocksOK, NoPages
<1>2. ASSUME request'.cmd = "download"
      PROVE  /\ BlocksOK(agenda)' /\ OrderOK(agenda)' /\ FreshOK'
             /\ request'.n = 1 /\ Live(agenda', reply')
                  => AllChecked(agenda, result, mem, verified)'
  <2>1. /\ BlocksOK(agenda) /\ OrderOK(agenda) /\ FreshOK
        /\ request.n = 1 /\ Live(agenda, reply) => AllChecked(agenda, result, mem, verified)
    BY <1>2 DEF DownloadDue
  <2>2. BlocksOK(agenda)' /\ OrderOK(agenda)'
    BY <2>1 DEF BlocksOK, OrderOK
  <2>3. FreshOK'
    BY <2>1 DEF FreshOK, CacheFresh, Carried, Calm
  <2>4. ASSUME request'.n = 1, Live(agenda', reply'), NEW x \in Areas, NEW c \in Image[x]
        PROVE  CellChecked(agenda, result, mem, verified, x, c)'
    <3>1. Live(agenda, reply)
      BY <2>4
    <3>2. CellChecked(agenda, result, mem, verified, x, c)
      BY <2>1, <2>4, <3>1 DEF AllChecked
    <3>3. CellChecked(agenda', result', mem', verified', x, c)
      BY <3>2
    <3> QED  BY <3>3, SameChecked
  <2> QED  BY <2>2, <2>3, <2>4 DEF AllChecked, Live
<1> QED  BY <1>1, <1>2 DEF DownloadDue, Live

LEMMA NextDue ==
  ASSUME TargetMemoryAssumption, IInv, Shaped, CacheOK, DownloadDue, [Next]_vars
  PROVE  CacheOK' /\ DownloadDue'
<1>1. CacheOK'
  BY CacheKept
<1>2. CASE Work
  BY <1>1, <1>2, WorkDue
<1>3. CASE \E k \in DOMAIN Options, program, verify \in BOOLEAN :
             TakeOption(k, program, verify)
  <2>1. PICK k \in DOMAIN Options, program \in BOOLEAN, verify \in BOOLEAN :
               TakeOption(k, program, verify)
    BY <1>3
  <2> QED  BY <1>1, <2>1, OptionDue
<1>4. CASE Serve
  <2>1. ~(stage' < 6)
    <3>1. serving = 8
      BY OptionIs DEF Options
    <3> QED  BY <1>4, <3>1 DEF Serve
  <2> QED  BY <1>1, <1>4, <2>1, SameDue DEF Serve, answer
<1>5. ASSUME NEW cmd, NEW x, NEW addr, NEW n, NEW todo, Packet(cmd, x, addr, n, todo),
             cmd # "download"
      PROVE  DownloadDue'
  BY <1>5, PacketDue
<1>6. CASE \E x \in Areas : \E r \in Ranges[x] : ReadMemory(x, r[1], r[2])
  <2>1. PICK x \in Areas : \E r \in Ranges[x] : ReadMemory(x, r[1], r[2])
    BY <1>6
  <2>2. PICK r \in Ranges[x] : ReadMemory(x, r[1], r[2])
    BY <2>1
  <2>3. PICK todo : Packet("m", x, r[1], r[2], todo)
    BY <2>2, Zenon DEF ReadMemory
  <2> QED  BY <1>1, <1>5, <2>3
<1>7. CASE \E x \in Areas : \E r \in Ranges[x] : WriteMemory(x, r[1], r[2])
  <2>1. PICK x \in Areas : \E r \in Ranges[x] : WriteMemory(x, r[1], r[2])
    BY <1>7
  <2>2. PICK r \in Ranges[x] : WriteMemory(x, r[1], r[2])
    BY <2>1
  <2>3. PICK todo : Packet("M", x, r[1], r[2], todo)
    BY <2>2, Zenon DEF WriteMemory
  <2> QED  BY <1>1, <1>5, <2>3
<1>8. CASE FlashErase
  <2>1. PICK todo : Packet("vFlashErase", "flash", 0, 0, todo)
    BY <1>8, Zenon DEF FlashErase
  <2> QED  BY <1>1, <1>5, <2>1
<1>9. CASE \E r \in Ranges["flash"] : FlashWrite(r[1], r[2])
  <2>1. PICK r \in Ranges["flash"] : FlashWrite(r[1], r[2])
    BY <1>9
  <2>2. PICK todo : Packet("vFlashWrite", "flash", r[1], r[2], todo)
    BY <2>1, Zenon DEF FlashWrite
  <2> QED  BY <1>1, <1>5, <2>2
<1>10. CASE FlashDone
  <2>1. PICK todo : Packet("vFlashDone", "flash", 0, flashbuf.max, todo)
    BY <1>10, Zenon DEF FlashDone
  <2> QED  BY <1>1, <1>5, <2>1
<1>11. CASE UNCHANGED vars
  BY <1>1, <1>11, SameDue DEF vars, answer, session
<1> QED
  BY <1>2, <1>3, <1>4, <1>6, <1>7, <1>8, <1>9, <1>10, <1>11 DEF Next

LEMMA InitiallyDue == Init => CacheOK /\ DownloadDue
<1> SUFFICES ASSUME Init PROVE CacheOK /\ DownloadDue
  OBVIOUS
<1>1. /\ request.cmd = "none" /\ agenda = <<>> /\ DOMAIN <<>> = {}
      /\ \A x \in Areas : cache[x].page = NoPage
  BY DEF Init, NoRequest
<1>2. CacheOK
  BY DEF Init, CacheOK
<1>3. BlocksOK(agenda) /\ NoPages(agenda)
  BY <1>1 DEF BlocksOK, NoPages
<1> QED  BY <1>1, <1>2, <1>3 DEF DownloadDue

(* DownloadVerified: a download that was verified and answered has left    *)
(* every byte of the file in the target, whatever errors of its writes     *)
(* jtag_flash_image() passed over, in whatever commands the pages were sent *)
(* and read back, and though the reads may be served from a cache.         *)
THEOREM Downloaded == Spec => []DownloadVerified
<1>1. IInv /\ Shaped /\ CacheOK /\ DownloadDue /\ [Next]_vars => (CacheOK /\ DownloadDue)'
  BY TargetMemoryAssumption, NextDue
<1>2. DownloadDue => DownloadVerified
  <2> SUFFICES ASSUME DownloadDue, Answered("download"), request.n = 1,
                      NEW x \in Areas, NEW c \in Image[x]
               PROVE  mem[x][c] = ImageByte(x, c)
    BY DEF DownloadVerified
  <2>1. agenda = <<>> /\ DOMAIN agenda = {} /\ request.cmd = "download" /\ reply = "ok"
    BY DEF Answered, Idle
  <2>2. Live(agenda, reply)
    BY <2>1 DEF Live
  <2>3. CellChecked(agenda, result, mem, verified, x, c)
    BY <2>1, <2>2 DEF DownloadDue, AllChecked
  <2>4. ~Asked(agenda, x, PageStart(c, PageSize[x]))
    BY <2>1 DEF Asked
  <2>5. ~Under(agenda, result, mem, x, PageStart(c, PageSize[x]))
    <3>1. \A h : ~Judged(agenda, h, x, PageStart(c, PageSize[x]))
      BY <2>1 DEF Judged
    <3> QED  BY <3>1, Zenon DEF Under, Coming
  <2> QED  BY <2>1, <2>3, <2>4, <2>5 DEF CellChecked, Settled
<1> QED  BY <1>1, <1>2, InitiallyDue, ShapeInvariant, PTL DEF Spec

=============================================================================
