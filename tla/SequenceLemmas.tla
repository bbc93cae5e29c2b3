-------------------------- MODULE SequenceLemmas ---------------------------
(***************************************************************************)
(* Facts about sequences the proofs of this project share: parts of a      *)
(* sequence, what is left when an element is taken out, the elements of a  *)
(* sequence as a set, and sequences in which nothing occurs twice; and     *)
(* what these and others rest on: the least number of a set, and functions *)
(* defined by recursion.                                                   *)
(***************************************************************************)
EXTENDS Integers, SequencesExt, SequenceTheorems, WellFoundedInduction, TLAPS

(* A set of numbers that is not empty has a least one. *)
LEMMA MinIsLeast ==
  ASSUME NEW S \in SUBSET Nat, S # {}
  PROVE  Min(S) \in S /\ \A n \in S : Min(S) <= n
<1>1. \E m \in S : \A n \in S : ~(<<n, m>> \in OpToRel(<, Nat))
  BY NatLessThanWellFounded, WFMin
<1>2. PICK m \in S : \A n \in S : ~(<<n, m>> \in OpToRel(<, Nat))
  BY <1>1
<1>3. \A n \in S : m <= n
  <2>1. ASSUME NEW n \in S PROVE m <= n
    <3>1. n \in Nat /\ m \in Nat
      OBVIOUS
    <3>2. ~(n < m)
      BY <1>2, <3>1 DEF OpToRel
    <3>3. QED
      BY <3>1, <3>2
  <2>2. QED
    BY <2>1
<1>4. QED
  BY <1>3 DEF Min

(* A set of numbers with 0 that is closed under + 1 has them all. *)
LEMMA AllNumbers ==
  ASSUME NEW S \in SUBSET Nat, 0 \in S, \A n \in S : n + 1 \in S
  PROVE  S = Nat
<1> SUFFICES ASSUME Nat \ S # {} PROVE FALSE
  OBVIOUS
<1> DEFINE m == Min(Nat \ S)
<1>1. m \in Nat \ S /\ \A n \in Nat \ S : m <= n
  BY MinIsLeast
<1> HIDE DEF m
<1>2. m # 0 /\ m - 1 \in Nat
  BY <1>1
<1>3. m - 1 \in S
  BY <1>1, <1>2
<1>4. (m - 1) + 1 = m
  BY <1>1
<1>5. QED
  BY <1>1, <1>3, <1>4

(* A function on 0 .. n may be defined by recursion: g[k] makes the value  *)
(* for k + 1 out of the one for k.                                         *)
Recursion(f, x, g, n) ==
  f[0] = x /\ \A k \in 1 .. n : f[k] = g[k - 1][f[k - 1]]

LEMMA RecursiveFunction ==
  ASSUME NEW X, NEW x \in X, NEW g \in [Nat -> [X -> X]], NEW n \in Nat
  PROVE  \E f \in [0 .. n -> X] : Recursion(f, x, g, n)
<1> USE DEF Recursion
<1> DEFINE Rec(f, m) == Recursion(f, x, g, m)
           S == {m \in Nat : \E f \in [0 .. m -> X] : Rec(f, m)}
<1>1. 0 \in S
  <2> DEFINE f == [k \in 0 .. 0 |-> x]
  <2>1. f \in [0 .. 0 -> X] /\ Rec(f, 0)
    OBVIOUS
  <2> HIDE DEF f
  <2>2. QED
    BY <2>1
<1>2. ASSUME NEW m \in S
      PROVE  m + 1 \in S
  <2>1. PICK f \in [0 .. m -> X] : Rec(f, m)
    OBVIOUS
  <2> DEFINE h == [k \in 0 .. m + 1 |-> IF k = m + 1 THEN g[m][f[m]] ELSE f[k]]
  <2>2. m \in Nat /\ m \in 0 .. m /\ g[m][f[m]] \in X
    OBVIOUS
  <2>3. h \in [0 .. m + 1 -> X]
    BY <2>2
  <2>4. h[0] = x
    BY <2>1, <2>2
  <2>5. ASSUME NEW k \in 1 .. m + 1
        PROVE  h[k] = g[k - 1][h[k - 1]]
    <3>1. k - 1 \in 0 .. m /\ k - 1 \in 0 .. m + 1 /\ k - 1 # m + 1
      BY <2>2
    <3>2. h[k - 1] = f[k - 1]
      BY <3>1
    <3>3. CASE k = m + 1
      BY <2>2, <3>2, <3>3
    <3>4. CASE k # m + 1
      <4>1. k \in 1 .. m
        BY <2>2, <3>4
      <4>2. QED
        BY <2>1, <3>2, <3>4, <4>1
    <3>5. QED
      BY <3>3, <3>4
  <2> HIDE DEF h
  <2>6. QED
    BY <2>2, <2>3, <2>4, <2>5
<1> HIDE DEF S
<1>3. S \in SUBSET Nat
  BY DEF S
<1>4. n \in S
  BY <1>1, <1>2, <1>3, AllNumbers
<1>5. PICK f \in [0 .. n -> X] : Rec(f, n)
  BY <1>4 DEF S
<1>6. QED
  BY <1>5

(* What recursion defines, it defines once. *)
InStep(f, h, n) ==
  f[0] = h[0] /\ \A k \in 1 .. n : f[k - 1] = h[k - 1] => f[k] = h[k]

LEMMA SameRecursion ==
  ASSUME NEW n \in Nat, NEW f, NEW h, InStep(f, h, n)
  PROVE  f[n] = h[n]
<1> USE DEF InStep
<1> DEFINE S == {k \in Nat : k <= n => f[k] = h[k]}
<1>1. 0 \in S
  OBVIOUS
<1>2. ASSUME NEW k \in S PROVE k + 1 \in S
  <2> SUFFICES ASSUME k + 1 <= n PROVE f[k + 1] = h[k + 1]
    OBVIOUS
  <2>1. k + 1 \in 1 .. n /\ (k + 1) - 1 = k /\ k <= n
    OBVIOUS
  <2>2. QED
    BY <2>1
<1>3. \A k \in S : k <= n => f[k] = h[k]
  OBVIOUS
<1>4. S \in SUBSET Nat
  OBVIOUS
<1> HIDE DEF S
<1>5. S = Nat
  BY <1>1, <1>2, <1>4, AllNumbers
<1>6. QED
  BY <1>3, <1>5

(* A part of a sequence. *)
LEMMA PartOf ==
  ASSUME NEW S, NEW s \in Seq(S), NEW m \in Nat \ {0}, NEW n \in Nat,
         n <= Len(s), m <= n + 1
  PROVE  /\ SubSeq(s, m, n) \in Seq(S)
         /\ Len(SubSeq(s, m, n)) = n - m + 1
         /\ \A i \in 1 .. n - m + 1 : SubSeq(s, m, n)[i] = s[m + i - 1]
<1>1. /\ m \in Int /\ n \in Int /\ Len(s) \in Nat
      /\ (IF m <= n THEN n - m + 1 ELSE 0) = n - m + 1
  BY LenProperties
<1>2. \A i \in m .. n : s[i] \in S
  <2>1. \A i \in m .. n : i \in 1 .. Len(s)
    BY <1>1
  <2>2. QED
    BY <2>1, ElementOfSeq
<1>3. QED
  BY <1>1, <1>2, SubSeqProperties

(* What is left when the element at place m is taken out. *)
LEMMA RemoveAtProperties ==
  ASSUME NEW S, NEW s \in Seq(S), NEW m \in 1 .. Len(s)
  PROVE  /\ RemoveAt(s, m) \in Seq(S)
         /\ Len(s) \in Nat \ {0}
         /\ Len(RemoveAt(s, m)) = Len(s) - 1
         /\ \A i \in 1 .. Len(s) - 1 :
              RemoveAt(s, m)[i] = IF i < m THEN s[i] ELSE s[i + 1]
<1>1. Len(s) \in Nat \ {0} /\ m \in Nat \ {0} /\ m <= Len(s)
  BY LenProperties
<1>2. PICK p \in Seq(S) : /\ p = SubSeq(s, 1, m - 1) /\ Len(p) = m - 1
                          /\ \A i \in 1 .. m - 1 : p[i] = s[i]
  <2>1. PICK k \in Nat : k = m - 1 /\ k <= Len(s) /\ 1 <= k + 1
    BY <1>1
  <2>2. /\ SubSeq(s, 1, k) \in Seq(S) /\ Len(SubSeq(s, 1, k)) = k - 1 + 1
        /\ \A i \in 1 .. k - 1 + 1 : SubSeq(s, 1, k)[i] = s[1 + i - 1]
    BY <2>1, PartOf
  <2>3. k - 1 + 1 = k /\ \A i \in 1 .. k : 1 + i - 1 = i
    BY <2>1
  <2>4. QED
    BY <2>1, <2>2, <2>3
<1>3. PICK q \in Seq(S) : /\ q = SubSeq(s, m + 1, Len(s)) /\ Len(q) = Len(s) - m
                          /\ \A i \in 1 .. Len(s) - m : q[i] = s[m + i]
  <2>1. PICK k \in Nat \ {0} : k = m + 1 /\ k <= Len(s) + 1
    BY <1>1
  <2> DEFINE r == SubSeq(s, k, Len(s))
  <2>2. /\ r \in Seq(S) /\ Len(r) = Len(s) - k + 1
        /\ \A i \in 1 .. Len(s) - k + 1 : r[i] = s[k + i - 1]
    BY <1>1, <2>1, PartOf
  <2>3. r = SubSeq(s, m + 1, Len(s))
    BY <2>1
  <2> HIDE DEF r
  <2>4. /\ Len(s) - k + 1 = Len(s) - m
        /\ \A i \in 1 .. Len(s) - m : k + i - 1 = m + i
    BY <1>1, <2>1
  <2>5. \A i \in 1 .. Len(s) - m : r[i] = s[m + i]
    BY <2>2, <2>4
  <2>6. QED
    BY <2>2, <2>3, <2>4, <2>5
<1>4. RemoveAt(s, m) = p \o q
  BY <1>2, <1>3 DEF RemoveAt
<1>5. /\ p \o q \in Seq(S) /\ Len(p \o q) = Len(p) + Len(q)
      /\ \A i \in 1 .. Len(p) + Len(q) :
           (p \o q)[i] = IF i <= Len(p) THEN p[i] ELSE q[i - Len(p)]
  BY ConcatProperties
<1>6. Len(p) + Len(q) = Len(s) - 1
  <2>1. (m - 1) + (Len(s) - m) = Len(s) - 1
    BY <1>1
  <2>2. QED
    BY <1>2, <1>3, <2>1
<1>7. ASSUME NEW i \in 1 .. Len(s) - 1
      PROVE  RemoveAt(s, m)[i] = IF i < m THEN s[i] ELSE s[i + 1]
  <2>1. CASE i < m
    <3>1. i <= Len(p) /\ i \in 1 .. m - 1
      BY <1>1, <1>2, <2>1
    <3>2. QED
      BY <1>2, <1>4, <1>5, <1>6, <2>1, <3>1
  <2>2. CASE ~(i < m)
    <3>1. /\ ~(i <= Len(p)) /\ i - Len(p) \in 1 .. Len(s) - m
          /\ m + (i - Len(p)) = i + 1
      BY <1>1, <1>2, <2>2
    <3>2. QED
      BY <1>3, <1>4, <1>5, <1>6, <2>2, <3>1
  <2>3. QED
    BY <2>1, <2>2
<1>8. QED
  BY <1>1, <1>4, <1>5, <1>6, <1>7

-----------------------------------------------------------------------------
(* The elements of a sequence.                                             *)

(* An element has a place. *)
LEMMA ToSetProperties ==
  ASSUME NEW S, NEW s \in Seq(S)
  PROVE  /\ Len(s) \in Nat
         /\ ToSet(s) = {s[i] : i \in 1 .. Len(s)}
         /\ ToSet(s) \subseteq S
BY LenProperties, ElementOfSeq DEF ToSet

(* Nothing occurs twice: distinct places hold distinct elements. *)
LEMMA InjectiveIs ==
  ASSUME NEW S, NEW s \in Seq(S)
  PROVE  IsInjective(s) <=>
           \A i, j \in 1 .. Len(s) : s[i] = s[j] => i = j
BY LenProperties DEF IsInjective

(* An element put behind a sequence. *)
LEMMA ToSetOfAppend ==
  ASSUME NEW S, NEW s \in Seq(S), NEW e \in S
  PROVE  /\ Append(s, e) \in Seq(S)
         /\ ToSet(Append(s, e)) = ToSet(s) \cup {e}
         /\ IsInjective(s) /\ e \notin ToSet(s) => IsInjective(Append(s, e))
<1> DEFINE a == Append(s, e)
           n == Len(s)
<1>1. /\ a \in Seq(S) /\ Len(a) = n + 1 /\ n \in Nat
      /\ \A i \in 1 .. n : a[i] = s[i]
      /\ a[n + 1] = e
  BY AppendProperties, LenProperties
<1> HIDE DEF a
<1>2. \A i \in 1 .. Len(a) : i \in 1 .. n \/ i = n + 1
  BY <1>1
<1>3. \A i \in 1 .. n : i \in 1 .. Len(a)
  BY <1>1
<1>4. n + 1 \in 1 .. Len(a)
  BY <1>1
<1>5. ToSet(a) = ToSet(s) \cup {e}
  <2>1. ToSet(a) = {a[i] : i \in 1 .. Len(a)} /\ ToSet(s) = {s[i] : i \in 1 .. n}
    BY <1>1, ToSetProperties
  <2>2. QED
    BY <1>1, <1>2, <1>3, <1>4, <2>1
<1>6. ASSUME IsInjective(s), e \notin ToSet(s)
      PROVE  IsInjective(a)
  <2>1. \A i \in 1 .. n : s[i] # e
    BY <1>6, ToSetProperties
  <2>2. \A i, j \in 1 .. n : s[i] = s[j] => i = j
    BY <1>6, InjectiveIs
  <2>3. \A i, j \in 1 .. Len(a) : a[i] = a[j] => i = j
    BY <1>1, <1>2, <2>1, <2>2
  <2>4. QED
    BY <1>1, <2>3, InjectiveIs
<1>7. QED
  BY <1>1, <1>5, <1>6 DEF a

(* Two sequences one behind the other. *)
LEMMA ToSetOfConcat ==
  ASSUME NEW S, NEW s \in Seq(S), NEW t \in Seq(S)
  PROVE  /\ ToSet(s \o t) = ToSet(s) \cup ToSet(t)
         /\ IsInjective(s) /\ IsInjective(t) /\ ToSet(s) \cap ToSet(t) = {}
              => IsInjective(s \o t)
<1> DEFINE a == s \o t
           n == Len(s)
           m == Len(t)
<1>1. /\ a \in Seq(S) /\ Len(a) = n + m /\ n \in Nat /\ m \in Nat
      /\ \A i \in 1 .. n + m : a[i] = IF i <= n THEN s[i] ELSE t[i - n]
  BY ConcatProperties, LenProperties
<1> HIDE DEF a
<1>2. /\ \A i \in 1 .. n : i \in 1 .. n + m /\ a[i] = s[i]
      /\ \A i \in 1 .. m : n + i \in 1 .. n + m /\ a[n + i] = t[i]
      /\ \A i \in 1 .. n + m : \/ i \in 1 .. n /\ a[i] = s[i]
                               \/ i - n \in 1 .. m /\ a[i] = t[i - n]
  <2>1. /\ \A i \in 1 .. n : i \in 1 .. n + m /\ i <= n
        /\ \A i \in 1 .. m : n + i \in 1 .. n + m /\ ~(n + i <= n)
                             /\ (n + i) - n = i
        /\ \A i \in 1 .. n + m : i <= n => i \in 1 .. n
        /\ \A i \in 1 .. n + m : ~(i <= n) => i - n \in 1 .. m
    BY <1>1
  <2>2. QED
    BY <1>1, <2>1
<1>3. /\ ToSet(a) = {a[i] : i \in 1 .. n + m}
      /\ ToSet(s) = {s[i] : i \in 1 .. n}
      /\ ToSet(t) = {t[i] : i \in 1 .. m}
  BY <1>1, ToSetProperties
<1>4. ToSet(a) = ToSet(s) \cup ToSet(t)
  BY <1>2, <1>3
<1>5. ASSUME IsInjective(s), IsInjective(t), ToSet(s) \cap ToSet(t) = {}
      PROVE  IsInjective(a)
  <2>1. /\ \A i, j \in 1 .. n : s[i] = s[j] => i = j
        /\ \A i, j \in 1 .. m : t[i] = t[j] => i = j
    BY <1>5, InjectiveIs
  <2>2. \A i \in 1 .. n, j \in 1 .. m : s[i] # t[j]
    BY <1>3, <1>5
  <2>3. ASSUME NEW i \in 1 .. n + m, NEW j \in 1 .. n + m, a[i] = a[j]
        PROVE  i = j
    <3>1. CASE i \in 1 .. n /\ j \in 1 .. n
      BY <1>1, <2>1, <2>3, <3>1
    <3>2. CASE i - n \in 1 .. m /\ j - n \in 1 .. m
      <4>1. i - n = j - n
        BY <1>1, <2>1, <2>3, <3>2
      <4>2. QED
        BY <1>1, <4>1
    <3>3. CASE i \in 1 .. n /\ j - n \in 1 .. m
      BY <1>1, <2>2, <2>3, <3>3
    <3>4. CASE i - n \in 1 .. m /\ j \in 1 .. n
      <4>1. a[j] = s[j]
        BY <1>2, <3>4
      <4>2. a[i] = t[i - n]
        <5> DEFINE l == i - n
        <5>1. l \in 1 .. m /\ n + l = i
          BY <1>1, <3>4
        <5> HIDE DEF l
        <5>2. a[i] = t[l]
          BY <1>2, <5>1
        <5> QED  BY <5>2 DEF l
      <4>3. s[j] # t[i - n]
        BY <2>2, <3>4
      <4>4. QED
        BY <2>3, <4>1, <4>2, <4>3
    <3>5. QED
      BY <1>2, <3>1, <3>2, <3>3, <3>4
  <2>4. QED
    BY <1>1, <2>3, InjectiveIs
<1>6. QED
  BY <1>4, <1>5 DEF a

(* An element taken out: the others are left, in their order. *)
LEMMA ToSetOfRemoveAt ==
  ASSUME NEW S, NEW s \in Seq(S), NEW m \in 1 .. Len(s)
  PROVE  /\ ToSet(RemoveAt(s, m)) \subseteq ToSet(s)
         /\ ToSet(s) = ToSet(RemoveAt(s, m)) \cup {s[m]}
         /\ IsInjective(s) => /\ IsInjective(RemoveAt(s, m))
                              /\ s[m] \notin ToSet(RemoveAt(s, m))
<1> DEFINE r == RemoveAt(s, m)
           n == Len(s)
<1>1. /\ r \in Seq(S) /\ n \in Nat \ {0} /\ Len(r) = n - 1
      /\ \A i \in 1 .. n - 1 : r[i] = IF i < m THEN s[i] ELSE s[i + 1]
  BY RemoveAtProperties
<1> HIDE DEF r
<1>2. /\ ToSet(r) = {r[i] : i \in 1 .. n - 1}
      /\ ToSet(s) = {s[i] : i \in 1 .. n}
  BY <1>1, ToSetProperties
<1> DEFINE f(i) == IF i < m THEN i ELSE i + 1
<1>3. /\ \A i \in 1 .. n - 1 : f(i) \in 1 .. n /\ f(i) # m /\ r[i] = s[f(i)]
      /\ \A i, j \in 1 .. n - 1 : f(i) = f(j) => i = j
  BY <1>1
<1>4. \A k \in 1 .. n : k # m => \E i \in 1 .. n - 1 : f(i) = k
  <2> SUFFICES ASSUME NEW k \in 1 .. n, k # m
               PROVE  \E i \in 1 .. n - 1 : f(i) = k
    OBVIOUS
  <2>1. CASE k < m
    <3>1. k \in 1 .. n - 1 /\ f(k) = k
      BY <1>1, <2>1
    <3>2. QED
      BY <3>1
  <2>2. CASE k > m
    <3>1. k - 1 \in 1 .. n - 1 /\ f(k - 1) = k
      BY <1>1, <2>2
    <3>2. QED
      BY <3>1
  <2>3. QED
    BY <1>1, <2>1, <2>2
<1> HIDE DEF f
<1>5. ToSet(r) \subseteq ToSet(s)
  BY <1>2, <1>3
<1>6. ToSet(s) \subseteq ToSet(r) \cup {s[m]}
  <2> SUFFICES ASSUME NEW k \in 1 .. n, k # m PROVE s[k] \in ToSet(r)
    BY <1>2
  <2>1. PICK i \in 1 .. n - 1 : f(i) = k
    BY <1>4
  <2>2. QED
    BY <1>2, <1>3, <2>1
<1>7. s[m] \in ToSet(s)
  BY <1>2
<1>8. ASSUME IsInjective(s)
      PROVE  IsInjective(r) /\ s[m] \notin ToSet(r)
  <2>1. \A i, j \in 1 .. n : s[i] = s[j] => i = j
    BY <1>8, InjectiveIs
  <2>2. \A i, j \in 1 .. n - 1 : r[i] = r[j] => i = j
    BY <1>3, <2>1
  <2>3. IsInjective(r)
    BY <1>1, <2>2, InjectiveIs
  <2>4. s[m] \notin ToSet(r)
    BY <1>2, <1>3, <2>1
  <2>5. QED
    BY <2>3, <2>4
<1>9. QED
  BY <1>5, <1>6, <1>7, <1>8 DEF r

(* Sequences are put one behind another from the first on. *)
Flattens(h, ss, n) ==
  h[1] = ss[1] /\ \A k \in 2 .. n : h[k] = h[k - 1] \o ss[k]

LEMMA FlattenSteps ==
  ASSUME NEW S, NEW ss \in Seq(Seq(S)), NEW n, n = Len(ss), n # 0
  PROVE  \E h : Flattens(h, ss, n) /\ FlattenSeq(ss) = h[n]
<1> DEFINE Step(s, k) == s \o ss[k]
           g == [k \in Nat |-> [s \in Seq(S) |->
                   IF k + 1 \in 1 .. n THEN Step(s, k + 1) ELSE s]]
           Rec(h) == h = [i \in 1 .. n |->
                            IF i = 1 THEN ss[i] ELSE h[i - 1] \o ss[i]]
<1>1. n \in Nat /\ \A k \in 1 .. n : ss[k] \in Seq(S)
  OBVIOUS
<1>2. ASSUME NEW s \in Seq(S), NEW k \in 1 .. n
      PROVE  Step(s, k) \in Seq(S)
  BY <1>1, ConcatProperties
<1>3. <<>> \in Seq(S)
  OBVIOUS
<1> HIDE DEF Step
<1>4. g \in [Nat -> [Seq(S) -> Seq(S)]]
  BY <1>2
<1>5. \A k \in Nat, s \in Seq(S) :
        k + 1 \in 1 .. n => g[k][s] = Step(s, k + 1)
  OBVIOUS
<1> HIDE DEF g
<1>6. PICK f \in [0 .. n -> Seq(S)] : Recursion(f, <<>>, g, n)
  BY <1>1, <1>3, <1>4, RecursiveFunction
<1>7. f[0] = <<>> /\ \A k \in 1 .. n : f[k] = g[k - 1][f[k - 1]]
  BY <1>6 DEF Recursion
<1>8. ASSUME NEW k \in 1 .. n
      PROVE  f[k] = Step(f[k - 1], k)
  <2>1. k - 1 \in Nat /\ (k - 1) + 1 = k /\ k - 1 \in 0 .. n
    BY <1>1
  <2>2. QED
    BY <1>5, <1>7, <2>1
<1>9. Step(f[0], 1) = ss[1]
  BY <1>1, <1>7, ConcatEmptySeq DEF Step
<1> DEFINE h0 == [i \in 1 .. n |-> f[i]]
<1>10. Rec(h0)
  <2>1. ASSUME NEW i \in 1 .. n
        PROVE  f[i] = IF i = 1 THEN ss[i] ELSE h0[i - 1] \o ss[i]
    <3>1. CASE i = 1
      BY <1>8, <1>9, <3>1
    <3>2. CASE i # 1
      <4>1. i - 1 \in 1 .. n
        BY <1>1, <3>2
      <4>2. QED
        BY <1>8, <3>2, <4>1 DEF Step
    <3>3. QED
      BY <3>1, <3>2
  <2>2. QED
    BY <2>1
<1> HIDE DEF h0
<1> DEFINE h == CHOOSE x : Rec(x)
<1>11. Rec(h)
  BY <1>10
<1>12. FlattenSeq(ss) = h[n]
  BY DEF FlattenSeq
<1> HIDE DEF h
<1>13. Flattens(h, ss, n)
  <2>1. 1 \in 1 .. n /\ \A k \in 2 .. n : k \in 1 .. n /\ k # 1
    BY <1>1
  <2>2. QED
    BY <1>11, <2>1 DEF Flattens
<1>14. QED
  BY <1>12, <1>13

(* What holds of the parts, and of two sequences put one behind the other,  *)
(* holds of the whole; and so does what one of the parts brings.           *)
LEMMA FlattenBrings ==
  ASSUME NEW S, NEW ss \in Seq(Seq(S)), NEW G, NEW H, NEW m \in 1 .. Len(ss),
         \A k \in 1 .. Len(ss) : ss[k] \in G, ss[m] \in H,
         \A u, v \in G : u \o v \in G,
         \A u \in G, w \in H : u \o w \in H /\ w \o u \in H
  PROVE  FlattenSeq(ss) \in H
<1> DEFINE n == Len(ss)
<1>1. n \in Nat /\ n # 0 /\ m \in 1 .. n
  OBVIOUS
<1>2. \A k \in 1 .. n : ss[k] \in G
  OBVIOUS
<1> HIDE DEF n
<1>3. PICK h : Flattens(h, ss, n) /\ FlattenSeq(ss) = h[n]
  BY <1>1, FlattenSteps DEF n
<1> DEFINE Q(k) == IF k < m THEN h[k] \in G ELSE h[k] \in H
           T == {k \in Nat : k + 1 \in 1 .. n => Q(k + 1)}
<1>4. Q(1)
  BY <1>1, <1>2, <1>3 DEF Flattens
<1>5. ASSUME NEW k \in 1 .. n, Q(k), k + 1 \in 1 .. n
      PROVE  Q(k + 1)
  <2> DEFINE l == k + 1
  <2>1. l \in 2 .. n /\ l \in 1 .. n /\ l - 1 = k /\ k < l
    BY <1>1, <1>5
  <2> HIDE DEF l
  <2>2. h[l] = h[k] \o ss[l] /\ ss[l] \in G
    BY <1>2, <1>3, <2>1 DEF Flattens
  <2>3. CASE l < m
    <3>1. h[k] \in G
      BY <1>1, <1>5, <2>1, <2>3
    <3>2. QED
      BY <2>2, <2>3, <3>1 DEF l
  <2>4. CASE l = m
    <3>1. h[k] \in G
      BY <1>5, <2>1, <2>4
    <3>2. QED
      BY <1>1, <2>2, <2>4, <3>1 DEF l
  <2>5. CASE l > m
    <3>1. h[k] \in H
      BY <1>1, <1>5, <2>1, <2>5 DEF l
    <3>2. QED
      BY <1>1, <2>1, <2>2, <2>5, <3>1 DEF l
  <2>6. QED
    BY <1>1, <2>1, <2>3, <2>4, <2>5 DEF l
<1>6. 0 \in T
  BY <1>4
<1>7. ASSUME NEW k \in T
      PROVE  k + 1 \in T
  <2> SUFFICES ASSUME (k + 1) + 1 \in 1 .. n PROVE Q((k + 1) + 1)
    OBVIOUS
  <2>1. k + 1 \in 1 .. n /\ Q(k + 1)
    BY <1>1
  <2> HIDE DEF Q
  <2>2. QED
    BY <1>5, <2>1
<1>8. T \in SUBSET Nat /\ \A k \in T : k + 1 \in 1 .. n => Q(k + 1)
  OBVIOUS
<1> HIDE DEF T, Q
<1>9. T = Nat
  BY <1>6, <1>7, <1>8, AllNumbers
<1>10. n - 1 \in Nat /\ (n - 1) + 1 \in 1 .. n /\ (n - 1) + 1 = n
  BY <1>1
<1>11. Q(n)
  BY <1>8, <1>9, <1>10
<1>12. QED
  BY <1>1, <1>3, <1>11 DEF Q

LEMMA FlattenKeeps ==
  ASSUME NEW S, NEW ss \in Seq(Seq(S)), NEW G, <<>> \in G,
         \A k \in 1 .. Len(ss) : ss[k] \in G, \A u, v \in G : u \o v \in G
  PROVE  FlattenSeq(ss) \in G
<1>1. CASE Len(ss) = 0
  <2>1. ss = <<>>
    BY <1>1
  <2>2. QED
    BY <1>1, <2>1 DEF FlattenSeq
<1>2. CASE Len(ss) # 0
  <2>1. 1 \in 1 .. Len(ss)
    BY <1>2
  <2>2. QED
    BY <2>1, FlattenBrings
<1>3. QED
  BY <1>1, <1>2

(* Sequences put one behind another bring no element of their own. *)
LEMMA FlattenElements ==
  ASSUME NEW S, NEW ss \in Seq(Seq(S))
  PROVE  FlattenSeq(ss) \in Seq(S)
<1>1. <<>> \in Seq(S) /\ \A k \in 1 .. Len(ss) : ss[k] \in Seq(S)
  OBVIOUS
<1>2. \A u, v \in Seq(S) : u \o v \in Seq(S)
  BY ConcatProperties
<1>3. QED
  BY <1>1, <1>2, FlattenKeeps

=============================================================================
