-------------------------- MODULE AESTimer_proofs --------------------------
(***************************************************************************)
(* Proofs about the timer events, for any event blocks, delays and size of *)
(* the fork ring: the delta list holds every expiry exactly, and the tick  *)
(* interrupt's count-down is never lost.                                   *)
(*                                                                         *)
(* DueAt() is a recursive function. What it computes is proved by          *)
(* induction: a set of numbers that has 0 and with each number the next    *)
(* has them all, because its complement would have a least element.        *)
(***************************************************************************)
EXTENDS AESTimer, SequenceTheorems, FiniteSetTheorems, TLAPS

LEMMA Induction ==
  ASSUME NEW G, 0 \in G, \A n \in Nat : n \in G => n + 1 \in G
  PROVE  \A n \in Nat : n \in G
<1> SUFFICES ASSUME Nat \ G # {} PROVE FALSE
  OBVIOUS
<1>1. PICK n \in Nat \ G : \A m \in Nat \ G : ~(<<m, n>> \in OpToRel(<, Nat))
  <2>1. Nat \ G \subseteq Nat
    OBVIOUS
  <2> QED
    BY <2>1, NatLessThanWellFounded, WFMin, Zenon
<1>2. n # 0 /\ n - 1 \in Nat /\ (n - 1) + 1 = n /\ n - 1 < n
  OBVIOUS
<1>3. n - 1 \in G
  <2>1. <<n - 1, n>> \in OpToRel(<, Nat)
    BY <1>2, Zenon DEF OpToRel
  <2> QED
    BY <1>1, <1>2, <2>1
<1> QED
  BY <1>2, <1>3

(***************************************************************************)
(* Delta lists.                                                            *)
(***************************************************************************)

(* DueAt() is the sum of the delays up to a block. *)
LEMMA DueAtStep ==
  ASSUME NEW s
  PROVE  /\ DueAt(s, 0) = 0
         /\ \A i \in Nat : DueAt(s, i + 1) = DueAt(s, i) + s[i + 1].parm
<1> DEFINE Sums(i, g) ==
             g = [k \in 0 .. i |-> IF k = 0 THEN 0 ELSE g[k - 1] + s[k].parm]
           F(i) == CHOOSE g : Sums(i, g)
<1>1. \A i \in Nat : \E g : Sums(i, g)
  <2> DEFINE G == {i \in Nat : \E g : Sums(i, g)}
  <2>1. 0 \in G
    <3>1. Sums(0, [k \in 0 .. 0 |-> 0])
      OBVIOUS
    <3> QED
      BY <3>1
  <2>2. ASSUME NEW i \in Nat, i \in G
        PROVE  i + 1 \in G
    <3>1. PICK g : Sums(i, g)
      BY <2>2
    <3> DEFINE h == [k \in 0 .. i + 1 |->
                       IF k = i + 1 THEN g[i] + s[i + 1].parm ELSE g[k]]
    <3>2. ASSUME NEW k \in 0 .. i + 1
          PROVE  h[k] = IF k = 0 THEN 0 ELSE h[k - 1] + s[k].parm
      <4>1. CASE k = i + 1
        BY <4>1
      <4>2. CASE k # i + 1
        <5>1. k \in 0 .. i /\ (k # 0 => k - 1 \in 0 .. i)
          BY <4>2
        <5>2. g[k] = IF k = 0 THEN 0 ELSE g[k - 1] + s[k].parm
          BY <3>1, <5>1
        <5> QED
          BY <4>2, <5>1, <5>2
      <4> QED
        BY <4>1, <4>2
    <3>3. Sums(i + 1, h)
      BY <3>2
    <3> HIDE DEF h, Sums
    <3> QED
      BY <3>3
  <2> HIDE DEF Sums
  <2>3. \A i \in Nat : i \in G
    <3> HIDE DEF G
    <3> QED
      BY <2>1, <2>2, Induction
  <2> QED
    BY <2>3
<1>2. ASSUME NEW i \in Nat
      PROVE  Sums(i, F(i))
  <2> HIDE DEF Sums
  <2> QED
    BY <1>1
<1>3. ASSUME NEW i \in Nat
      PROVE  DueAt(s, i) = F(i)[i]
  BY DEF DueAt
<1> HIDE DEF F
<1>4. ASSUME NEW i \in Nat
      PROVE  F(i + 1)[i] = F(i)[i]
  <2> DEFINE G == {k \in Nat : k <= i => F(i + 1)[k] = F(i)[k]}
             a == F(i)
             b == F(i + 1)
  <2>1. \A k \in 0 .. i : a[k] = IF k = 0 THEN 0 ELSE a[k - 1] + s[k].parm
    BY <1>2
  <2>2. i + 1 \in Nat /\ Sums(i + 1, b)
    BY <1>2
  <2>3. \A k \in 0 .. i + 1 : b[k] = IF k = 0 THEN 0 ELSE b[k - 1] + s[k].parm
    BY <2>2
  <2> HIDE DEF a, b
  <2>4. 0 \in G
    BY <2>1, <2>3 DEF a, b
  <2>5. ASSUME NEW k \in Nat, k \in G
        PROVE  k + 1 \in G
    <3> SUFFICES ASSUME k + 1 <= i
                 PROVE  b[k + 1] = a[k + 1]
      BY DEF a, b
    <3>1. b[k] = a[k]
      BY <2>5 DEF a, b
    <3>2. k + 1 \in 0 .. i /\ k + 1 \in 0 .. i + 1 /\ k + 1 # 0 /\ (k + 1) - 1 = k
      OBVIOUS
    <3>3. a[k + 1] = a[k] + s[k + 1].parm
      BY <2>1, <3>2
    <3>4. b[k + 1] = b[k] + s[k + 1].parm
      BY <2>3, <3>2
    <3> QED
      BY <3>1, <3>3, <3>4
  <2>6. \A k \in Nat : k \in G
    <3> HIDE DEF G
    <3> QED
      BY <2>4, <2>5, Induction
  <2> QED
    BY <2>6
<1>5. DueAt(s, 0) = 0
  <2>1. F(0)[0] = 0
    BY <1>2
  <2> QED
    BY <1>3, <2>1
<1>6. ASSUME NEW i \in Nat
      PROVE  DueAt(s, i + 1) = DueAt(s, i) + s[i + 1].parm
  <2>1. i + 1 \in Nat /\ i + 1 \in 0 .. i + 1 /\ i + 1 # 0 /\ (i + 1) - 1 = i
    OBVIOUS
  <2>2. F(i + 1)[i + 1] = F(i + 1)[i] + s[i + 1].parm
    <3>1. Sums(i + 1, F(i + 1))
      BY <1>2, <2>1
    <3> QED
      BY <2>1, <3>1
  <2> QED
    BY <1>3, <1>4, <2>1, <2>2
<1> QED
  BY <1>5, <1>6

(* It depends on the delays alone. *)
LEMMA DueAtSame ==
  ASSUME NEW s, NEW t, NEW n \in Nat,
         \A k \in 1 .. n : t[k].parm = s[k].parm
  PROVE  \A i \in 0 .. n : DueAt(t, i) = DueAt(s, i)
<1> DEFINE G == {i \in Nat : i <= n => DueAt(t, i) = DueAt(s, i)}
<1>1. 0 \in G
  BY DueAtStep
<1>2. ASSUME NEW i \in Nat, i \in G
      PROVE  i + 1 \in G
  <2> SUFFICES ASSUME i + 1 <= n
               PROVE  DueAt(t, i + 1) = DueAt(s, i + 1)
    OBVIOUS
  <2>1. DueAt(t, i) = DueAt(s, i) /\ t[i + 1].parm = s[i + 1].parm
    BY <1>2
  <2>2. DueAt(t, i + 1) = DueAt(t, i) + t[i + 1].parm
    BY DueAtStep
  <2>3. DueAt(s, i + 1) = DueAt(s, i) + s[i + 1].parm
    BY DueAtStep
  <2> QED
    BY <2>1, <2>2, <2>3
<1>3. \A i \in Nat : i \in G
  <2> HIDE DEF G
  <2> QED
    BY <1>1, <1>2, Induction
<1> QED
  BY <1>3

Delays == [ev : Evbs, parm : Nat]

(* Expiries do not decrease along a list. *)
LEMMA DueAtType ==
  ASSUME NEW s \in Seq(Delays)
  PROVE  /\ \A i \in 0 .. Len(s) : DueAt(s, i) \in Nat
         /\ \A i, j \in 0 .. Len(s) : i <= j => DueAt(s, i) <= DueAt(s, j)
<1>1. \A i \in 1 .. Len(s) : s[i].parm \in Nat
  <2>1. \A i \in 1 .. Len(s) : s[i] \in Delays
    BY ElementOfSeq
  <2> QED
    BY <2>1 DEF Delays
<1>2. Len(s) \in Nat
  OBVIOUS
<1> DEFINE G == {j \in Nat : j <= Len(s) =>
                   \A i \in 0 .. j : /\ DueAt(s, i) \in Nat
                                      /\ DueAt(s, i) <= DueAt(s, j)}
<1>3. 0 \in G
  <2>1. DueAt(s, 0) = 0
    BY DueAtStep
  <2>2. \A i \in 0 .. 0 : i = 0
    OBVIOUS
  <2> QED
    BY <2>1, <2>2
<1>4. ASSUME NEW j \in Nat, j \in G
      PROVE  j + 1 \in G
  <2> SUFFICES ASSUME j + 1 <= Len(s)
               PROVE  \A i \in 0 .. j + 1 : /\ DueAt(s, i) \in Nat
                                             /\ DueAt(s, i) <= DueAt(s, j + 1)
    OBVIOUS
  <2>1. \A i \in 0 .. j : DueAt(s, i) \in Nat /\ DueAt(s, i) <= DueAt(s, j)
    BY <1>2, <1>4
  <2>2. DueAt(s, j + 1) = DueAt(s, j) + s[j + 1].parm
    BY DueAtStep
  <2>3. s[j + 1].parm \in Nat
    BY <1>1, <1>2
  <2>4. DueAt(s, j + 1) \in Nat /\ DueAt(s, j) <= DueAt(s, j + 1)
    BY <2>1, <2>2, <2>3
  <2>5. ASSUME NEW i \in 0 .. j + 1
        PROVE  DueAt(s, i) \in Nat /\ DueAt(s, i) <= DueAt(s, j + 1)
    <3>1. CASE i = j + 1
      BY <3>1, <2>4
    <3>2. CASE i # j + 1
      <4>1. i \in 0 .. j /\ j \in 0 .. j
        BY <3>2
      <4>2. /\ DueAt(s, i) <= DueAt(s, j)
            /\ DueAt(s, i) \in Nat
            /\ DueAt(s, j) \in Nat
        BY <4>1, <2>1
      <4> QED
        BY <4>2, <2>4
    <3> QED
      BY <3>1, <3>2
  <2> QED
    BY <2>5
<1>5. \A j \in Nat : j \in G
  <2> HIDE DEF G
  <2> QED
    BY <1>3, <1>4, Induction
<1> QED
  BY <1>2, <1>5

(* The blocks that expire before a tick are those at the head. *)
LEMMA DueBeforeFacts ==
  ASSUME NEW s \in Seq(Delays), NEW c \in Int
  PROVE  /\ DueBefore(s, c) \in 0 .. Len(s)
         /\ \A i \in 1 .. Len(s) : i <= DueBefore(s, c) <=> DueAt(s, i) < c
<1> DEFINE I == {i \in 1 .. Len(s) : DueAt(s, i) < c}
           J == {j \in 1 .. Len(s) + 1 : j \notin I}
<1>1. Len(s) \in Nat /\ DOMAIN s = 1 .. Len(s)
  OBVIOUS
<1>2. PICK j \in J : \A i \in J : ~(<<i, j>> \in OpToRel(<, Nat))
  <2>1. J \subseteq Nat /\ Len(s) + 1 \in J
    BY <1>1
  <2>2. J # {}
    BY <2>1
  <2> QED
    BY <2>1, <2>2, NatLessThanWellFounded, WFMin, Zenon
<1>3. j \in 1 .. Len(s) + 1 /\ j \notin I
  OBVIOUS
<1>4. ASSUME NEW i \in 1 .. j - 1
      PROVE  i \in I
  <2>1. i \in Nat /\ j \in Nat /\ i < j /\ i \in 1 .. Len(s) + 1
    BY <1>3, <1>1
  <2>2. <<i, j>> \in OpToRel(<, Nat)
    BY <2>1, Zenon DEF OpToRel
  <2> QED
    BY <1>2, <2>1, <2>2
<1>5. ASSUME NEW i \in I
      PROVE  i \in 1 .. j - 1
  <2> SUFFICES ASSUME j <= i
               PROVE  FALSE
    BY <1>1, <1>3
  <2>1. j \in 1 .. Len(s) /\ i \in 0 .. Len(s) /\ j \in 0 .. Len(s)
    BY <1>1, <1>3
  <2>2. DueAt(s, j) <= DueAt(s, i) /\ DueAt(s, i) \in Nat /\ DueAt(s, j) \in Nat
    BY <2>1, DueAtType
  <2>3. DueAt(s, j) < c
    BY <2>2
  <2> QED
    BY <2>1, <2>3, <1>3
<1>6. I = 1 .. j - 1
  BY <1>4, <1>5
<1>7. DueBefore(s, c) = j - 1
  <2>1. DueBefore(s, c) = Cardinality(I)
    BY <1>1 DEF DueBefore
  <2>2. 1 \in Int /\ j - 1 \in Int /\ j \in Nat \ {0}
    BY <1>1, <1>3
  <2>3. Cardinality(1 .. j - 1)
          = IF 1 > j - 1 THEN 0 ELSE (j - 1) - 1 + 1
    BY <2>2, FS_Interval, Zenon
  <2>4. (IF 1 > j - 1 THEN 0 ELSE (j - 1) - 1 + 1) = j - 1
    BY <2>2
  <2> QED
    BY <2>1, <2>3, <2>4, <1>6, Zenon
<1>8. ASSUME NEW i \in 1 .. Len(s)
      PROVE  i <= j - 1 <=> DueAt(s, i) < c
  <2>1. i \in I <=> i \in 1 .. j - 1
    BY <1>6
  <2> QED
    BY <2>1, <1>1, <1>3
<1> QED
  BY <1>7, <1>8, <1>1, <1>3

(* Lists with the same delays from some block on keep their distance. *)
SameFrom(s, t, a, b, m) == \A j \in 1 .. m : t[a + j].parm = s[b + j].parm

Apart(s, t, a, b, d, m) ==
  \A j \in 0 .. m : DueAt(t, a + j) = DueAt(s, b + j) + d

LEMMA DueAtShift ==
  ASSUME NEW s \in Seq(Delays), NEW t, NEW a \in Nat, NEW b \in Nat,
         NEW d \in Int, NEW m \in Nat, b + m <= Len(s),
         DueAt(t, a) = DueAt(s, b) + d, SameFrom(s, t, a, b, m)
  PROVE  Apart(s, t, a, b, d, m)
<1>1. \A i \in 1 .. Len(s) : s[i].parm \in Nat
  <2>1. \A i \in 1 .. Len(s) : s[i] \in Delays
    BY ElementOfSeq
  <2> QED
    BY <2>1 DEF Delays
<1> DEFINE G == {j \in Nat : j <= m => DueAt(t, a + j) = DueAt(s, b + j) + d}
<1>2. 0 \in G
  <2>1. a + 0 = a /\ b + 0 = b
    OBVIOUS
  <2> QED
    BY <2>1
<1>3. ASSUME NEW j \in Nat, j \in G
      PROVE  j + 1 \in G
  <2> SUFFICES ASSUME j + 1 <= m
               PROVE  DueAt(t, a + (j + 1)) = DueAt(s, b + (j + 1)) + d
    OBVIOUS
  <2> DEFINE x == DueAt(s, b + j)
             p == s[(b + j) + 1].parm
  <2>1. /\ a + (j + 1) = (a + j) + 1 /\ a + j \in Nat
        /\ b + (j + 1) = (b + j) + 1 /\ b + j \in Nat
        /\ j + 1 \in 1 .. m
        /\ b + j \in 0 .. Len(s) /\ (b + j) + 1 \in 1 .. Len(s)
    BY LenProperties
  <2>2. DueAt(t, a + j) = x + d
    BY <1>3
  <2>3. DueAt(t, (a + j) + 1) = DueAt(t, a + j) + t[(a + j) + 1].parm
    BY <2>1, DueAtStep
  <2>4. DueAt(s, (b + j) + 1) = x + p
    BY <2>1, DueAtStep
  <2>5. t[(a + j) + 1].parm = p
    <3>1. t[a + (j + 1)].parm = s[b + (j + 1)].parm
      BY <2>1 DEF SameFrom
    <3> QED
      BY <2>1, <3>1
  <2>6. x \in Nat /\ p \in Nat
    BY <2>1, <1>1, DueAtType
  <2> HIDE DEF x, p
  <2>7. (x + d) + p = (x + p) + d
    BY <2>6
  <2> QED
    BY <2>1, <2>2, <2>3, <2>4, <2>5, <2>7
<1>4. \A j \in Nat : j \in G
  <2> HIDE DEF G
  <2> QED
    BY <1>2, <1>3, Induction
<1> QED
  BY <1>4 DEF Apart

(* Putting a block in moves no expiry. *)
LEMMA InsertFacts ==
  ASSUME NEW s \in Seq(Delays), NEW e \in Evbs, NEW c \in Nat \ {0}
  PROVE  LET k == DueBefore(s, c)
             t == Insert(s, e, c)
         IN  /\ k \in 0 .. Len(s)
             /\ t \in Seq(Delays)
             /\ Len(t) = Len(s) + 1
             /\ t[1].parm = IF k = 0 THEN c ELSE s[1].parm
             /\ \A i \in 1 .. k : /\ t[i].ev = s[i].ev
                                  /\ DueAt(t, i) = DueAt(s, i)
             /\ t[k + 1].ev = e /\ DueAt(t, k + 1) = c
             /\ \A i \in k + 1 .. Len(s) : /\ t[i + 1].ev = s[i].ev
                                           /\ DueAt(t, i + 1) = DueAt(s, i)
<1> DEFINE k == DueBefore(s, c)
           t == Insert(s, e, c)
           n == Len(s)
           part == c - DueAt(s, k)
<1>1. k \in 0 .. n /\ \A i \in 1 .. n : i <= k <=> DueAt(s, i) < c
  BY DueBeforeFacts
<1>2. n \in Nat
  OBVIOUS
<1>3. \A i \in 0 .. n : DueAt(s, i) \in Nat
  BY DueAtType
<1>4. \A i \in 1 .. n : s[i] \in [ev : Evbs, parm : Nat]
  BY ElementOfSeq DEF Delays
<1>5. part \in Nat \ {0}
  <2>1. CASE k = 0
    BY <2>1, DueAtStep, SMTT(30)
  <2>2. CASE k # 0
    <3>1. k \in 1 .. n /\ DueAt(s, k) < c
      BY <1>1, <1>2, <2>2
    <3> QED
      BY <3>1, <1>3
  <2> QED
    BY <2>1, <2>2
<1>6. ASSUME k + 1 <= n
      PROVE  /\ s[k + 1].parm - part \in Nat
             /\ s[k + 1].parm \in Nat
             /\ DueAt(s, k + 1) = DueAt(s, k) + s[k + 1].parm
  <2>1. k + 1 \in 1 .. n /\ k + 1 \in 0 .. n /\ k \in 0 .. n
    BY <1>1, <1>2, <1>6
  <2>2. ~(DueAt(s, k + 1) < c)
    BY <1>1, <2>1
  <2>3. DueAt(s, k + 1) = DueAt(s, k) + s[k + 1].parm
    <3>1. k \in Nat
      BY <2>1
    <3> HIDE DEF k
    <3> QED
      BY <3>1, DueAtStep, Zenon
  <2>4. s[k + 1].parm \in Nat /\ DueAt(s, k) \in Nat
    BY <1>3, <1>4, <2>1
  <2> QED
    BY <2>2, <2>3, <2>4
<1>7. t = [i \in 1 .. n + 1 |->
             IF i <= k THEN s[i]
             ELSE IF i = k + 1 THEN [ev |-> e, parm |-> part]
             ELSE IF i = k + 2 THEN [s[k + 1] EXCEPT !.parm = @ - part]
             ELSE s[i - 1]]
  BY Zenon DEF Insert
<1> HIDE DEF k, t, n, part
<1>8. ASSUME NEW i \in 1 .. n + 1
      PROVE  t[i] \in Delays
  <2>1. CASE i <= k
    <3>1. t[i] = s[i] /\ i \in 1 .. n
      BY <1>7, <2>1, <1>1, <1>2
    <3> QED
      BY <3>1, <1>4 DEF Delays
  <2>2. CASE i = k + 1
    <3>1. t[i] = [ev |-> e, parm |-> part]
      BY <1>7, <2>2, <1>1, <1>2
    <3> QED
      BY <3>1, <1>5 DEF Delays
  <2>3. CASE i = k + 2
    <3>1. t[i] = [s[k + 1] EXCEPT !.parm = @ - part] /\ k + 1 \in 1 .. n
      BY <1>7, <2>3, <1>1, <1>2
    <3> QED
      BY <3>1, <1>4, <1>6 DEF Delays
  <2>4. CASE i > k + 2
    <3>1. t[i] = s[i - 1] /\ i - 1 \in 1 .. n
      BY <1>7, <2>4, <1>1, <1>2
    <3> QED
      BY <3>1, <1>4 DEF Delays
  <2> QED
    BY <2>1, <2>2, <2>3, <2>4, <1>1, <1>2
<1>9. t \in Seq(Delays) /\ Len(t) = n + 1
  <2>1. t \in [1 .. n + 1 -> Delays]
    BY <1>7, <1>8
  <2> HIDE DEF Delays
  <2> QED
    BY <1>2, <2>1
<1>10. \A i \in 1 .. k : t[i] = s[i]
  BY <1>1, <1>2, <1>7
<1>11. t[k + 1] = [ev |-> e, parm |-> part]
  BY <1>1, <1>2, <1>7
<1>12. k + 1 <= n => t[k + 2] = [s[k + 1] EXCEPT !.parm = @ - part]
  BY <1>1, <1>2, <1>7
<1>13. \A i \in k + 2 .. n : t[i + 1] = s[i]
  BY <1>1, <1>2, <1>7
<1>14. \A i \in 0 .. k : DueAt(t, i) = DueAt(s, i)
  BY <1>1, <1>10, DueAtSame
<1>15. DueAt(t, k + 1) = c
  <2>1. k \in Nat /\ k \in 0 .. k
    BY <1>1
  <2>2. DueAt(t, k + 1) = DueAt(t, k) + t[k + 1].parm
    BY <2>1, DueAtStep, Zenon
  <2>3. DueAt(t, k) = DueAt(s, k) /\ t[k + 1].parm = part
    BY <2>1, <1>11, <1>14
  <2> QED
    BY <2>2, <2>3, <1>1, <1>3 DEF part
<1>16. ASSUME k + 1 <= n
       PROVE  \A j \in 0 .. n - (k + 1) :
                DueAt(t, (k + 2) + j) = DueAt(s, (k + 1) + j) + 0
  <2>1. DueAt(t, k + 2) = DueAt(t, k + 1) + t[k + 2].parm
    <3>1. k + 1 \in Nat /\ (k + 1) + 1 = k + 2
      BY <1>1
    <3> QED
      BY <3>1, DueAtStep
  <2>2. k + 1 \in 1 .. n /\ DueAt(s, k) \in Nat
    BY <1>1, <1>2, <1>3, <1>16
  <2>3. t[k + 2].parm = s[k + 1].parm - part
    BY <1>12, <1>16, <1>4, <2>2
  <2>4. DueAt(t, k + 2) = DueAt(s, k + 1) + 0
    BY <2>1, <2>2, <2>3, <1>15, <1>6, <1>16 DEF part
  <2>5. \A j \in 1 .. n - (k + 1) : t[(k + 2) + j].parm = s[(k + 1) + j].parm
    <3> TAKE j \in 1 .. n - (k + 1)
    <3>1. (k + 1) + j \in k + 2 .. n /\ ((k + 1) + j) + 1 = (k + 2) + j
      BY <1>1, <1>2
    <3> QED
      BY <3>1, <1>13
  <2>6. /\ k + 2 \in Nat /\ k + 1 \in Nat /\ 0 \in Int /\ n - (k + 1) \in Nat
        /\ (k + 1) + (n - (k + 1)) <= Len(s)
    BY <1>1, <1>2, <1>16 DEF n
  <2> DEFINE a == k + 2
             b == k + 1
             m == n - (k + 1)
             d == 0
  <2>7. /\ a \in Nat /\ b \in Nat /\ m \in Nat /\ b + m <= Len(s)
        /\ d \in Int /\ DueAt(t, a) = DueAt(s, b) + d
        /\ SameFrom(s, t, a, b, m)
    BY <2>4, <2>5, <2>6 DEF SameFrom
  <2> HIDE DEF a, b, m, d
  <2>8. Apart(s, t, a, b, d, m)
    BY <2>7, DueAtShift, Zenon
  <2> QED
    BY <2>8 DEF a, b, m, d, Apart
<1>17. ASSUME NEW i \in k + 1 .. n
       PROVE  t[i + 1].ev = s[i].ev /\ DueAt(t, i + 1) = DueAt(s, i)
  <2>1. k + 1 <= n /\ i \in 1 .. n
    BY <1>1, <1>2
  <2>2. DueAt(t, i + 1) = DueAt(s, i)
    <3> DEFINE j == i - (k + 1)
    <3>1. j \in 0 .. n - (k + 1) /\ (k + 2) + j = i + 1 /\ (k + 1) + j = i
      BY <1>1, <1>2
    <3>2. DueAt(t, (k + 2) + j) = DueAt(s, (k + 1) + j) + 0
      BY <3>1, <2>1, <1>16
    <3>3. DueAt(s, i) \in Nat
      BY <2>1, <1>3
    <3> QED
      BY <3>1, <3>2, <3>3
  <2>3. CASE i = k + 1
    <3>1. i + 1 = k + 2
      BY <1>1, <2>3
    <3> QED
      BY <3>1, <2>1, <2>2, <2>3, <1>12, <1>4
  <2>4. CASE i # k + 1
    <3>1. i \in k + 2 .. n
      BY <1>1, <1>2, <2>4
    <3> QED
      BY <3>1, <1>13, <2>2
  <2> QED
    BY <2>3, <2>4
<1>18. t[1].parm = IF k = 0 THEN c ELSE s[1].parm
  <2>1. CASE k = 0
    <3>1. part = c
      BY <2>1, DueAtStep DEF part
    <3> QED
      BY <3>1, <1>11, <2>1
  <2>2. CASE k # 0
    BY <1>1, <1>10, <2>2
  <2> QED
    BY <2>1, <2>2
<1>19. t[k + 1].ev = e
  BY <1>11
<1> QED
  BY <1>1, <1>9, <1>10, <1>14, <1>15, <1>17, <1>18, <1>19 DEF k, t, n

(* Taking a block out moves no other expiry. *)
LEMMA UnlinkFacts ==
  ASSUME NEW s \in Seq(Delays), NEW j \in 1 .. Len(s)
  PROVE  LET t == Unlink(s, j)
         IN  /\ t \in Seq(Delays)
             /\ Len(t) = Len(s) - 1
             /\ Len(t) > 0 => t[1].parm >= s[1].parm
             /\ \A i \in 1 .. j - 1 : /\ t[i].ev = s[i].ev
                                      /\ DueAt(t, i) = DueAt(s, i)
             /\ \A i \in j .. Len(s) - 1 :
                  /\ t[i].ev = s[i + 1].ev
                  /\ DueAt(t, i) = DueAt(s, i + 1)
<1> DEFINE t == Unlink(s, j)
           n == Len(s)
<1>1. n \in Nat /\ j \in Nat \ {0} /\ j <= n
  BY LenProperties
<1>2. \A i \in 0 .. n : DueAt(s, i) \in Nat
  BY DueAtType
<1>3. \A i \in 1 .. n : s[i] \in [ev : Evbs, parm : Nat]
  BY ElementOfSeq DEF Delays
<1>4. t = [k \in 1 .. n - 1 |->
             IF k < j THEN s[k]
             ELSE IF k = j THEN [s[k + 1] EXCEPT !.parm = @ + s[j].parm]
             ELSE s[k + 1]]
  BY Zenon DEF Unlink
<1> HIDE DEF t, n
<1>5. \A i \in 1 .. j - 1 : t[i] = s[i]
  BY <1>1, <1>4
<1>6. j <= n - 1 => t[j] = [s[j + 1] EXCEPT !.parm = @ + s[j].parm]
  BY <1>1, <1>4
<1>7. \A i \in j + 1 .. n - 1 : t[i] = s[i + 1]
  BY <1>1, <1>4
<1>8. ASSUME NEW i \in 1 .. n - 1
      PROVE  t[i] \in Delays
  <2>1. i \in 1 .. n /\ i + 1 \in 1 .. n /\ j \in 1 .. n
    BY <1>1
  <2>2. CASE i < j
    <3>1. i \in 1 .. j - 1
      BY <2>2, <1>1
    <3> QED
      BY <3>1, <2>1, <1>3, <1>5 DEF Delays
  <2>3. CASE i = j
    <3>1. j <= n - 1 /\ j + 1 \in 1 .. n
      BY <2>3, <1>1
    <3> QED
      BY <3>1, <2>1, <2>3, <1>3, <1>6 DEF Delays
  <2>4. CASE i > j
    <3>1. i \in j + 1 .. n - 1
      BY <2>4, <1>1
    <3> QED
      BY <3>1, <2>1, <1>3, <1>7 DEF Delays
  <2> QED
    BY <2>2, <2>3, <2>4, <1>1
<1>9. t \in Seq(Delays) /\ Len(t) = n - 1
  <2>1. t \in [1 .. n - 1 -> Delays] /\ n - 1 \in Nat
    BY <1>1, <1>4, <1>8
  <2> QED
    BY <2>1
<1>10. \A i \in 0 .. j - 1 : DueAt(t, i) = DueAt(s, i)
  <2>1. j - 1 \in Nat
    BY <1>1
  <2> QED
    BY <2>1, <1>5, DueAtSame
<1>11. ASSUME j <= n - 1
       PROVE  \A i \in j .. n - 1 : DueAt(t, i) = DueAt(s, i + 1)
  <2> DEFINE a == j
             b == j + 1
             m == n - 1 - j
             d == 0
  <2>1. /\ j - 1 \in Nat /\ (j - 1) + 1 = j /\ j \in Nat
        /\ j - 1 \in 0 .. j - 1 /\ j - 1 \in 0 .. n
        /\ j \in 1 .. n /\ j + 1 \in 1 .. n
    BY <1>1, <1>11
  <2>2. DueAt(t, j) = DueAt(t, j - 1) + t[j].parm
    BY <2>1, DueAtStep
  <2>3. /\ DueAt(s, j) = DueAt(s, j - 1) + s[j].parm
        /\ DueAt(s, j + 1) = DueAt(s, j) + s[j + 1].parm
    BY <2>1, DueAtStep
  <2>4. t[j].parm = s[j + 1].parm + s[j].parm
    BY <1>3, <1>6, <1>11, <2>1
  <2>5. s[j].parm \in Nat /\ s[j + 1].parm \in Nat /\ DueAt(s, j - 1) \in Nat
    BY <1>2, <1>3, <2>1
  <2>6. DueAt(t, j - 1) = DueAt(s, j - 1)
    BY <1>10, <2>1
  <2>7. DueAt(t, a) = DueAt(s, b) + d
    BY <2>2, <2>3, <2>4, <2>5, <2>6
  <2>8. SameFrom(s, t, a, b, m)
    <3> SUFFICES ASSUME NEW i \in 1 .. m
                 PROVE  t[a + i].parm = s[b + i].parm
      BY DEF SameFrom
    <3>1. a + i \in j + 1 .. n - 1 /\ (a + i) + 1 = b + i
      BY <1>1
    <3> QED
      BY <3>1, <1>7
  <2>9. /\ a \in Nat /\ b \in Nat /\ m \in Nat /\ d \in Int /\ b + m <= Len(s)
    BY <1>1, <1>11 DEF n
  <2> HIDE DEF a, b, m, d
  <2>10. Apart(s, t, a, b, d, m)
    BY <2>7, <2>8, <2>9, DueAtShift, Zenon
  <2> SUFFICES ASSUME NEW i \in j .. n - 1
               PROVE  DueAt(t, i) = DueAt(s, i + 1)
    OBVIOUS
  <2>11. /\ i - j \in 0 .. n - 1 - j /\ j + (i - j) = i
         /\ (j + 1) + (i - j) = i + 1 /\ i + 1 \in 0 .. n
    BY <1>1
  <2>12. DueAt(t, j + (i - j)) = DueAt(s, (j + 1) + (i - j)) + 0
    BY <2>10, <2>11 DEF Apart, a, b, m, d
  <2>13. DueAt(s, i + 1) \in Nat
    BY <2>11, <1>2
  <2> QED
    BY <2>11, <2>12, <2>13
<1>12. ASSUME NEW i \in j .. n - 1
       PROVE  t[i].ev = s[i + 1].ev
  <2>1. i + 1 \in 1 .. n /\ j <= n - 1
    BY <1>1
  <2>2. CASE i = j
    BY <2>1, <2>2, <1>3, <1>6
  <2>3. CASE i # j
    <3>1. i \in j + 1 .. n - 1
      BY <2>3, <1>1
    <3> QED
      BY <3>1, <1>7
  <2> QED
    BY <2>2, <2>3
<1>13. ASSUME Len(t) > 0
       PROVE  t[1].parm >= s[1].parm
  <2>1. n - 1 >= 1 /\ 1 \in 1 .. n /\ 2 \in 1 .. n
    BY <1>1, <1>9, <1>13
  <2>2. s[1].parm \in Nat /\ s[2].parm \in Nat
    BY <2>1, <1>3
  <2>3. CASE j = 1
    <3>1. t[1] = [s[2] EXCEPT !.parm = @ + s[1].parm]
      BY <2>1, <2>3, <1>6
    <3>2. t[1].parm = s[2].parm + s[1].parm
      BY <3>1, <2>1, <1>3
    <3> QED
      BY <3>2, <2>2
  <2>4. CASE j # 1
    <3>1. 1 \in 1 .. j - 1
      BY <2>4, <1>1
    <3> QED
      BY <3>1, <1>5, <2>2
  <2> QED
    BY <2>3, <2>4
<1>14. \A i \in j .. n - 1 : j <= n - 1
  BY <1>1
<1> QED
  BY <1>5, <1>9, <1>10, <1>11, <1>12, <1>13, <1>14 DEF t, n

(* What tchange() leaves of the list when c ticks have gone by. *)
Aged(s, c) ==
  LET n == DueBefore(s, c + 1) IN
  [i \in 1 .. Len(s) - n |->
     IF i = 1 THEN [s[n + 1] EXCEPT !.parm = DueAt(s, n + 1) - c] ELSE s[n + i]]

(* It takes those ticks off every expiry. *)
LEMMA AgedFacts ==
  ASSUME NEW s \in Seq(Delays), NEW c \in Nat
  PROVE  LET n == DueBefore(s, c + 1)
             t == Aged(s, c)
         IN  /\ n \in 0 .. Len(s)
             /\ t \in Seq(Delays)
             /\ Len(t) = Len(s) - n
             /\ Len(t) > 0 => t[1].parm > 0
             /\ \A i \in 1 .. n : DueAt(s, i) <= c
             /\ \A i \in 1 .. Len(s) - n :
                  /\ t[i].ev = s[n + i].ev
                  /\ DueAt(s, n + i) > c
                  /\ DueAt(t, i) = DueAt(s, n + i) - c
<1> DEFINE n == DueBefore(s, c + 1)
           t == Aged(s, c)
           l == Len(s)
<1>1. /\ n \in 0 .. l
      /\ \A i \in 1 .. l : i <= n <=> DueAt(s, i) < c + 1
  <2>1. c + 1 \in Int
    OBVIOUS
  <2> QED
    BY <2>1, DueBeforeFacts
<1>2. l \in Nat
  OBVIOUS
<1>3. \A i \in 0 .. l : DueAt(s, i) \in Nat
  BY DueAtType
<1>4. \A i \in 1 .. l : s[i] \in [ev : Evbs, parm : Nat]
  BY ElementOfSeq DEF Delays
<1>5. t = [i \in 1 .. l - n |->
             IF i = 1 THEN [s[n + 1] EXCEPT !.parm = DueAt(s, n + 1) - c]
             ELSE s[n + i]]
  BY Zenon DEF Aged
<1> HIDE DEF t, n, l
<1>6. \A i \in 1 .. n : DueAt(s, i) <= c
  <2> TAKE i \in 1 .. n
  <2>1. i \in 1 .. l /\ i \in 0 .. l /\ i <= n
    BY <1>1, <1>2
  <2> QED
    BY <2>1, <1>1, <1>3
<1>7. ASSUME NEW i \in 1 .. l - n
      PROVE  n + i \in 1 .. l /\ n + i \in 0 .. l /\ DueAt(s, n + i) > c
  <2>1. n + i \in 1 .. l /\ n + i \in 0 .. l /\ ~(n + i <= n)
    BY <1>1, <1>2
  <2> QED
    BY <2>1, <1>1, <1>3
<1>8. ASSUME NEW i \in 1 .. l - n
      PROVE  t[i] \in Delays /\ t[i].ev = s[n + i].ev
  <2>1. CASE i = 1
    <3>1. t[i] = [s[n + 1] EXCEPT !.parm = DueAt(s, n + 1) - c]
      BY <2>1, <1>5
    <3>2. DueAt(s, n + 1) - c \in Nat
      BY <1>7, <1>3, <2>1
    <3> QED
      BY <3>1, <3>2, <1>7, <1>4, <2>1 DEF Delays
  <2>2. CASE i # 1
    <3>1. t[i] = s[n + i]
      BY <2>2, <1>5
    <3> QED
      BY <3>1, <1>7, <1>4 DEF Delays
  <2> QED
    BY <2>1, <2>2
<1>9. t \in Seq(Delays) /\ Len(t) = l - n
  <2>1. t \in [1 .. l - n -> Delays]
    BY <1>5, <1>8
  <2>2. l - n \in Nat
    BY <1>1, <1>2
  <2> QED
    BY <2>1, <2>2
<1>10. ASSUME l - n >= 1
       PROVE  t[1].parm = DueAt(s, n + 1) - c /\ t[1].parm > 0
  <2>1. 1 \in 1 .. l - n
    BY <1>1, <1>2, <1>10
  <2>2. t[1] = [s[n + 1] EXCEPT !.parm = DueAt(s, n + 1) - c]
    BY <2>1, <1>5
  <2>3. t[1].parm = DueAt(s, n + 1) - c
    BY <2>1, <2>2, <1>7, <1>4
  <2> QED
    BY <2>1, <2>3, <1>7, <1>3
<1>11. ASSUME l - n >= 1
       PROVE  \A i \in 1 .. l - n : DueAt(t, i) = DueAt(s, n + i) - c
  <2> DEFINE a == 1
             b == n + 1
             m == l - n - 1
             d == 0 - c
  <2>1. DueAt(t, 1) = DueAt(t, 0) + t[1].parm /\ DueAt(t, 0) = 0
    <3>1. DueAt(t, 0 + 1) = DueAt(t, 0) + t[0 + 1].parm
      BY DueAtStep
    <3> QED
      BY <3>1, DueAtStep
  <2>2. 1 \in 1 .. l - n
    BY <1>1, <1>2, <1>11
  <2>3. DueAt(s, n + 1) \in Nat
    BY <2>2, <1>3, <1>7
  <2>4. DueAt(t, a) = DueAt(s, b) + d
    BY <2>1, <2>3, <1>10, <1>11
  <2>5. SameFrom(s, t, a, b, m)
    <3> SUFFICES ASSUME NEW i \in 1 .. m
                 PROVE  t[a + i].parm = s[b + i].parm
      BY DEF SameFrom
    <3>1. a + i \in 1 .. l - n /\ a + i # 1 /\ n + (a + i) = b + i
      BY <1>1, <1>2
    <3> QED
      BY <3>1, <1>5
  <2>6. a \in Nat /\ b \in Nat /\ m \in Nat /\ d \in Int /\ b + m <= Len(s)
    BY <1>1, <1>2, <1>11 DEF l
  <2> HIDE DEF a, b, m, d
  <2>7. Apart(s, t, a, b, d, m)
    BY <2>4, <2>5, <2>6, DueAtShift, Zenon
  <2> SUFFICES ASSUME NEW i \in 1 .. l - n
               PROVE  DueAt(t, i) = DueAt(s, n + i) - c
    OBVIOUS
  <2>8. i - 1 \in 0 .. l - n - 1 /\ 1 + (i - 1) = i /\ (n + 1) + (i - 1) = n + i
    BY <1>1, <1>2
  <2>9. DueAt(t, 1 + (i - 1)) = DueAt(s, (n + 1) + (i - 1)) + (0 - c)
    BY <2>7, <2>8 DEF Apart, a, b, m, d
  <2>10. DueAt(s, n + i) \in Nat
    BY <1>7, <1>3
  <2> QED
    BY <2>8, <2>9, <2>10
<1>12. Len(t) > 0 => l - n >= 1
  BY <1>1, <1>2, <1>9
<1>13. \A i \in 1 .. l - n : l - n >= 1
  BY <1>1, <1>2
<1> QED
  BY <1>1, <1>6, <1>7, <1>8, <1>9, <1>10, <1>11, <1>12, <1>13 DEF t, n, l

(***************************************************************************)
(* The inductive invariant.                                                *)
(***************************************************************************)

(* The list holds each block once, none that has completed, in the order   *)
(* of expiry, and its head has time left.                                  *)
ListInv ==
  /\ dlr \in Seq(Delays)
  /\ \A i, j \in DOMAIN dlr : dlr[i].ev = dlr[j].ev => i = j
  /\ Listed \cap rang = {}
  /\ dlr # <<>> => dlr[1].parm > 0
  /\ rang \subseteq Evbs
  /\ due \in [Evbs -> 0 .. MaxDelay]
  /\ arming => dlr # <<>>
  /\ ListExact

(* The ticks counted and those to come are bounded together: the sum grows *)
(* only while the fork ring is full.                                       *)
ClockInv ==
  /\ CMP_TICK \in 0 .. MaxDelay
  /\ NUM_TICK \in 0 .. MaxTicks
  /\ CMP_TICK # 0 => NUM_TICK + CMP_TICK <= MaxTicks
  /\ ring \in Seq(Fork) /\ Len(ring) <= NFORKS
  /\ arming \in BOOLEAN
  /\ left \in [Evbs -> 0 .. MaxDelay]
  /\ WakeUpArmed

LEMMA HeadDue ==
  ASSUME NEW s \in Seq(Delays), s # <<>>
  PROVE  DueAt(s, 1) = s[1].parm /\ s[1].parm \in Nat /\ 1 \in DOMAIN s
<1>1. 1 \in 1 .. Len(s)
  BY EmptySeq, LenProperties
<1>2. s[1] \in Delays
  BY <1>1, ElementOfSeq
<1>3. DueAt(s, 0 + 1) = DueAt(s, 0) + s[0 + 1].parm /\ DueAt(s, 0) = 0
  BY DueAtStep
<1> QED
  BY <1>1, <1>2, <1>3 DEF Delays

LEMMA adelayList ==
  ASSUME ListInv, NEW e \in Evbs, NEW ticks \in 0 .. MaxDelay, adelay(e, ticks)
  PROVE  ListInv'
<1> DEFINE c == IF ticks = 0 THEN 1 ELSE ticks
           k == DueBefore(dlr, c)
           n == Len(dlr)
           old(i) == IF i <= k THEN i ELSE i - 1
<1>1. c \in Nat \ {0} /\ c \in 0 .. MaxDelay
  BY TimerAssumption
<1>2. /\ dlr \in Seq(Delays) /\ n \in Nat /\ DOMAIN dlr = 1 .. n
      /\ rang \subseteq Evbs /\ due \in [Evbs -> 0 .. MaxDelay]
  BY LenProperties DEF ListInv
<1>3. /\ e \notin Listed /\ e \notin rang /\ ~arming /\ arming' = arming
      /\ dlr' = Insert(dlr, e, c) /\ rang' = rang
      /\ due' = [due EXCEPT ![e] = c]
  BY DEF adelay
<1> HIDE DEF c
<1>4. /\ k \in 0 .. n
      /\ dlr' \in Seq(Delays)
      /\ Len(dlr') = n + 1
      /\ dlr'[1].parm = IF k = 0 THEN c ELSE dlr[1].parm
      /\ \A i \in 1 .. k : /\ dlr'[i].ev = dlr[i].ev
                           /\ DueAt(dlr', i) = DueAt(dlr, i)
      /\ dlr'[k + 1].ev = e /\ DueAt(dlr', k + 1) = c
      /\ \A i \in k + 1 .. n : /\ dlr'[i + 1].ev = dlr[i].ev
                               /\ DueAt(dlr', i + 1) = DueAt(dlr, i)
  <2> DEFINE t == Insert(dlr, e, c)
  <2>1. /\ k \in 0 .. n
        /\ t \in Seq(Delays)
        /\ Len(t) = n + 1
        /\ t[1].parm = IF k = 0 THEN c ELSE dlr[1].parm
        /\ \A i \in 1 .. k : /\ t[i].ev = dlr[i].ev
                             /\ DueAt(t, i) = DueAt(dlr, i)
        /\ t[k + 1].ev = e /\ DueAt(t, k + 1) = c
        /\ \A i \in k + 1 .. n : /\ t[i + 1].ev = dlr[i].ev
                                 /\ DueAt(t, i + 1) = DueAt(dlr, i)
    <3>1. c \in Nat \ {0} /\ dlr \in Seq(Delays)
      BY <1>1, <1>2
    <3> QED
      BY <3>1, InsertFacts, Zenon
  <2> HIDE DEF t, k, n
  <2>2. dlr' = t
    BY <1>3 DEF t
  <2> QED
    BY <2>1, <2>2, Zenon
<1> HIDE DEF k, n
<1>5. DOMAIN dlr' = 1 .. n + 1
  BY <1>4, LenProperties
<1>6. ASSUME NEW i \in 1 .. n + 1, i # k + 1
      PROVE  /\ old(i) \in 1 .. n
             /\ dlr'[i].ev = dlr[old(i)].ev
             /\ DueAt(dlr', i) = DueAt(dlr, old(i))
  <2>1. CASE i <= k
    <3>1. i \in 1 .. k /\ i \in 1 .. n
      BY <2>1, <1>2, <1>4
    <3> QED
      BY <3>1, <2>1, <1>4
  <2>2. CASE i > k
    <3>1. i - 1 \in k + 1 .. n /\ i - 1 \in 1 .. n /\ (i - 1) + 1 = i /\ ~(i <= k)
      BY <2>2, <1>2, <1>4, <1>6
    <3> QED
      BY <3>1, <1>4
  <2> QED
    BY <2>1, <2>2, <1>2, <1>4
<1>7. ASSUME NEW i \in 1 .. n
      PROVE  /\ dlr[i].ev \in Evbs /\ dlr[i].ev # e /\ dlr[i].ev \notin rang
             /\ DueAt(dlr, i) = due[dlr[i].ev]
  <2>1. dlr[i] \in Delays
    BY <1>2, ElementOfSeq DEF n
  <2>2. dlr[i].ev \in Listed
    BY <1>2 DEF Listed
  <2> QED
    BY <2>1, <2>2, <1>2, <1>3 DEF Delays, ListInv, ListExact
<1> HIDE DEF old
<1>8. ASSUME NEW i \in DOMAIN dlr', NEW j \in DOMAIN dlr', dlr'[i].ev = dlr'[j].ev
      PROVE  i = j
  <2>1. i \in 1 .. n + 1 /\ j \in 1 .. n + 1
    BY <1>5
  <2>2. CASE i = k + 1 \/ j = k + 1
    BY <2>1, <2>2, <1>4, <1>6, <1>7, <1>8
  <2>3. CASE i # k + 1 /\ j # k + 1
    <3>1. /\ old(i) \in 1 .. n /\ old(j) \in 1 .. n
          /\ dlr[old(i)].ev = dlr[old(j)].ev
      BY <2>1, <2>3, <1>6, <1>8
    <3>2. old(i) = old(j)
      BY <3>1, <1>2 DEF ListInv
    <3> QED
      BY <3>2, <2>1, <2>3, <1>2, <1>4 DEF old
  <2> QED
    BY <2>2, <2>3
<1>9. Listed' \cap rang' = {}
  <2> SUFFICES ASSUME NEW i \in DOMAIN dlr'
               PROVE  dlr'[i].ev \notin rang
    BY <1>3 DEF Listed
  <2>1. i \in 1 .. n + 1
    BY <1>5
  <2> QED
    BY <2>1, <1>3, <1>4, <1>6, <1>7
<1>10. dlr'[1].parm > 0
  <2>1. CASE k = 0
    BY <2>1, <1>1, <1>4
  <2>2. CASE k # 0
    <3>1. dlr # <<>>
      BY <2>2, <1>2, <1>4 DEF n
    <3> QED
      BY <3>1, <2>2, <1>4 DEF ListInv
  <2> QED
    BY <2>1, <2>2
<1>11. due' \in [Evbs -> 0 .. MaxDelay]
  BY <1>1, <1>2, <1>3
<1>12. ListExact'
  <2> SUFFICES ASSUME NEW i \in DOMAIN dlr'
               PROVE  DueAt(dlr', i) = due'[dlr'[i].ev]
    BY DEF ListExact
  <2>1. i \in 1 .. n + 1
    BY <1>5
  <2>2. CASE i = k + 1
    BY <2>2, <1>2, <1>3, <1>4
  <2>3. CASE i # k + 1
    BY <2>1, <2>3, <1>2, <1>3, <1>6, <1>7
  <2> QED
    BY <2>2, <2>3
<1> QED
  BY <1>2, <1>3, <1>4, <1>8, <1>9, <1>10, <1>11, <1>12 DEF ListInv

LEMMA takeoffList ==
  ASSUME ListInv, NEW e \in Evbs, takeoff(e)
  PROVE  ListInv'
<1> DEFINE n == Len(dlr)
<1>1. /\ dlr \in Seq(Delays) /\ n \in Nat /\ DOMAIN dlr = 1 .. n
      /\ rang \subseteq Evbs /\ due \in [Evbs -> 0 .. MaxDelay]
  BY LenProperties DEF ListInv
<1>2. /\ ~arming /\ arming' = arming /\ rang' = rang
      /\ due' = [due EXCEPT ![e] = 0]
  BY DEF takeoff
<1>3. PICK j \in 1 .. n : dlr[j].ev = e /\ dlr' = Unlink(dlr, j)
  BY <1>1 DEF takeoff
<1>4. /\ dlr' \in Seq(Delays)
      /\ Len(dlr') = n - 1
      /\ Len(dlr') > 0 => dlr'[1].parm >= dlr[1].parm
      /\ \A i \in 1 .. j - 1 : /\ dlr'[i].ev = dlr[i].ev
                               /\ DueAt(dlr', i) = DueAt(dlr, i)
      /\ \A i \in j .. n - 1 : /\ dlr'[i].ev = dlr[i + 1].ev
                               /\ DueAt(dlr', i) = DueAt(dlr, i + 1)
  BY <1>1, <1>3, UnlinkFacts, Zenon
<1> DEFINE old(i) == IF i < j THEN i ELSE i + 1
<1> HIDE DEF n
<1>5. DOMAIN dlr' = 1 .. n - 1
  BY <1>4, LenProperties
<1>6. ASSUME NEW i \in 1 .. n - 1
      PROVE  /\ old(i) \in 1 .. n /\ old(i) # j
             /\ dlr'[i].ev = dlr[old(i)].ev
             /\ DueAt(dlr', i) = DueAt(dlr, old(i))
  <2>1. CASE i < j
    <3>1. i \in 1 .. j - 1 /\ i \in 1 .. n /\ i # j
      BY <2>1, <1>1
    <3> QED
      BY <3>1, <2>1, <1>4
  <2>2. CASE ~(i < j)
    <3>1. i \in j .. n - 1 /\ i + 1 \in 1 .. n /\ i + 1 # j
      BY <2>2, <1>1
    <3> QED
      BY <3>1, <2>2, <1>4
  <2> QED
    BY <2>1, <2>2
<1>7. ASSUME NEW i \in 1 .. n
      PROVE  /\ dlr[i].ev \in Evbs /\ dlr[i].ev \notin rang
             /\ i # j => dlr[i].ev # e
             /\ DueAt(dlr, i) = due[dlr[i].ev]
  <2>1. dlr[i] \in Delays
    BY <1>1, ElementOfSeq DEF n
  <2>2. dlr[i].ev \in Listed
    BY <1>1 DEF Listed
  <2> QED
    BY <2>1, <2>2, <1>1, <1>3 DEF Delays, ListInv, ListExact
<1> HIDE DEF old
<1>8. ASSUME NEW i \in DOMAIN dlr', NEW i2 \in DOMAIN dlr',
             dlr'[i].ev = dlr'[i2].ev
      PROVE  i = i2
  <2>1. i \in 1 .. n - 1 /\ i2 \in 1 .. n - 1
    BY <1>5
  <2>2. /\ old(i) \in 1 .. n /\ old(i2) \in 1 .. n
        /\ dlr[old(i)].ev = dlr[old(i2)].ev
    BY <2>1, <1>6, <1>8
  <2>3. old(i) = old(i2)
    BY <2>2, <1>1 DEF ListInv
  <2> QED
    BY <2>3, <2>1, <1>1 DEF old
<1>9. Listed' \cap rang' = {}
  BY <1>2, <1>5, <1>6, <1>7 DEF Listed
<1>10. dlr' # <<>> => dlr'[1].parm > 0
  <2> SUFFICES ASSUME dlr' # <<>>
               PROVE  dlr'[1].parm > 0
    OBVIOUS
  <2>1. Len(dlr') > 0
    BY <1>4
  <2>2. dlr # <<>>
    BY <1>1, <1>3 DEF n
  <2>3. dlr[1].parm > 0 /\ dlr[1].parm \in Nat
    BY <2>2, <1>1, HeadDue DEF ListInv
  <2>4. dlr'[1].parm \in Nat
    BY <1>4, HeadDue
  <2> QED
    BY <2>1, <2>3, <2>4, <1>4
<1>11. due' \in [Evbs -> 0 .. MaxDelay]
  BY <1>1, <1>2, TimerAssumption
<1>12. ListExact'
  BY <1>1, <1>2, <1>5, <1>6, <1>7 DEF ListExact
<1> QED
  BY <1>1, <1>2, <1>4, <1>8, <1>9, <1>10, <1>11, <1>12 DEF ListInv

LEMMA apretList ==
  ASSUME ListInv, NEW e \in Evbs, apret(e)
  PROVE  ListInv'
<1>1. /\ dlr \in Seq(Delays) /\ rang \subseteq Evbs
      /\ due \in [Evbs -> 0 .. MaxDelay] /\ Listed \cap rang = {}
  BY DEF ListInv
<1>2. /\ ~arming /\ arming' = arming /\ e \in rang /\ rang' = rang \ {e}
      /\ due' = [due EXCEPT ![e] = 0] /\ dlr' = dlr
  BY DEF apret
<1>3. Listed' = Listed /\ e \notin Listed
  BY <1>1, <1>2 DEF Listed
<1>4. due' \in [Evbs -> 0 .. MaxDelay]
  BY <1>1, <1>2, TimerAssumption
<1>5. \A i \in DOMAIN dlr : dlr[i].ev # e
  BY <1>3 DEF Listed
<1>6. \A i \in DOMAIN dlr : dlr[i].ev \in Evbs
  <2> SUFFICES ASSUME NEW i \in DOMAIN dlr
               PROVE  dlr[i].ev \in Evbs
    OBVIOUS
  <2>1. i \in 1 .. Len(dlr)
    BY <1>1, LenProperties
  <2>2. dlr[i] \in Delays
    BY <2>1, <1>1, ElementOfSeq
  <2> QED
    BY <2>2 DEF Delays
<1>7. ListExact'
  BY <1>1, <1>2, <1>5, <1>6 DEF ListInv, ListExact
<1>8. Listed' \cap rang' = {}
  BY <1>1, <1>2, <1>3
<1> QED
  BY <1>1, <1>2, <1>4, <1>7, <1>8 DEF ListInv

LEMMA forkerList ==
  ASSUME ListInv, ring \in Seq(Fork), forker
  PROVE  ListInv'
<1>1. CASE Head(ring).code = "other"
  <2>1. UNCHANGED <<dlr, arming, rang, due>>
    BY <1>1 DEF forker
  <2> QED
    BY <2>1 DEF ListInv, Listed, ListExact
<1>2. CASE Head(ring).code # "other"
  <2> DEFINE c == Head(ring).data
             n == DueBefore(dlr, c + 1)
             l == Len(dlr)
  <2>1. c \in Nat
    <3>1. Head(ring) \in Fork
      BY HeadTailProperties DEF forker
    <3>2. MaxTicks \in Nat
      BY TimerAssumption DEF MaxTicks
    <3> QED
      BY <3>1, <3>2 DEF Fork
  <2>2. /\ rang' = rang \cup {dlr[i].ev : i \in 1 .. n}
        /\ arming' = (n < l)
        /\ dlr' = Aged(dlr, c)
        /\ due' = [x \in Evbs |->
                     IF x \in Listed THEN Less(due[x], c) ELSE due[x]]
    BY <1>2 DEF forker, Aged
  <2>3. /\ dlr \in Seq(Delays) /\ rang \subseteq Evbs
        /\ due \in [Evbs -> 0 .. MaxDelay] /\ Listed \cap rang = {}
        /\ l \in Nat /\ DOMAIN dlr = 1 .. l
        /\ \A i, j \in 1 .. l : dlr[i].ev = dlr[j].ev => i = j
    BY LenProperties DEF ListInv
  <2> HIDE DEF c
  <2>4. /\ n \in 0 .. l
        /\ dlr' \in Seq(Delays)
        /\ Len(dlr') = l - n
        /\ Len(dlr') > 0 => dlr'[1].parm > 0
        /\ \A i \in 1 .. l - n : /\ dlr'[i].ev = dlr[n + i].ev
                                 /\ DueAt(dlr, n + i) > c
                                 /\ DueAt(dlr', i) = DueAt(dlr, n + i) - c
    <3> DEFINE t == Aged(dlr, c)
    <3>1. /\ n \in 0 .. l
          /\ t \in Seq(Delays)
          /\ Len(t) = l - n
          /\ Len(t) > 0 => t[1].parm > 0
          /\ \A i \in 1 .. l - n : /\ t[i].ev = dlr[n + i].ev
                                   /\ DueAt(dlr, n + i) > c
                                   /\ DueAt(t, i) = DueAt(dlr, n + i) - c
      BY <2>1, <2>3, AgedFacts, Zenon
    <3> HIDE DEF t, n, l
    <3>2. dlr' = t
      BY <2>2 DEF t
    <3> QED
      BY <3>1, <3>2, Zenon
  <2> HIDE DEF n, l
  <2>5. DOMAIN dlr' = 1 .. l - n
    BY <2>4, LenProperties
  <2>6. ASSUME NEW i \in 1 .. l
        PROVE  /\ dlr[i].ev \in Evbs /\ dlr[i].ev \in Listed
               /\ DueAt(dlr, i) = due[dlr[i].ev]
    <3>1. dlr[i] \in Delays
      BY <2>3, ElementOfSeq DEF l
    <3> QED
      BY <3>1, <2>3 DEF Delays, ListInv, ListExact, Listed
  <2>7. ASSUME NEW i \in 1 .. l - n
        PROVE  /\ n + i \in 1 .. l /\ ~(n + i \in 1 .. n)
               /\ dlr'[i].ev = dlr[n + i].ev
               /\ dlr'[i].ev \notin rang'
               /\ DueAt(dlr', i) = due'[dlr'[i].ev]
    <3>1. n + i \in 1 .. l /\ ~(n + i \in 1 .. n)
      BY <2>3, <2>4
    <3>2. dlr'[i].ev = dlr[n + i].ev
      BY <2>4
    <3>3. \A j \in 1 .. n : j \in 1 .. l
      BY <2>3, <2>4
    <3>4. dlr[n + i].ev \notin {dlr[j].ev : j \in 1 .. n}
      BY <3>1, <3>3, <2>3
    <3>5. dlr[n + i].ev \notin rang
      BY <3>1, <2>3, <2>6
    <3> DEFINE x == dlr[n + i].ev
    <3>6. /\ x \in Evbs /\ x \in Listed /\ due[x] > c
          /\ DueAt(dlr', i) = due[x] - c
      BY <3>1, <2>4, <2>6
    <3>7. due'[x] = Less(due[x], c)
      BY <3>6, <2>2
    <3>8. due'[x] = due[x] - c
      BY <3>6, <3>7 DEF Less
    <3> QED
      BY <3>1, <3>2, <3>4, <3>5, <3>6, <3>8, <2>2
  <2>8. ASSUME NEW i \in DOMAIN dlr', NEW j \in DOMAIN dlr',
               dlr'[i].ev = dlr'[j].ev
        PROVE  i = j
    <3>1. i \in 1 .. l - n /\ j \in 1 .. l - n
      BY <2>5
    <3>2. n + i = n + j
      BY <3>1, <2>3, <2>7, <2>8
    <3> QED
      BY <3>1, <3>2, <2>3, <2>4
  <2>9. Listed' \cap rang' = {}
    BY <2>5, <2>7 DEF Listed
  <2>10. rang' \subseteq Evbs
    <3>1. \A j \in 1 .. n : j \in 1 .. l
      BY <2>3, <2>4
    <3> QED
      BY <3>1, <2>2, <2>3, <2>6
  <2>11. due' \in [Evbs -> 0 .. MaxDelay]
    <3>1. \A x \in Evbs : Less(due[x], c) \in 0 .. MaxDelay
      BY <2>1, <2>3, TimerAssumption DEF Less
    <3> QED
      BY <3>1, <2>2, <2>3
  <2>12. arming' => dlr' # <<>>
    <3> SUFFICES ASSUME arming', dlr' = <<>>
                 PROVE  FALSE
      OBVIOUS
    <3>1. n < l
      BY <2>2, Zenon
    <3>2. l - n = 0
      BY <2>4, EmptySeq
    <3> QED
      BY <3>1, <3>2, <2>3, <2>4
  <2>13. dlr' # <<>> => dlr'[1].parm > 0
    <3>1. dlr' # <<>> => Len(dlr') > 0
      BY <2>4, EmptySeq
    <3> QED
      BY <3>1, <2>4
  <2>14. ListExact'
    BY <2>5, <2>7 DEF ListExact
  <2> QED
    BY <2>4, <2>8, <2>9, <2>10, <2>11, <2>12, <2>13, <2>14 DEF ListInv
<1> QED
  BY <1>1, <1>2

LEMMA ListStep ==
  ListInv /\ ClockInv /\ [Next]_vars => ListInv'
<1> SUFFICES ASSUME ListInv, ClockInv, [Next]_vars
             PROVE  ListInv'
  OBVIOUS
<1>1. CASE \E e \in Evbs, c \in 0 .. MaxDelay : adelay(e, c)
  BY <1>1, adelayList
<1>2. CASE \E e \in Evbs : takeoff(e)
  BY <1>2, takeoffList
<1>3. CASE \E e \in Evbs : apret(e)
  BY <1>3, apretList
<1>4. CASE tikcod \/ OtherFork
  <2>1. UNCHANGED <<dlr, arming, rang, due>>
    BY <1>4 DEF tikcod, OtherFork, history
  <2> QED
    BY <2>1 DEF ListInv, Listed, ListExact
<1>5. CASE forker
  BY <1>5, forkerList DEF ClockInv
<1>6. CASE Rearm
  <2>1. UNCHANGED <<dlr, rang, due>> /\ ~arming'
    BY <1>6 DEF Rearm, history
  <2> QED
    BY <2>1 DEF ListInv, Listed, ListExact
<1>7. CASE UNCHANGED vars
  <2>1. UNCHANGED <<dlr, arming, rang, due>>
    BY <1>7 DEF vars, history
  <2> QED
    BY <2>1 DEF ListInv, Listed, ListExact
<1> QED
  BY <1>1, <1>2, <1>3, <1>4, <1>5, <1>6, <1>7 DEF Next

(***************************************************************************)
(* The counters.                                                           *)
(***************************************************************************)
LEMMA TicksFacts ==
  /\ MaxDelay \in Nat \ {0} /\ MaxNum \in Nat /\ MaxTicks \in Nat
  /\ MaxDelay < MaxTicks /\ MaxNum < MaxTicks
BY TimerAssumption DEF MaxTicks

(* The head expires in its own delay, which is one somebody asked for. *)
LEMMA HeadFacts ==
  ASSUME ListInv, dlr # <<>>
  PROVE  dlr[1].parm \in 1 .. MaxDelay
<1>1. /\ dlr \in Seq(Delays) /\ due \in [Evbs -> 0 .. MaxDelay]
      /\ dlr[1].parm > 0
  BY DEF ListInv
<1>2. DueAt(dlr, 1) = dlr[1].parm /\ dlr[1].parm \in Nat /\ 1 \in DOMAIN dlr
  BY <1>1, HeadDue
<1>3. dlr[1] \in Delays
  BY <1>1, <1>2, LenProperties, ElementOfSeq
<1>4. dlr[1].parm = due[dlr[1].ev] /\ dlr[1].ev \in Evbs
  BY <1>2, <1>3 DEF ListInv, ListExact, Delays
<1> QED
  BY <1>1, <1>2, <1>4, TicksFacts

LEMMA adelayClock ==
  ASSUME ListInv, ClockInv, NEW e \in Evbs, NEW ticks \in 0 .. MaxDelay,
         adelay(e, ticks)
  PROVE  ClockInv'
<1> DEFINE c == IF ticks = 0 THEN 1 ELSE ticks
           k == DueBefore(dlr, c)
<1>1. c \in Nat \ {0} /\ c \in 1 .. MaxDelay /\ c \in 0 .. MaxDelay
  BY TicksFacts
<1>2. /\ ~arming /\ arming' = arming /\ ring' = ring
      /\ dlr' = Insert(dlr, e, c)
      /\ left' = [left EXCEPT ![e] = c]
      /\ \/ /\ CMP_TICK # 0
            /\ CMP_TICK' = IF c <= CMP_TICK THEN c ELSE CMP_TICK
            /\ NUM_TICK' = NUM_TICK
         \/ CMP_TICK = 0 /\ CMP_TICK' = c /\ NUM_TICK' = 0
  BY DEF adelay
<1> HIDE DEF c
<1>3. /\ dlr \in Seq(Delays) /\ CMP_TICK \in 0 .. MaxDelay
      /\ NUM_TICK \in 0 .. MaxTicks
      /\ CMP_TICK # 0 => NUM_TICK + CMP_TICK <= MaxTicks
      /\ left \in [Evbs -> 0 .. MaxDelay]
      /\ (dlr # <<>> /\ \A i \in DOMAIN ring : ring[i].code # "tchange")
           => CMP_TICK \in 1 .. dlr[1].parm
  BY <1>2 DEF ListInv, ClockInv, WakeUpArmed
<1>4. k \in 0 .. Len(dlr) /\ dlr'[1].parm = IF k = 0 THEN c ELSE dlr[1].parm
  <2>1. /\ k \in 0 .. Len(dlr)
        /\ Insert(dlr, e, c)[1].parm = IF k = 0 THEN c ELSE dlr[1].parm
    BY <1>1, <1>3, InsertFacts, ZenonT(30)
  <2> QED
    BY <1>2, <2>1
<1>5. /\ CMP_TICK' \in 0 .. MaxDelay /\ NUM_TICK' \in 0 .. MaxTicks
      /\ CMP_TICK' # 0 => NUM_TICK' + CMP_TICK' <= MaxTicks
  BY <1>1, <1>2, <1>3, TicksFacts
<1>6. WakeUpArmed'
  <2> SUFFICES ASSUME \A i \in DOMAIN ring : ring[i].code # "tchange"
               PROVE  CMP_TICK' \in 1 .. dlr'[1].parm
    BY <1>2 DEF WakeUpArmed
  <2>1. CASE dlr = <<>>
    <3>1. k = 0
      BY <2>1, <1>4, EmptySeq
    <3> QED
      BY <3>1, <1>1, <1>2, <1>3, <1>4
  <2>2. CASE dlr # <<>>
    <3>1. CMP_TICK \in 1 .. dlr[1].parm /\ dlr[1].parm \in Nat
      BY <2>2, <1>3, HeadDue
    <3> QED
      BY <3>1, <1>1, <1>2, <1>4
  <2> QED
    BY <2>1, <2>2
<1>7. left' \in [Evbs -> 0 .. MaxDelay]
  BY <1>1, <1>2, <1>3
<1> QED
  BY <1>2, <1>5, <1>6, <1>7 DEF ClockInv

LEMMA takeoffClock ==
  ASSUME ListInv, ClockInv, NEW e \in Evbs, takeoff(e)
  PROVE  ClockInv'
<1>1. /\ ~arming /\ arming' = arming /\ ring' = ring
      /\ CMP_TICK' = CMP_TICK /\ NUM_TICK' = NUM_TICK
      /\ left' = [left EXCEPT ![e] = 0]
  BY DEF takeoff
<1>2. dlr \in Seq(Delays) /\ DOMAIN dlr = 1 .. Len(dlr) /\ Len(dlr) \in Nat
  BY LenProperties DEF ListInv
<1>3. PICK j \in 1 .. Len(dlr) : dlr' = Unlink(dlr, j)
  BY <1>2 DEF takeoff
<1>4. /\ dlr' \in Seq(Delays)
      /\ Len(dlr') > 0 => dlr'[1].parm >= dlr[1].parm
  BY <1>2, <1>3, UnlinkFacts
<1>5. WakeUpArmed'
  <2> SUFFICES ASSUME dlr' # <<>>,
                      \A i \in DOMAIN ring : ring[i].code # "tchange"
               PROVE  CMP_TICK \in 1 .. dlr'[1].parm
    BY <1>1 DEF WakeUpArmed
  <2>1. Len(dlr') > 0 /\ dlr'[1].parm \in Nat
    BY <1>4, HeadDue, EmptySeq
  <2>2. dlr # <<>>
    BY <1>2, <1>3, EmptySeq
  <2>3. CMP_TICK \in 1 .. dlr[1].parm /\ dlr[1].parm \in Nat
    BY <2>2, <1>1, <1>2, HeadDue DEF ClockInv, WakeUpArmed
  <2> QED
    BY <2>1, <2>3, <1>4
<1>6. left' \in [Evbs -> 0 .. MaxDelay]
  BY <1>1, TicksFacts DEF ClockInv
<1> QED
  BY <1>1, <1>5, <1>6 DEF ClockInv

LEMMA tikcodClock ==
  ASSUME ListInv, ClockInv, tikcod
  PROVE  ClockInv'
<1>1. /\ dlr' = dlr /\ arming' = arming
      /\ left' = [x \in Evbs |->
                    IF x \in Listed THEN Less(left[x], 1) ELSE left[x]]
  BY DEF tikcod
<1>2. /\ CMP_TICK \in 0 .. MaxDelay /\ NUM_TICK \in 0 .. MaxTicks
      /\ CMP_TICK # 0 => NUM_TICK + CMP_TICK <= MaxTicks
      /\ ring \in Seq(Fork) /\ Len(ring) <= NFORKS
      /\ arming \in BOOLEAN
      /\ left \in [Evbs -> 0 .. MaxDelay]
  BY DEF ClockInv
<1>3. left' \in [Evbs -> 0 .. MaxDelay]
  <2>1. \A x \in Evbs : Less(left[x], 1) \in 0 .. MaxDelay
    BY <1>2, TicksFacts DEF Less
  <2> QED
    BY <1>1, <1>2, <2>1
<1>4. CASE CMP_TICK = 0
  <2>1. UNCHANGED <<CMP_TICK, NUM_TICK, ring>>
    BY <1>4 DEF tikcod
  <2> QED
    BY <2>1, <1>1, <1>3 DEF ClockInv, WakeUpArmed
<1>5. CASE CMP_TICK > 1
  <2>1. CMP_TICK' = CMP_TICK - 1 /\ NUM_TICK' = NUM_TICK + 1 /\ ring' = ring
    BY <1>5 DEF tikcod
  <2>2. /\ CMP_TICK' \in 0 .. MaxDelay /\ NUM_TICK' \in 0 .. MaxTicks
        /\ CMP_TICK' # 0 => NUM_TICK' + CMP_TICK' <= MaxTicks
    BY <2>1, <1>2, <1>5, TicksFacts
  <2>3. WakeUpArmed'
    <3> SUFFICES ASSUME dlr # <<>>, ~arming,
                        \A i \in DOMAIN ring : ring[i].code # "tchange"
                 PROVE  CMP_TICK' \in 1 .. dlr[1].parm
      BY <1>1, <2>1 DEF WakeUpArmed
    <3>1. CMP_TICK \in 1 .. dlr[1].parm
      BY DEF ClockInv, WakeUpArmed
    <3>2. dlr[1].parm \in Nat
      BY HeadDue DEF ListInv
    <3> QED
      BY <3>1, <3>2, <2>1, <1>5
  <2> QED
    BY <1>1, <1>2, <1>3, <2>1, <2>2, <2>3 DEF ClockInv
<1>6. CASE CMP_TICK = 1 /\ ~HasRoom
  <2>1. /\ CMP_TICK' = CMP_TICK /\ NUM_TICK' = NUM_TICK + 1 /\ ring' = ring
        /\ NUM_TICK < MaxNum
    BY <1>6 DEF tikcod
  <2>2. /\ NUM_TICK' \in 0 .. MaxTicks
        /\ CMP_TICK' # 0 => NUM_TICK' + CMP_TICK' <= MaxTicks
    BY <2>1, <1>2, <1>6, TicksFacts DEF MaxTicks
  <2>3. WakeUpArmed'
    BY <1>1, <2>1 DEF ClockInv, WakeUpArmed
  <2> QED
    BY <1>1, <1>2, <1>3, <2>1, <2>2, <2>3 DEF ClockInv
<1>7. CASE CMP_TICK = 1 /\ HasRoom
  <2> DEFINE f == [code |-> "tchange", data |-> NUM_TICK']
  <2>1. /\ CMP_TICK' = 0 /\ NUM_TICK' = NUM_TICK + 1
        /\ ring' = Append(ring, f)
    BY <1>7 DEF tikcod
  <2>2. NUM_TICK' \in 0 .. MaxTicks
    BY <2>1, <1>2, <1>7
  <2>3. f \in Fork
    BY <2>2 DEF Fork
  <2> HIDE DEF f
  <2>4. /\ ring' \in Seq(Fork) /\ Len(ring') = Len(ring) + 1
        /\ ring'[Len(ring) + 1] = f /\ Len(ring) \in Nat
        /\ DOMAIN ring' = 1 .. Len(ring) + 1
    BY <1>2, <2>1, <2>3, AppendProperties, LenProperties
  <2>5. Len(ring') <= NFORKS
    BY <1>7, <2>4, TimerAssumption DEF HasRoom
  <2>6. WakeUpArmed'
    <3>1. Len(ring) + 1 \in DOMAIN ring'
      BY <2>4
    <3>2. ring'[Len(ring) + 1].code = "tchange"
      BY <2>4 DEF f
    <3> QED
      BY <3>1, <3>2 DEF WakeUpArmed
  <2> QED
    BY <1>1, <1>2, <1>3, <2>1, <2>2, <2>4, <2>5, <2>6, TicksFacts DEF ClockInv
<1> QED
  BY <1>2, <1>4, <1>5, <1>6, <1>7, TicksFacts

LEMMA forkClock ==
  ASSUME ListInv, ClockInv, OtherFork
  PROVE  ClockInv'
<1> DEFINE f == [code |-> "other", data |-> 0]
<1>1. /\ HasRoom /\ ring' = Append(ring, f)
      /\ UNCHANGED <<dlr, CMP_TICK, NUM_TICK, arming, left>>
  BY DEF OtherFork, history
<1>2. f \in Fork
  BY TicksFacts DEF Fork
<1> HIDE DEF f
<1>3. ring \in Seq(Fork)
  BY DEF ClockInv
<1>4. /\ ring' \in Seq(Fork) /\ Len(ring') = Len(ring) + 1 /\ Len(ring) \in Nat
      /\ DOMAIN ring = 1 .. Len(ring) /\ DOMAIN ring' = 1 .. Len(ring) + 1
      /\ \A i \in 1 .. Len(ring) : ring'[i] = ring[i]
  BY <1>1, <1>2, <1>3, AppendProperties, LenProperties
<1>5. Len(ring') <= NFORKS
  BY <1>1, <1>4, TimerAssumption DEF HasRoom
<1>6. WakeUpArmed'
  <2> SUFFICES ASSUME dlr # <<>>, ~arming,
                      \A i \in DOMAIN ring' : ring'[i].code # "tchange"
               PROVE  CMP_TICK \in 1 .. dlr[1].parm
    BY <1>1 DEF WakeUpArmed
  <2>1. \A i \in DOMAIN ring : i \in DOMAIN ring'
    BY <1>4
  <2>2. \A i \in DOMAIN ring : ring[i].code # "tchange"
    BY <1>4, <2>1
  <2> QED
    BY <2>2 DEF ClockInv, WakeUpArmed
<1> QED
  BY <1>1, <1>4, <1>5, <1>6 DEF ClockInv

LEMMA forkerClock ==
  ASSUME ListInv, ClockInv, forker
  PROVE  ClockInv'
<1>1. /\ ~arming /\ ring # <<>> /\ ring' = Tail(ring)
      /\ UNCHANGED <<CMP_TICK, NUM_TICK, left>>
      /\ ring \in Seq(Fork) /\ Len(ring) <= NFORKS
  BY DEF forker, ClockInv
<1>2. /\ ring' \in Seq(Fork) /\ Len(ring') = Len(ring) - 1 /\ Len(ring) \in Nat
      /\ \A i \in 1 .. Len(ring') : ring'[i] = ring[i + 1]
      /\ Head(ring) = ring[1]
      /\ DOMAIN ring = 1 .. Len(ring) /\ DOMAIN ring' = 1 .. Len(ring')
  BY <1>1, HeadTailProperties, LenProperties
<1>3. Len(ring') <= NFORKS
  BY <1>1, <1>2, TimerAssumption
<1>4. CASE Head(ring).code = "other"
  <2>1. dlr' = dlr /\ arming' = arming
    BY <1>4 DEF forker
  <2>2. WakeUpArmed'
    <3> SUFFICES ASSUME dlr # <<>>,
                        \A i \in DOMAIN ring' : ring'[i].code # "tchange"
                 PROVE  CMP_TICK \in 1 .. dlr[1].parm
      BY <1>1, <2>1 DEF WakeUpArmed
    <3>1. ASSUME NEW i \in DOMAIN ring
          PROVE  ring[i].code # "tchange"
      <4>1. CASE i = 1
        BY <4>1, <1>2, <1>4
      <4>2. CASE i # 1
        <5>1. i - 1 \in 1 .. Len(ring') /\ (i - 1) + 1 = i
          BY <4>2, <1>2
        <5> QED
          BY <5>1, <1>2
      <4> QED
        BY <4>1, <4>2
    <3> QED
      BY <3>1, <1>1 DEF ClockInv, WakeUpArmed
  <2> QED
    BY <1>1, <1>2, <1>3, <2>1, <2>2 DEF ClockInv
<1>5. CASE Head(ring).code # "other"
  <2> DEFINE c == Head(ring).data
             n == DueBefore(dlr, c + 1)
  <2>1. c \in Nat
    <3>1. Head(ring) \in Fork
      BY <1>1, HeadTailProperties
    <3> QED
      BY <3>1, TicksFacts DEF Fork
  <2>2. arming' = (n < Len(dlr)) /\ dlr' = Aged(dlr, c)
    BY <1>5 DEF forker, Aged
  <2>3. dlr \in Seq(Delays)
    BY DEF ListInv
  <2> HIDE DEF c
  <2>4. /\ n \in 0 .. Len(dlr) /\ Aged(dlr, c) \in Seq(Delays)
        /\ Len(Aged(dlr, c)) = Len(dlr) - n
    BY <2>1, <2>3, AgedFacts, Zenon
  <2> HIDE DEF n
  <2>5. arming' \in BOOLEAN
    BY <2>2
  <2>6. WakeUpArmed'
    <3> SUFFICES ASSUME dlr' # <<>>
                 PROVE  arming'
      BY DEF WakeUpArmed
    <3>1. Len(dlr') \in Nat \ {0} /\ Len(dlr') = Len(dlr) - n
      BY <2>2, <2>4, EmptySeq
    <3>2. n < Len(dlr)
      BY <3>1, <2>3, <2>4, LenProperties
    <3> QED
      BY <3>2, <2>2, Zenon
  <2> QED
    BY <1>1, <1>2, <1>3, <2>5, <2>6 DEF ClockInv
<1> QED
  BY <1>4, <1>5

LEMMA ClockStep ==
  ListInv /\ ClockInv /\ [Next]_vars => ClockInv'
<1> SUFFICES ASSUME ListInv, ClockInv, [Next]_vars
             PROVE  ClockInv'
  OBVIOUS
<1>1. CASE \E e \in Evbs, c \in 0 .. MaxDelay : adelay(e, c)
  BY <1>1, adelayClock
<1>2. CASE \E e \in Evbs : takeoff(e)
  BY <1>2, takeoffClock
<1>3. CASE \E e \in Evbs : apret(e)
  <2>1. PICK e \in Evbs : apret(e)
    BY <1>3
  <2>2. /\ UNCHANGED <<dlr, CMP_TICK, NUM_TICK, ring, arming>>
        /\ left' = [left EXCEPT ![e] = 0]
    BY <2>1 DEF apret
  <2>3. left' \in [Evbs -> 0 .. MaxDelay]
    BY <2>2, TicksFacts DEF ClockInv
  <2> QED
    BY <2>2, <2>3 DEF ClockInv, WakeUpArmed
<1>4. CASE tikcod
  BY <1>4, tikcodClock
<1>5. CASE OtherFork
  BY <1>5, forkClock
<1>6. CASE forker
  BY <1>6, forkerClock
<1>7. CASE Rearm
  <2>1. /\ arming /\ ~arming' /\ arming' \in BOOLEAN
        /\ CMP_TICK' = dlr[1].parm /\ NUM_TICK' = 0
        /\ UNCHANGED <<dlr, ring, left>>
    BY <1>7 DEF Rearm, history
  <2>2. dlr # <<>>
    BY <2>1 DEF ListInv
  <2>3. dlr[1].parm \in 1 .. MaxDelay
    BY <2>2, HeadFacts
  <2> QED
    BY <2>1, <2>3, TicksFacts DEF ClockInv, WakeUpArmed
<1>8. CASE UNCHANGED vars
  BY <1>8 DEF vars, history, ClockInv, WakeUpArmed
<1> QED
  BY <1>1, <1>2, <1>3, <1>4, <1>5, <1>6, <1>7, <1>8 DEF Next

(***************************************************************************)
(* Theorems.                                                               *)
(***************************************************************************)
LEMMA InitInv ==
  Init => ListInv /\ ClockInv
<1> SUFFICES ASSUME Init
             PROVE  ListInv /\ ClockInv
  OBVIOUS
<1>1. /\ dlr = <<>> /\ DOMAIN dlr = {} /\ ring = <<>> /\ rang = {}
      /\ CMP_TICK = 0 /\ NUM_TICK = 0 /\ arming = FALSE
      /\ due = [x \in Evbs |-> 0] /\ left = [x \in Evbs |-> 0]
  BY DEF Init
<1>2. dlr \in Seq(Delays) /\ ring \in Seq(Fork) /\ Len(ring) = 0
  BY <1>1, EmptySeq
<1>3. ListInv
  BY <1>1, <1>2, TicksFacts DEF ListInv, ListExact, Listed
<1>4. Len(ring) <= NFORKS
  BY <1>2, TimerAssumption
<1>5. left \in [Evbs -> 0 .. MaxDelay] /\ 0 \in 0 .. MaxDelay /\ 0 \in 0 .. MaxTicks
  BY <1>1, TicksFacts
<1>6. WakeUpArmed
  BY <1>1 DEF WakeUpArmed
<1>7. arming \in BOOLEAN
  BY <1>1
<1>8. ClockInv
  BY <1>1, <1>2, <1>4, <1>5, <1>6, <1>7, Zenon DEF ClockInv
<1> QED
  BY <1>3, <1>8

LEMMA InvAlways == Spec => [](ListInv /\ ClockInv)
<1>1. Init => ListInv /\ ClockInv
  BY InitInv
<1>2. ListInv /\ ClockInv /\ [Next]_vars => (ListInv /\ ClockInv)'
  BY ListStep, ClockStep
<1> QED
  BY <1>1, <1>2, PTL DEF Spec

LEMMA DelaysBounded ==
  ASSUME ListInv
  PROVE  dlr \in Seq([ev : Evbs, parm : 0 .. MaxDelay])
<1>1. /\ dlr \in Seq(Delays) /\ due \in [Evbs -> 0 .. MaxDelay]
      /\ DOMAIN dlr = 1 .. Len(dlr) /\ Len(dlr) \in Nat
      /\ dlr \in [1 .. Len(dlr) -> Delays]
  BY LenProperties DEF ListInv
<1>2. ASSUME NEW i \in 1 .. Len(dlr)
      PROVE  dlr[i] \in [ev : Evbs, parm : 0 .. MaxDelay]
  <2>1. dlr[i] \in [ev : Evbs, parm : Nat]
    BY <1>1 DEF Delays
  <2>2. i - 1 \in Nat /\ (i - 1) + 1 = i /\ i \in 0 .. Len(dlr)
        /\ i - 1 \in 0 .. Len(dlr)
    BY <1>1
  <2>3. DueAt(dlr, (i - 1) + 1) = DueAt(dlr, i - 1) + dlr[(i - 1) + 1].parm
    BY <2>2, DueAtStep
  <2>4. DueAt(dlr, i - 1) \in Nat
    BY <1>1, <2>2, DueAtType
  <2>5. DueAt(dlr, i) = due[dlr[i].ev] /\ due[dlr[i].ev] \in 0 .. MaxDelay
    BY <1>1, <2>1 DEF ListInv, ListExact
  <2>6. dlr[i].parm \in 0 .. MaxDelay
    BY <2>1, <2>2, <2>3, <2>4, <2>5, TicksFacts
  <2> QED
    BY <2>1, <2>6
<1> DEFINE D == [ev : Evbs, parm : 0 .. MaxDelay]
           n == Len(dlr)
<1>3. dlr \in [1 .. n -> D] /\ n \in Nat
  BY <1>1, <1>2
<1> HIDE DEF D, n
<1>4. dlr \in Seq(D)
  BY <1>3, SeqDef
<1> QED
  BY <1>4 DEF D

LEMMA ListedOnce ==
  ASSUME ListInv
  PROVE  Len(dlr) = Cardinality(Listed)
<1> DEFINE n == Len(dlr)
           f == [i \in 1 .. n |-> dlr[i].ev]
<1>1. n \in Nat /\ DOMAIN dlr = 1 .. n
  BY LenProperties DEF ListInv
<1>2. f \in [1 .. n -> Listed]
  BY <1>1 DEF Listed
<1>3. \A i, j \in 1 .. n : f[i] = f[j] => i = j
  BY <1>1 DEF ListInv
<1>4. \A x \in Listed : \E i \in 1 .. n : f[i] = x
  BY <1>1 DEF Listed
<1> HIDE DEF f, n
<1>5. f \in Bijection(1 .. n, Listed)
  BY <1>2, <1>3, <1>4 DEF Bijection, Injection, Surjection, IsInjective
<1>6. ExistsBijection(1 .. n, Listed)
  BY <1>5 DEF ExistsBijection
<1> QED
  BY <1>1, <1>6, FS_CountingElements DEF n

(* Every variable keeps its type: a block is in one place only, no delay   *)
(* is negative, and the counters and the fork ring stay in their bounds.   *)
THEOREM TimerTypes == Spec => []TypeOK
<1>1. ListInv /\ ClockInv => TypeOK
  BY DelaysBounded, ListedOnce DEF ListInv, ClockInv, TypeOK
<1> QED
  BY <1>1, InvAlways, PTL

(* adelay(), takeoff() and tchange() never disturb a neighbour's expiry,   *)
(* for any number of blocks and any delays.                                *)
THEOREM ListKept == Spec => []ListExact
<1>1. ListInv => ListExact
  BY DEF ListInv
<1> QED
  BY <1>1, InvAlways, PTL

(* The wake-up is never lost, whenever the tick comes and however long the *)
(* fork ring stays full.                                                   *)
THEOREM WakeUpKept == Spec => []WakeUpArmed
<1>1. ClockInv => WakeUpArmed
  BY DEF ClockInv
<1> QED
  BY <1>1, InvAlways, PTL

=============================================================================
