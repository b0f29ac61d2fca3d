--------------------------- MODULE FileSystem_proofs ---------------------------
(***************************************************************************)
(* Proofs about the two lower layers of the GEMDOS file system.            *)
(*                                                                         *)
(* FileIO, for any files, descriptors, cluster and record sizes: the       *)
(* chains fit the files (ChainsFit), every transfer moves the right bytes  *)
(* (TransfersRight), and the clusters implement ByteFile.                  *)
(*                                                                         *)
(* BufferCache, for any drives, media, records and buffers: the buffers    *)
(* stay coherent with the media (Coherent), Fclose() stores everything     *)
(* (ClosedIsStored), and the buffers implement RecordStore.                *)
(***************************************************************************)
EXTENDS FileIO, BufferCache, SequenceTheorems, FiniteSetTheorems, TLAPS

-----------------------------------------------------------------------------
(***************************************************************************)
(* FileIO: the drive, and bytes in clusters.                               *)
(***************************************************************************)
LEMMA Drive ==
  /\ m_recsiz \in Nat /\ m_recsiz > 0 /\ m_clsiz \in Nat /\ m_clsiz > 0
  /\ m_numcl \in Nat /\ m_numcl > 0 /\ CNTMAX \in Nat /\ MaxRequest \in Nat
  /\ m_clsizb \in Nat /\ m_clsizb > 0 /\ m_recsiz <= m_clsizb
  /\ \A c \in Clusters : c \in Int /\ 2 <= c /\ c <= m_numcl + 1 /\ m_numcl + 1 <= 65525
<1>1. /\ m_recsiz \in Nat /\ m_recsiz > 0 /\ m_clsiz \in Nat /\ m_clsiz > 0
      /\ m_numcl \in Nat /\ m_numcl > 0 /\ CNTMAX \in Nat /\ MaxRequest \in Nat /\ m_numcl <= 65524
  BY FileAssumption
<1>2. m_clsizb \in Nat /\ m_clsizb > 0 /\ m_recsiz <= m_clsizb
  <2>1. \A a, b \in Nat : a > 0 /\ b > 0 => a * b \in Nat /\ a * b > 0 /\ a <= a * b
    OBVIOUS
  <2> QED
    BY <1>1, <2>1 DEF m_clsizb
<1>3. \A c \in Clusters : c \in Int /\ 2 <= c /\ c <= m_numcl + 1 /\ m_numcl + 1 <= 65525
  BY <1>1 DEF Clusters
<1> QED
  BY <1>1, <1>2, <1>3

LEMMA DivIs ==
  ASSUME NEW d \in Nat, d > 0, NEW q \in Int, NEW r \in 0 .. d - 1
  PROVE  (q * d + r) \div d = q /\ (q * d + r) % d = r
OBVIOUS

LEMMA DivFacts ==
  ASSUME NEW d \in Nat, d > 0, NEW n \in Int
  PROVE  /\ n \div d \in Int /\ n % d \in 0 .. d - 1 /\ n = (n \div d) * d + (n % d)
         /\ n >= 0 => n \div d >= 0
OBVIOUS

(* The first byte of cluster k (from 0) of a file.                         *)
Off(k) == k * m_clsizb

LEMMA OffFacts ==
  /\ \A k \in Int : Off(k) \in Int /\ Off(k + 1) = Off(k) + m_clsizb /\ Off(k - 1) = Off(k) - m_clsizb
  /\ \A k \in Nat : Off(k) \in Nat
  /\ Off(0) = 0 /\ Off(1) = m_clsizb
  /\ \A j, k \in Int : j < k => Off(j) + m_clsizb <= Off(k)
  /\ \A j, k \in Int : j <= k => Off(j) <= Off(k)
<1>1. m_clsizb \in Nat /\ m_clsizb > 0
  BY Drive
<1> DEFINE b == m_clsizb
<1> HIDE DEF b
<1>2. b \in Nat /\ b > 0
  BY <1>1 DEF b
<1>3. \A k \in Int : k * b \in Int /\ (k + 1) * b = k * b + b /\ (k - 1) * b = k * b - b
  BY <1>2
<1>4. \A k \in Nat : k * b \in Nat
  BY <1>2
<1>5. 0 * b = 0 /\ 1 * b = b
  BY <1>2
<1>6. \A j, k \in Int : j < k => j * b + b <= k * b
  <2> TAKE j, k \in Int
  <2> HAVE j < k
  <2>1. k - j - 1 \in Nat
    OBVIOUS
  <2>2. (k - j - 1) * b >= 0
    BY <1>2, <2>1
  <2>3. (k - j - 1) * b = k * b - j * b - b
    BY <1>2
  <2>4. k * b \in Int /\ j * b \in Int
    BY <1>2
  <2> QED
    BY <2>2, <2>3, <2>4, <1>2
<1>7. \A j, k \in Int : j <= k => j * b <= k * b
  <2> TAKE j, k \in Int
  <2> HAVE j <= k
  <2>1. CASE j = k
    BY <2>1, <1>3
  <2>2. CASE j < k
    <3>1. j * b \in Int /\ k * b \in Int /\ j * b + b <= k * b
      BY <1>3, <1>6, <2>2
    <3> QED
      BY <3>1, <1>2
  <2> QED
    BY <2>1, <2>2
<1> QED
  BY <1>3, <1>4, <1>5, <1>6, <1>7 DEF Off, b

(* n clusters are what len bytes need.                                     *)
Fits(n, len) == Off(n - 1) < len /\ len <= Off(n)

LEMMA FitsIs ==
  ASSUME NEW len \in Nat, NEW n \in Int, Fits(n, len)
  PROVE  ClustersFor(len) = n
<1> DEFINE b == m_clsizb
<1>1. b \in Nat /\ b > 0
  BY Drive
<1>2. Off(n) - b < len /\ len <= Off(n) /\ Off(n) \in Int
  BY OffFacts DEF Fits
<1>3. len + b - 1 - Off(n) \in 0 .. b - 1
  BY <1>1, <1>2
<1> DEFINE r == len + b - 1 - Off(n)
<1>4. len + b - 1 = n * b + r
  BY <1>1, <1>2 DEF Off
<1>6. r \in 0 .. b - 1
  BY <1>3
<1> HIDE DEF b, r
<1>5. (n * b + r) \div b = n
  BY <1>1, <1>6, DivIs
<1> QED
  BY <1>4, <1>5 DEF ClustersFor, b

LEMMA InCluster ==
  ASSUME NEW k \in Nat, NEW r \in 0 .. m_clsizb - 1, NEW n, n = Off(k) + r
  PROVE  n \in Nat /\ n \div m_clsizb = k /\ n % m_clsizb = r
<1> DEFINE b == m_clsizb
<1>1. b \in Nat /\ b > 0 /\ r \in 0 .. b - 1
  BY Drive
<1>2. n = k * b + r
  BY DEF Off
<1>3. Off(k) \in Nat
  BY OffFacts
<1> HIDE DEF b
<1>4. (k * b + r) \div b = k /\ (k * b + r) % b = r
  BY <1>1, DivIs
<1> QED
  BY <1>1, <1>2, <1>3, <1>4 DEF b

LEMMA AddressIs ==
  ASSUME NEW s, NEW k \in Nat, NEW r \in 0 .. m_clsizb - 1, NEW n, n = Off(k) + r
  PROVE  AddressOf(s, n) = cl2rec(s[k + 1]) * m_recsiz + r
BY InCluster DEF AddressOf

LEMMA ClusterFacts ==
  ASSUME NEW c \in Clusters
  PROVE  /\ c \in Nat /\ c >= 2 /\ ~endofchain(c) /\ c # FREECLUSTER /\ c # 0 /\ c # ENDOFCHAIN
         /\ ~(c < 2) /\ cl2rec(c) \in Nat /\ cl2rec(c) <= m_numcl * m_clsiz
<1>1. c \in Int /\ 2 <= c /\ c <= m_numcl + 1 /\ m_numcl + 1 <= 65525 /\ m_numcl \in Nat
  BY Drive
<1>5. c \in Nat /\ c >= 2 /\ c # 0 /\ c # 65535 /\ ~(c < 2) /\ ~(c >= 65528)
  BY <1>1
<1>2. \A a, b, d \in Nat : a <= b => a * d \in Nat /\ a * d <= b * d
  <2> TAKE a, b, d \in Nat
  <2> HAVE a <= b
  <2>1. (b - a) * d >= 0 /\ (b - a) * d = b * d - a * d
    OBVIOUS
  <2>2. a * d \in Nat /\ b * d \in Nat
    OBVIOUS
  <2> QED
    BY <2>1, <2>2
<1>3. c - 2 \in Nat /\ c - 2 <= m_numcl /\ m_numcl \in Nat /\ m_clsiz \in Nat
  BY <1>1, Drive
<1>4. cl2rec(c) \in Nat /\ cl2rec(c) <= m_numcl * m_clsiz
  BY <1>2, <1>3 DEF cl2rec
<1> QED
  BY <1>4, <1>5 DEF endofchain, FREECLUSTER, ENDOFCHAIN

-----------------------------------------------------------------------------
(***************************************************************************)
(* Folds. FoldLeft() chooses a function g of the sets of indices; there is *)
(* one, and g[1 .. i] is what the first i steps make of the base. The kind *)
(* k says which of the folds it is.                                        *)
(***************************************************************************)
LEMMA MinFacts ==
  ASSUME NEW I \in SUBSET Nat, I # {}
  PROVE  \E i \in I : \A j \in I : i <= j
<1>1. PICK i \in I : \A j \in I : ~(<<j, i>> \in OpToRel(<, Nat))
  BY NatLessThanWellFounded, WFMin, Zenon
<1>2. ASSUME NEW j \in I
      PROVE  i <= j
  <2> SUFFICES ASSUME j < i
               PROVE  FALSE
    OBVIOUS
  <2>1. <<j, i>> \in OpToRel(<, Nat)
    BY Zenon DEF OpToRel
  <2> QED
    BY <2>1, <1>1
<1> QED
  BY <1>2

LEMMA UpTo ==
  ASSUME NEW n \in Nat, NEW i \in 1 .. n
  PROVE  /\ i \in Nat /\ 1 .. i \in SUBSET (1 .. n) /\ 1 .. i \in SUBSET (1 .. i)
         /\ 1 .. i # {} /\ i \in 1 .. i /\ (1 .. i) \ {i} = 1 .. i - 1
<1>1. i \in 1 .. i
  OBVIOUS
<1> QED
  BY <1>1

LEMMA MaxFacts ==
  ASSUME NEW n \in Nat, NEW u \in SUBSET (1 .. n), u # {}
  PROVE  Max(u) \in u /\ \A j \in u : j <= Max(u)
<1> DEFINE I == {n - j : j \in u}
<1>1. I \in SUBSET Nat /\ I # {}
  <2>1. \A j \in u : n - j \in Nat
    OBVIOUS
  <2> QED
    BY <2>1
<1> HIDE DEF I
<1>2. PICK i \in I : \A j \in I : i <= j
  BY <1>1, MinFacts
<1>3. PICK m \in u : i = n - m
  BY DEF I
<1>4. ASSUME NEW j \in u
      PROVE  j <= m
  <2>1. n - j \in I
    BY DEF I
  <2>2. n - m <= n - j
    BY <2>1, <1>2, <1>3
  <2> QED
    BY <2>2
<1> QED
  BY <1>4 DEF Max

Longer(chain, table) ==
  IF chain = <<>> \/ endofchain(table[Last(chain)]) THEN chain
  ELSE Append(chain, table[Last(chain)])

Further(c, table) == IF c = 0 \/ endofchain(table[c]) THEN 0 ELSE table[c]

Step(k, x, j) ==
  IF k.kind = "chain" THEN Longer(x, k.table)
  ELSE IF k.kind = "passes" THEN ClusterPass(x, k.writing)
  ELSE Further(x, k.table)

RunStep(k, base, seq, g, u) ==
  IF u = {} THEN base ELSE Step(k, g[u \ {Max(u)}], seq[Max(u)])

Ran(k, base, seq, D, g) == g = [u \in D |-> RunStep(k, base, seq, g, u)]

FoldRuns(k, base, seq, r) ==
  \E g : Ran(k, base, seq, SUBSET (1 .. Len(seq)), g) /\ r = g[1 .. Len(seq)]

LEMMA RunExists ==
  ASSUME NEW k, NEW base, NEW seq, NEW n \in Nat
  PROVE  \E g : Ran(k, base, seq, SUBSET (1 .. n), g)
<1> DEFINE Bad == {m \in Nat : ~ \E g : Ran(k, base, seq, SUBSET (1 .. m), g)}
<1> SUFFICES ASSUME n \in Bad
             PROVE  FALSE
  OBVIOUS
<1>1. PICK m \in Bad : \A j \in Bad : m <= j
  <2>1. Bad \in SUBSET Nat /\ Bad # {}
    OBVIOUS
  <2> HIDE DEF Bad
  <2> QED
    BY <2>1, MinFacts
<1>2. m \in Nat /\ ~ \E g : Ran(k, base, seq, SUBSET (1 .. m), g)
  OBVIOUS
<1>3. CASE m = 0
  <2> DEFINE g == [u \in SUBSET (1 .. 0) |-> base]
  <2>1. \A u \in SUBSET (1 .. 0) : u = {}
    OBVIOUS
  <2>2. \A u \in SUBSET (1 .. 0) : RunStep(k, base, seq, g, u) = base
    BY <2>1 DEF RunStep
  <2>3. g = [u \in SUBSET (1 .. 0) |-> RunStep(k, base, seq, g, u)]
    BY <2>2
  <2> HIDE DEF g
  <2>4. Ran(k, base, seq, SUBSET (1 .. 0), g)
    BY <2>3 DEF Ran
  <2> QED
    BY <2>4, <1>2, <1>3
<1>4. CASE m # 0
  <2>1. m - 1 \in Nat /\ m - 1 < m
    BY <1>2, <1>4
  <2>2. m - 1 \notin Bad
    <3> HIDE DEF Bad
    <3>1. m - 1 \in Bad => m <= m - 1
      BY <1>1
    <3> QED
      BY <3>1, <2>1, <1>2
  <2>3. PICK g : Ran(k, base, seq, SUBSET (1 .. m - 1), g)
    BY <2>1, <2>2
  <2> HIDE DEF Bad
  <2> DEFINE D == SUBSET (1 .. m)
             E == SUBSET (1 .. m - 1)
             h == [u \in D |-> RunStep(k, base, seq, g, u)]
  <2>4. ASSUME NEW u \in D
        PROVE  RunStep(k, base, seq, h, u) = RunStep(k, base, seq, g, u)
    <3>1. CASE u = {}
      BY <3>1 DEF RunStep
    <3>2. CASE u # {}
      <4> DEFINE v == u \ {Max(u)}
      <4>1. Max(u) \in u /\ \A j \in u : j <= Max(u)
        BY <3>2, <1>2, MaxFacts
      <4>2. v \in E /\ v \in D
        <5>1. \A j \in v : j \in 1 .. m - 1
          <6> TAKE j \in v
          <6>1. j \in u /\ j # Max(u) /\ j \in 1 .. m /\ Max(u) \in 1 .. m
            BY <4>1
          <6>2. j <= Max(u)
            BY <4>1
          <6> QED
            BY <6>1, <6>2, <1>2
        <5> QED
          BY <5>1
      <4> HIDE DEF v, D, E
      <4>3. g[v] = RunStep(k, base, seq, g, v)
        <5>1. g = [w \in E |-> RunStep(k, base, seq, g, w)]
          BY <2>3 DEF Ran, E
        <5> QED
          BY <4>2, <5>1
      <4>4. h[v] = RunStep(k, base, seq, g, v)
        BY <4>2
      <4> HIDE DEF h
      <4>5. h[v] = g[v]
        BY <4>3, <4>4
      <4> QED
        BY <4>5, <3>2 DEF RunStep, v
    <3> QED
      BY <3>1, <3>2
  <2> HIDE DEF D
  <2>5. h = [u \in D |-> RunStep(k, base, seq, h, u)]
    BY <2>4, Zenon
  <2> HIDE DEF h
  <2>6. Ran(k, base, seq, SUBSET (1 .. m), h)
    BY <2>5 DEF Ran, D
  <2> QED
    BY <2>6, <1>2
<1> QED
  BY <1>3, <1>4

(* What each step keeps holds in the end; R is a set of pairs: the number  *)
(* of steps, and what they have made.                                      *)
LEMMA RunReach ==
  ASSUME NEW k, NEW base, NEW seq, Len(seq) \in Nat, NEW r, FoldRuns(k, base, seq, r),
         NEW R, <<0, base>> \in R,
         ASSUME NEW i \in 1 .. Len(seq), NEW y, <<i - 1, y>> \in R
         PROVE  <<i, Step(k, y, seq[i])>> \in R
  PROVE  <<Len(seq), r>> \in R
<1> DEFINE n == Len(seq)
<1>1. PICK g : Ran(k, base, seq, SUBSET (1 .. n), g) /\ r = g[1 .. n]
  BY DEF FoldRuns
<1>2. \A u \in SUBSET (1 .. n) : g[u] = RunStep(k, base, seq, g, u)
  <2> HIDE DEF n
  <2>1. g = [u \in SUBSET (1 .. n) |-> RunStep(k, base, seq, g, u)]
    BY <1>1 DEF Ran
  <2> QED
    BY <2>1
<1> DEFINE Bad == {i \in 0 .. n : <<i, g[1 .. i]>> \notin R}
<1> SUFFICES ASSUME n \in Bad
             PROVE  FALSE
  BY <1>1
<1>3. PICK i \in Bad : \A j \in Bad : i <= j
  <2>1. Bad \in SUBSET Nat /\ Bad # {}
    OBVIOUS
  <2> HIDE DEF Bad
  <2> QED
    BY <2>1, MinFacts
<1>4. i \in 0 .. n /\ <<i, g[1 .. i]>> \notin R
  OBVIOUS
<1>5. CASE i = 0
  <2>1. 1 .. i = {} /\ {} \in SUBSET (1 .. n)
    BY <1>5
  <2>2. g[{}] = base
    BY <2>1, <1>2 DEF RunStep
  <2> QED
    BY <2>1, <2>2, <1>4, <1>5
<1>6. CASE i # 0
  <2>1. i \in 1 .. n /\ i - 1 \in 0 .. n /\ i - 1 < i
    BY <1>4, <1>6
  <2>2. i - 1 \notin Bad
    <3> HIDE DEF Bad
    <3>1. i - 1 \in Bad => i <= i - 1
      BY <1>3
    <3> QED
      BY <3>1, <2>1
  <2>3. <<i - 1, g[1 .. i - 1]>> \in R
    BY <2>1, <2>2
  <2> HIDE DEF Bad, n
  <2>4. Max(1 .. i) = i
    <3>1. i \in Nat /\ 1 .. i \in SUBSET (1 .. i) /\ 1 .. i # {} /\ i \in 1 .. i
      BY <2>1, UpTo DEF n
    <3>2. Max(1 .. i) \in 1 .. i /\ \A j \in 1 .. i : j <= Max(1 .. i)
      BY <3>1, MaxFacts
    <3>3. i <= Max(1 .. i)
      BY <3>1, <3>2
    <3> QED
      BY <3>1, <3>2, <3>3
  <2>5. (1 .. i) \ {i} = 1 .. i - 1 /\ 1 .. i # {} /\ 1 .. i \in SUBSET (1 .. n)
    BY <2>1, UpTo DEF n
  <2>6. g[1 .. i] = Step(k, g[1 .. i - 1], seq[i])
    <3>1. g[1 .. i] = RunStep(k, base, seq, g, 1 .. i)
      BY <2>5, <1>2
    <3> QED
      BY <3>1, <2>4, <2>5 DEF RunStep
  <2>7. <<i, Step(k, g[1 .. i - 1], seq[i])>> \in R
    BY <2>1, <2>3 DEF n
  <2> QED
    BY <2>6, <2>7, <1>4
<1> QED
  BY <1>5, <1>6

Started(c) == IF c \in Clusters THEN <<c>> ELSE <<>>

LEMMA ChainRuns ==
  ASSUME NEW c, NEW t
  PROVE  FoldRuns([kind |-> "chain", table |-> t], Started(c), [i \in 1 .. m_numcl - 1 |-> i], ChainFrom(c, t))
<1> DEFINE q == [i \in 1 .. m_numcl - 1 |-> i]
           n == Len(q)
           k == [kind |-> "chain", table |-> t]
           E(g) == [u \in SUBSET (DOMAIN q) |->
                      IF u = {} THEN Started(c)
                      ELSE Longer(g[u \ {Max(u)}], t)]
           it == CHOOSE g : g = E(g)
<1>0. n \in Nat /\ DOMAIN q = 1 .. n
  BY Drive
<1>1. PICK g : Ran(k, Started(c), q, SUBSET (1 .. n), g)
  BY <1>0, RunExists
<1>2. ASSUME NEW h
      PROVE  [u \in SUBSET (1 .. n) |-> RunStep(k, Started(c), q, h, u)] = E(h)
  <2>1. \A y, j : Step(k, y, j) = Longer(y, t)
    BY DEF Step
  <2> HIDE DEF k
  <2> QED
    BY <2>1, <1>0 DEF RunStep
<1>3. g = E(g)
  BY <1>1, <1>2 DEF Ran
<1>4. ChainFrom(c, t) = it[DOMAIN q]
  BY DEF ChainFrom, Longer, Started, FoldLeft, MapThenFoldSet
<1> HIDE DEF E
<1>5. it = E(it)
  BY <1>3
<1> HIDE DEF it, n, q, k
<1>6. Ran(k, Started(c), q, SUBSET (1 .. n), it)
  BY <1>2, <1>5 DEF Ran
<1>7. FoldRuns(k, Started(c), q, it[1 .. n])
  BY <1>6 DEF FoldRuns, n
<1> QED
  BY <1>0, <1>4, <1>7 DEF q, k

LEMMA FollowRuns ==
  ASSUME NEW c, NEW i \in Nat
  PROVE  FoldRuns([kind |-> "follow", table |-> fat], c, [k \in 1 .. i |-> k], Follow(c, i))
<1> DEFINE q == [k \in 1 .. i |-> k]
           n == Len(q)
           k == [kind |-> "follow", table |-> fat]
           E(g) == [u \in SUBSET (DOMAIN q) |->
                      IF u = {} THEN c
                      ELSE Further(g[u \ {Max(u)}], fat)]
           it == CHOOSE g : g = E(g)
<1>0. n \in Nat /\ DOMAIN q = 1 .. n
  BY Drive
<1>1. PICK g : Ran(k, c, q, SUBSET (1 .. n), g)
  BY <1>0, RunExists
<1>2. ASSUME NEW h
      PROVE  [u \in SUBSET (1 .. n) |-> RunStep(k, c, q, h, u)] = E(h)
  <2>1. \A y, j : Step(k, y, j) = Further(y, fat)
    BY DEF Step
  <2> HIDE DEF k
  <2> QED
    BY <2>1, <1>0 DEF RunStep
<1>3. g = E(g)
  BY <1>1, <1>2 DEF Ran
<1>4. Follow(c, i) = it[DOMAIN q]
  BY DEF Follow, Further, FoldLeft, MapThenFoldSet
<1> HIDE DEF E
<1>5. it = E(it)
  BY <1>3
<1> HIDE DEF it, n, q, k
<1>6. Ran(k, c, q, SUBSET (1 .. n), it)
  BY <1>2, <1>5 DEF Ran
<1>7. FoldRuns(k, c, q, it[1 .. n])
  BY <1>6 DEF FoldRuns, n
<1> QED
  BY <1>0, <1>4, <1>7 DEF q, k

NoRun(x) == [x |-> x, run |-> [at |-> 0, n |-> 0]]

LEMMA PassesRun ==
  ASSUME NEW x, NEW w, RecordsLeft(x) \div m_clsiz \in Nat
  PROVE  FoldRuns([kind |-> "passes", writing |-> w], NoRun(x), [i \in 1 .. RecordsLeft(x) \div m_clsiz |-> i], WholeClusters(x, w))
<1> DEFINE q == [i \in 1 .. RecordsLeft(x) \div m_clsiz |-> i]
           n == Len(q)
           k == [kind |-> "passes", writing |-> w]
           E(g) == [u \in SUBSET (DOMAIN q) |->
                      IF u = {} THEN NoRun(x)
                      ELSE ClusterPass(g[u \ {Max(u)}], w)]
           it == CHOOSE g : g = E(g)
<1>0. n \in Nat /\ DOMAIN q = 1 .. n
  BY Drive
<1>1. PICK g : Ran(k, NoRun(x), q, SUBSET (1 .. n), g)
  BY <1>0, RunExists
<1>2. ASSUME NEW h
      PROVE  [u \in SUBSET (1 .. n) |-> RunStep(k, NoRun(x), q, h, u)] = E(h)
  <2>1. \A y, j : Step(k, y, j) = ClusterPass(y, w)
    BY DEF Step
  <2> HIDE DEF k
  <2> QED
    BY <2>1, <1>0 DEF RunStep
<1>3. g = E(g)
  BY <1>1, <1>2 DEF Ran
<1>4. WholeClusters(x, w) = it[DOMAIN q]
  BY DEF WholeClusters, NoRun, FoldLeft, MapThenFoldSet
<1> HIDE DEF E
<1>5. it = E(it)
  BY <1>3
<1> HIDE DEF it, n, q, k
<1>6. Ran(k, NoRun(x), q, SUBSET (1 .. n), it)
  BY <1>2, <1>5 DEF Ran
<1>7. FoldRuns(k, NoRun(x), q, it[1 .. n])
  BY <1>6 DEF FoldRuns, n
<1> QED
  BY <1>0, <1>4, <1>7 DEF q, k

-----------------------------------------------------------------------------
(***************************************************************************)
(* Chains of clusters. s is the chain that starts at c in table t.         *)
(***************************************************************************)
Linked(s, c, t) ==
  /\ s \in Seq(Clusters) /\ IsInjective(s)
  /\ c = IF s = <<>> THEN 0 ELSE s[1]
  /\ \A i \in 1 .. Len(s) - 1 : t[s[i]] = s[i + 1]
  /\ s # <<>> => t[s[Len(s)]] = ENDOFCHAIN

LEMMA SeqFacts ==
  ASSUME NEW S, NEW s \in Seq(S)
  PROVE  /\ Len(s) \in Nat /\ DOMAIN s = 1 .. Len(s)
         /\ \A i \in 1 .. Len(s) : s[i] \in S
         /\ s = <<>> <=> Len(s) = 0
OBVIOUS

LEMMA RangeIs ==
  ASSUME NEW S, NEW s \in Seq(S)
  PROVE  /\ \A x : x \in Range(s) <=> \E i \in 1 .. Len(s) : s[i] = x
         /\ Range(s) \subseteq S
<1>1. DOMAIN s = 1 .. Len(s) /\ \A i \in 1 .. Len(s) : s[i] \in S
  BY SeqFacts
<1> QED
  BY <1>1 DEF Range

LEMMA InjectiveIs ==
  ASSUME NEW S, NEW s \in Seq(S)
  PROVE  IsInjective(s) <=> \A i, j \in 1 .. Len(s) : s[i] = s[j] => i = j
<1>1. DOMAIN s = 1 .. Len(s)
  BY SeqFacts
<1> QED
  BY <1>1 DEF IsInjective

LEMMA LenBound ==
  ASSUME NEW s \in Seq(Clusters), IsInjective(s)
  PROVE  Len(s) <= m_numcl
<1>1. Len(s) \in Nat /\ m_numcl \in Nat
  BY SeqFacts, Drive
<1>2. /\ IsFiniteSet(1 .. Len(s)) /\ Cardinality(1 .. Len(s)) = Len(s)
      /\ IsFiniteSet(Clusters) /\ Cardinality(Clusters) = m_numcl
  <2>1. ASSUME NEW a \in Int, NEW b \in Int, a <= b + 1
        PROVE  IsFiniteSet(a .. b) /\ Cardinality(a .. b) = b - a + 1
    <3>1. IsFiniteSet(a .. b) /\ Cardinality(a .. b) = IF a > b THEN 0 ELSE b - a + 1
      BY FS_Interval
    <3> QED
      BY <3>1, <2>1
  <2>2. IsFiniteSet(1 .. Len(s)) /\ Cardinality(1 .. Len(s)) = Len(s)
    BY <2>1, <1>1
  <2>3. IsFiniteSet(Clusters) /\ Cardinality(Clusters) = m_numcl
    BY <2>1, <1>1 DEF Clusters
  <2> QED
    BY <2>2, <2>3
<1>3. s \in [1 .. Len(s) -> Clusters]
  BY SeqFacts
<1>4. \A i, j \in 1 .. Len(s) : s[i] = s[j] => i = j
  BY InjectiveIs
<1> SUFFICES ASSUME Cardinality(Clusters) < Cardinality(1 .. Len(s))
             PROVE  FALSE
  BY <1>1, <1>2
<1>5. \E i, j \in 1 .. Len(s) : i # j /\ s[i] = s[j]
  BY <1>2, <1>3, FS_PigeonHole
<1> QED
  BY <1>4, <1>5

LEMMA LinkedFacts ==
  ASSUME NEW s, NEW c, NEW t, Linked(s, c, t)
  PROVE  /\ s \in Seq(Clusters) /\ Len(s) \in 0 .. m_numcl
         /\ \A i \in 1 .. Len(s) : s[i] \in Clusters
         /\ \A i, j \in 1 .. Len(s) : s[i] = s[j] => i = j
         /\ \A i \in 1 .. Len(s) : t[s[i]] = IF i = Len(s) THEN ENDOFCHAIN ELSE s[i + 1]
         /\ c = IF s = <<>> THEN 0 ELSE s[1]
         /\ Len(s) = 0 <=> s = <<>>
<1>1. s \in Seq(Clusters) /\ IsInjective(s)
  BY DEF Linked
<1>2. Len(s) \in Nat /\ Len(s) <= m_numcl /\ m_numcl \in Nat
  BY <1>1, LenBound, SeqFacts, Drive
<1>3. \A i \in 1 .. Len(s) : s[i] \in Clusters
  BY <1>1, SeqFacts
<1>4. \A i, j \in 1 .. Len(s) : s[i] = s[j] => i = j
  BY <1>1, InjectiveIs
<1>5. Len(s) = 0 <=> s = <<>>
  BY <1>1, SeqFacts
<1>6. \A i \in 1 .. Len(s) : t[s[i]] = IF i = Len(s) THEN ENDOFCHAIN ELSE s[i + 1]
  BY <1>2, <1>5 DEF Linked
<1>7. c = IF s = <<>> THEN 0 ELSE s[1]
  BY DEF Linked
<1> QED
  BY <1>1, <1>2, <1>3, <1>4, <1>5, <1>6, <1>7

(* The first m clusters of a chain.                                        *)
Part(s, m) == [j \in 1 .. m |-> s[j]]

LEMMA PartFacts ==
  ASSUME NEW S, NEW s \in Seq(S), NEW m \in 0 .. Len(s)
  PROVE  /\ Part(s, m) \in Seq(S) /\ Len(Part(s, m)) = m
         /\ \A j \in 1 .. m : Part(s, m)[j] = s[j]
         /\ m > 0 => Part(s, m) # <<>> /\ Last(Part(s, m)) = s[m]
         /\ m = 0 => Part(s, m) = <<>>
         /\ m = Len(s) => Part(s, m) = s
         /\ m < Len(s) => Part(s, m + 1) = Append(Part(s, m), s[m + 1])
<1> DEFINE y == Part(s, m)
<1>1. Len(s) \in Nat /\ \A i \in 1 .. Len(s) : s[i] \in S
  BY SeqFacts
<1>2. y \in Seq(S) /\ Len(y) = m /\ \A j \in 1 .. m : y[j] = s[j]
  BY <1>1 DEF Part
<1>3. m > 0 => y # <<>> /\ Last(y) = s[m]
  BY <1>2 DEF Last
<1>4. m = 0 => y = <<>>
  BY <1>2
<1>5. m = Len(s) => y = s
  BY <1>1, <1>2
<1>6. m < Len(s) => Part(s, m + 1) = Append(y, s[m + 1])
  <2> SUFFICES ASSUME m < Len(s)
               PROVE  Part(s, m + 1) = Append(y, s[m + 1])
    OBVIOUS
  <2>1. Part(s, m + 1) = [j \in 1 .. m + 1 |-> s[j]]
    BY DEF Part
  <2>2. Append(y, s[m + 1]) = [j \in 1 .. m + 1 |-> IF j = m + 1 THEN s[m + 1] ELSE y[j]]
    BY <1>1, <1>2
  <2>3. \A j \in 1 .. m + 1 : s[j] = IF j = m + 1 THEN s[m + 1] ELSE y[j]
    BY <1>1, <1>2
  <2> QED
    BY <2>1, <2>2, <2>3
<1> QED
  BY <1>2, <1>3, <1>4, <1>5, <1>6

LEMMA ChainIs ==
  ASSUME NEW s, NEW c, NEW t, Linked(s, c, t)
  PROVE  ChainFrom(c, t) = s
<1> DEFINE m(i) == IF i + 1 < Len(s) THEN i + 1 ELSE Len(s)
           k == [kind |-> "chain", table |-> t]
           q == [i \in 1 .. m_numcl - 1 |-> i]
           R == {<<i, Part(s, m(i))>> : i \in Nat}
<1>1. /\ s \in Seq(Clusters) /\ Len(s) \in 0 .. m_numcl /\ m_numcl \in Nat /\ m_numcl > 0
      /\ \A i \in 1 .. Len(s) : s[i] \in Clusters
      /\ \A i \in 1 .. Len(s) : t[s[i]] = IF i = Len(s) THEN ENDOFCHAIN ELSE s[i + 1]
      /\ c = IF s = <<>> THEN 0 ELSE s[1]
      /\ Len(s) = 0 <=> s = <<>>
  BY LinkedFacts, Drive
<1>2. FoldRuns(k, Started(c), q, ChainFrom(c, t))
  BY ChainRuns
<1>3. Len(q) = m_numcl - 1 /\ Len(q) \in Nat /\ \A i \in 1 .. Len(q) : q[i] = i
  BY <1>1
<1>4. Started(c) = Part(s, m(0))
  <2>1. CASE s = <<>>
    <3>1. c = 0 /\ c \notin Clusters
      BY <1>1, <2>1, ClusterFacts
    <3>3. Len(s) = 0 /\ 0 \in 0 .. Len(s)
      BY <1>1, <2>1
    <3>4. m(0) = 0
      BY <3>3
    <3>2. Part(s, 0) = <<>> /\ m(0) = 0
      BY <1>1, <3>3, <3>4, PartFacts
    <3> QED
      BY <3>1, <3>2 DEF Started
  <2>2. CASE s # <<>>
    <3>3. Len(s) \in Nat /\ Len(s) >= 1 /\ 1 \in 1 .. Len(s)
      BY <1>1, <2>2
    <3>5. \A l \in Nat : l >= 1 => (IF 0 + 1 < l THEN 0 + 1 ELSE l) = 1
      OBVIOUS
    <3>4. m(0) = 1
      BY <3>3, <3>5
    <3>1. c = s[1] /\ s[1] \in Clusters /\ m(0) = 1
      BY <1>1, <2>2, <3>3, <3>4
    <3>2. Part(s, 1) = <<s[1]>>
      BY DEF Part
    <3> QED
      BY <3>1, <3>2 DEF Started
  <2> QED
    BY <2>1, <2>2
<1>5. <<0, Started(c)>> \in R
  BY <1>4
<1>6. ASSUME NEW i \in 1 .. Len(q), NEW y, <<i - 1, y>> \in R
      PROVE  <<i, Step(k, y, q[i])>> \in R
  <2>1. i \in Nat /\ i - 1 \in Nat
    BY <1>3
  <2>2. y = Part(s, m(i - 1))
    BY <1>6, <2>1
  <2>3. m(i - 1) \in 0 .. Len(s) /\ m(i) \in 0 .. Len(s)
    BY <1>1, <2>1
  <2>4. Step(k, y, q[i]) = Longer(y, t)
    BY DEF Step
  <2>5. Longer(y, t) = Part(s, m(i))
    <3>1. CASE Len(s) = 0
      <4>1. m(i - 1) = 0 /\ m(i) = 0
        BY <1>1, <2>1, <3>1
      <4>2. y = <<>>
        BY <4>1, <2>2, <1>1, PartFacts
      <4> QED
        BY <4>1, <4>2, <2>2 DEF Longer
    <3>2. CASE Len(s) # 0 /\ i < Len(s)
      <4>1. m(i - 1) = i /\ m(i) = i + 1 /\ i \in 0 .. Len(s) /\ i > 0
        BY <1>1, <2>1, <3>2
      <4>2. y # <<>> /\ Last(y) = s[i] /\ Part(s, i + 1) = Append(y, s[i + 1])
        <5>1. y = Part(s, i) /\ s \in Seq(Clusters)
          BY <4>1, <2>2, <1>1
        <5> QED
          BY <5>1, <4>1, <3>2, PartFacts
      <4>3. t[s[i]] = s[i + 1] /\ s[i + 1] \in Clusters
        BY <1>1, <4>1, <3>2
      <4>4. ~endofchain(t[Last(y)])
        BY <4>2, <4>3, ClusterFacts
      <4> QED
        BY <4>1, <4>2, <4>3, <4>4 DEF Longer
    <3>3. CASE Len(s) # 0 /\ ~(i < Len(s))
      <4>1. m(i - 1) = Len(s) /\ m(i) = Len(s) /\ Len(s) > 0
        BY <1>1, <2>1, <3>3
      <4>2. y # <<>> /\ Last(y) = s[Len(s)]
        BY <4>1, <2>2, <1>1, PartFacts
      <4>3. endofchain(t[Last(y)])
        BY <4>2, <1>1, <4>1 DEF endofchain, ENDOFCHAIN
      <4> QED
        BY <4>1, <4>2, <4>3, <2>2 DEF Longer
    <3> QED
      BY <3>1, <3>2, <3>3
  <2> QED
    BY <2>1, <2>4, <2>5
<1>7. <<Len(q), ChainFrom(c, t)>> \in R
  <2> HIDE DEF R, q, k
  <2> QED
    BY <1>2, <1>3, <1>5, <1>6, RunReach
<1>8. ChainFrom(c, t) = Part(s, m(m_numcl - 1))
  BY <1>7, <1>3
<1>9. m(m_numcl - 1) = Len(s)
  BY <1>1
<1> QED
  BY <1>8, <1>9, <1>1, PartFacts

(* i links on from the k-th cluster of a chain.                            *)
LEMMA FollowIs ==
  ASSUME NEW s, NEW c, Linked(s, c, fat), NEW k \in 1 .. Len(s), NEW n \in Nat, k + n <= Len(s)
  PROVE  Follow(s[k], n) = s[k + n]
<1> DEFINE kk == [kind |-> "follow", table |-> fat]
           q == [j \in 1 .. n |-> j]
           R == {<<i, s[k + i]>> : i \in 0 .. n}
<1>1. /\ Len(s) \in Nat
      /\ \A i \in 1 .. Len(s) : s[i] \in Clusters
      /\ \A i \in 1 .. Len(s) : fat[s[i]] = IF i = Len(s) THEN ENDOFCHAIN ELSE s[i + 1]
  BY LinkedFacts
<1>2. FoldRuns(kk, s[k], q, Follow(s[k], n))
  BY FollowRuns
<1>3. Len(q) = n /\ Len(q) \in Nat
  OBVIOUS
<1>4. <<0, s[k]>> \in R
  <2>1. k + 0 = k /\ 0 \in 0 .. n
    BY <1>1
  <2> QED
    BY <2>1
<1>5. ASSUME NEW i \in 1 .. Len(q), NEW y, <<i - 1, y>> \in R
      PROVE  <<i, Step(kk, y, q[i])>> \in R
  <2>1. i \in 1 .. n /\ i - 1 \in 0 .. n
    BY <1>3
  <2>2. y = s[k + (i - 1)]
    BY <1>5
  <2> DEFINE a == k + (i - 1)
  <2>3. a \in 1 .. Len(s) /\ a # Len(s) /\ a + 1 \in 1 .. Len(s) /\ a + 1 = k + i
    BY <1>1, <2>1
  <2> HIDE DEF a
  <2>4. fat[s[a]] = s[a + 1] /\ s[a] \in Clusters /\ s[a + 1] \in Clusters
    BY <1>1, <2>3
  <2>5. Further(s[a], fat) = s[a + 1]
    BY <2>4, ClusterFacts DEF Further
  <2>6. Step(kk, y, q[i]) = Further(y, fat)
    BY DEF Step
  <2>7. Step(kk, y, q[i]) = s[k + i]
    BY <2>2, <2>3, <2>5, <2>6 DEF a
  <2> QED
    BY <2>1, <2>7
<1>6. <<Len(q), Follow(s[k], n)>> \in R
  <2> HIDE DEF R, q, kk
  <2> QED
    BY <1>2, <1>3, <1>4, <1>5, RunReach
<1> QED
  BY <1>3, <1>6

LEMMA LinkedSame ==
  ASSUME NEW s, NEW c, NEW t, Linked(s, c, t), NEW u, \A i \in 1 .. Len(s) : u[s[i]] = t[s[i]]
  PROVE  Linked(s, c, u)
<1>1. Len(s) \in Nat /\ (Len(s) = 0 <=> s = <<>>)
  BY LinkedFacts
<1>2. \A i \in 1 .. Len(s) - 1 : u[s[i]] = s[i + 1]
  BY <1>1 DEF Linked
<1>3. s # <<>> => u[s[Len(s)]] = ENDOFCHAIN
  BY <1>1 DEF Linked
<1> QED
  BY <1>2, <1>3 DEF Linked

LEMMA AppendFacts ==
  ASSUME NEW S, NEW s \in Seq(S), NEW e \in S
  PROVE  /\ Append(s, e) \in Seq(S) /\ Len(Append(s, e)) = Len(s) + 1
         /\ Append(s, e) # <<>> /\ Append(s, e)[Len(s) + 1] = e
         /\ \A i \in 1 .. Len(s) : Append(s, e)[i] = s[i]
BY AppendProperties

LEMMA LinkedGrown ==
  ASSUME NEW s, NEW c, NEW t, Linked(s, c, t), NEW new \in Clusters, new \notin Range(s),
         NEW u, u[new] = ENDOFCHAIN, s # <<>> => u[s[Len(s)]] = new,
         \A i \in 1 .. Len(s) - 1 : u[s[i]] = t[s[i]]
  PROVE  Linked(Append(s, new), IF s = <<>> THEN new ELSE c, u)
<1> DEFINE r == Append(s, new)
           n == Len(s)
<1>1. /\ s \in Seq(Clusters) /\ n \in Nat /\ (n = 0 <=> s = <<>>)
      /\ \A i \in 1 .. n : s[i] \in Clusters
      /\ \A i, j \in 1 .. n : s[i] = s[j] => i = j
      /\ \A i \in 1 .. n : t[s[i]] = IF i = n THEN ENDOFCHAIN ELSE s[i + 1]
      /\ c = IF s = <<>> THEN 0 ELSE s[1]
  BY LinkedFacts
<1>2. \A i \in 1 .. n : s[i] # new
  BY <1>1, RangeIs
<1>3. r \in Seq(Clusters) /\ Len(r) = n + 1 /\ r # <<>> /\ r[n + 1] = new /\ \A i \in 1 .. n : r[i] = s[i]
  <2>1. s \in Seq(Clusters)
    BY <1>1
  <2> QED
    BY <2>1, AppendFacts
<1> HIDE DEF r
<1>4. IsInjective(r)
  <2>1. ASSUME NEW i \in 1 .. n + 1, NEW j \in 1 .. n + 1, r[i] = r[j]
        PROVE  i = j
    <3>0. n \in Nat /\ (i = n + 1 \/ i \in 1 .. n) /\ (j = n + 1 \/ j \in 1 .. n)
      BY <1>1
    <3>1. CASE i = n + 1 /\ j \in 1 .. n
      <4>1. r[i] = new /\ r[j] = s[j] /\ s[j] # new
        BY <1>2, <1>3, <3>1
      <4> QED
        BY <4>1, <2>1
    <3>2. CASE j = n + 1 /\ i \in 1 .. n
      <4>1. r[j] = new /\ r[i] = s[i] /\ s[i] # new
        BY <1>2, <1>3, <3>2
      <4> QED
        BY <4>1, <2>1
    <3>3. CASE i \in 1 .. n /\ j \in 1 .. n
      <4>1. s[i] = s[j]
        BY <1>3, <2>1, <3>3
      <4> QED
        BY <4>1, <3>3, <1>1
    <3>4. CASE i = n + 1 /\ j = n + 1
      BY <3>4
    <3> HIDE DEF n
    <3> QED
      BY <3>0, <3>1, <3>2, <3>3, <3>4
  <2> QED
    BY <2>1, <1>3, InjectiveIs
<1>5. (IF s = <<>> THEN new ELSE c) = IF r = <<>> THEN 0 ELSE r[1]
  <2>1. CASE s = <<>>
    BY <1>1, <1>3, <2>1
  <2>2. CASE s # <<>>
    <3>1. 1 \in 1 .. n
      BY <1>1, <2>2
    <3> QED
      BY <1>1, <1>3, <2>2, <3>1
  <2> QED
    BY <2>1, <2>2
<1>6. ASSUME NEW i \in 1 .. Len(r) - 1
      PROVE  u[r[i]] = r[i + 1]
  <2>1. i \in 1 .. n
    BY <1>1, <1>3
  <2>2. CASE i = n
    <3>1. s # <<>> /\ r[i] = s[n] /\ r[i + 1] = new
      BY <1>1, <1>3, <2>1, <2>2
    <3> QED
      BY <3>1
  <2>3. CASE i # n
    <3>1. i \in 1 .. n - 1 /\ i + 1 \in 1 .. n
      BY <1>1, <2>1, <2>3
    <3>2. r[i] = s[i] /\ r[i + 1] = s[i + 1] /\ t[s[i]] = s[i + 1]
      BY <1>1, <1>3, <2>1, <2>3, <3>1
    <3> QED
      BY <3>1, <3>2
  <2> QED
    BY <2>2, <2>3
<1>7. u[r[Len(r)]] = ENDOFCHAIN
  BY <1>3
<1>8. Linked(r, IF s = <<>> THEN new ELSE c, u)
  BY <1>3, <1>4, <1>5, <1>6, <1>7 DEF Linked
<1> QED
  BY <1>8 DEF r

(* findfree() finds a cluster when one is free.                            *)
LEMMA OrderIs ==
  ASSUME NEW cl \in Clusters \cup {0}
  PROVE  /\ \A i \in 1 .. m_numcl : SearchOrder(cl)[i] \in Clusters
         /\ \A c \in Clusters : \E i \in 1 .. m_numcl : SearchOrder(cl)[i] = c
<1> DEFINE a == IF cl < 2 THEN 2 ELSE cl
           n == m_numcl
<1>0. n \in Nat /\ n > 0
  BY Drive
<1>1. n \in Nat /\ n > 0 /\ a \in 2 .. n + 1
  <2>1. cl \in Clusters => cl \in Int /\ 2 <= cl /\ cl <= n + 1
    BY Drive
  <2> HIDE DEF n
  <2>2. CASE cl \in Clusters
    <3>1. cl \in Int /\ 2 <= cl /\ cl <= n + 1
      BY <2>1, <2>2
    <3>2. ~(cl < 2)
      BY <3>1
    <3>3. a = cl
      BY <3>2
    <3> HIDE DEF a
    <3> QED
      BY <1>0, <3>1, <3>3
  <2>3. CASE cl = 0
    BY <1>0, <2>3
  <2> QED
    BY <2>2, <2>3
<1>2. SearchOrder(cl) = [i \in 1 .. n |-> 2 + ((a + i - 3) % n)]
  BY DEF SearchOrder
<1>3. Clusters = 2 .. n + 1
  BY DEF Clusters
<1> HIDE DEF n, a
<1>4. ASSUME NEW i \in 1 .. n
      PROVE  SearchOrder(cl)[i] \in Clusters
  <2>1. a + i - 3 \in Int
    BY <1>1
  <2>2. (a + i - 3) % n \in 0 .. n - 1
    BY <1>1, <2>1, DivFacts
  <2> DEFINE r == (a + i - 3) % n
  <2> HIDE DEF r
  <2>3. 2 + r \in 2 .. n + 1
    BY <1>1, <2>2 DEF r
  <2> QED
    BY <1>2, <1>3, <2>3 DEF r
<1>5. ASSUME NEW c \in Clusters
      PROVE  \E i \in 1 .. n : SearchOrder(cl)[i] = c
  <2>1. c \in 2 .. n + 1
    BY <1>3
  <2>2. CASE c >= a
    <3> DEFINE i == c - a + 1
    <3>1. i \in 1 .. n /\ a + i - 3 = 0 * n + (c - 2) /\ c - 2 \in 0 .. n - 1
      BY <1>1, <2>1, <2>2
    <3>2. (0 * n + (c - 2)) % n = c - 2
      BY <1>1, <3>1, DivIs
    <3> HIDE DEF i
    <3>3. (a + i - 3) % n = c - 2
      BY <3>1, <3>2
    <3>4. SearchOrder(cl)[i] = 2 + (c - 2)
      BY <1>2, <3>1, <3>3
    <3> QED
      BY <3>1, <3>4, <2>1
  <2>3. CASE c < a
    <3> DEFINE i == c - a + 1 + n
    <3>1. i \in 1 .. n /\ a + i - 3 = 1 * n + (c - 2) /\ c - 2 \in 0 .. n - 1
      BY <1>1, <2>1, <2>3
    <3>2. (1 * n + (c - 2)) % n = c - 2
      BY <1>1, <3>1, DivIs
    <3> HIDE DEF i
    <3>3. (a + i - 3) % n = c - 2
      BY <3>1, <3>2
    <3>4. SearchOrder(cl)[i] = 2 + (c - 2)
      BY <1>2, <3>1, <3>3
    <3> QED
      BY <3>1, <3>4, <2>1
  <2> QED
    BY <1>1, <2>1, <2>2, <2>3
<1> QED
  BY <1>4, <1>5 DEF n

LEMMA FindFree ==
  ASSUME NEW cl \in Clusters \cup {0}, NEW t
  PROVE  LET new == findfree(cl, t) IN
         \/ new \in Clusters /\ new # 0 /\ t[new] = FREECLUSTER
         \/ new = 0 /\ \A c \in Clusters : t[c] # FREECLUSTER
<1> DEFINE q == SearchOrder(cl)
           free == {i \in 1 .. m_numcl : t[q[i]] = FREECLUSTER}
<1>1. /\ \A i \in 1 .. m_numcl : q[i] \in Clusters
      /\ \A c \in Clusters : \E i \in 1 .. m_numcl : q[i] = c
  BY OrderIs
<1>2. findfree(cl, t) = IF free = {} THEN 0 ELSE q[Min(free)]
  BY DEF findfree
<1> HIDE DEF q
<1>3. CASE free = {}
  BY <1>1, <1>2, <1>3
<1>4. CASE free # {}
  <2>1. free \in SUBSET Nat
    BY Drive
  <2>2. \E i \in free : \A j \in free : i <= j
    <3> HIDE DEF free
    <3> QED
      BY <1>4, <2>1, MinFacts
  <2>3. Min(free) \in free
    <3> HIDE DEF free
    <3> QED
      BY <2>2 DEF Min
  <2>4. q[Min(free)] \in Clusters /\ t[q[Min(free)]] = FREECLUSTER
    BY <1>1, <2>3
  <2>5. findfree(cl, t) = q[Min(free)]
    BY <1>2, <1>4
  <2> HIDE DEF free
  <2> QED
    BY <2>4, <2>5, ClusterFacts
<1> QED
  BY <1>3, <1>4

-----------------------------------------------------------------------------
(***************************************************************************)
(* What the parts of a transfer change.                                    *)
(***************************************************************************)
FATs == [Clusters -> Clusters \cup {FREECLUSTER, ENDOFCHAIN}]

Heads == [o_strtcl : Clusters \cup {0}, o_fileln : Int]

Places == [o_bytnum : Int, o_curcl : Clusters \cup {0}, o_currec : Int, o_curbyt : Int]

Xfer == [fat : FATs, d : Heads, p : Places, left : Int, moved : Seq(Int), ended : BOOLEAN]

LEMMA XferFields ==
  ASSUME NEW x \in Xfer
  PROVE  /\ x.fat \in FATs /\ x.d.o_strtcl \in Clusters \cup {0} /\ x.d.o_fileln \in Int
         /\ x.p.o_bytnum \in Int /\ x.p.o_curcl \in Clusters \cup {0} /\ x.p.o_currec \in Int
         /\ x.p.o_curbyt \in Int /\ x.left \in Int /\ x.moved \in Seq(Int) /\ x.ended \in BOOLEAN
BY DEF Xfer, Heads, Places

(* The fields that say where a transfer is, and those that say what it did. *)
SameWhere(x, y) ==
  /\ y.fat = x.fat /\ y.d.o_strtcl = x.d.o_strtcl /\ y.p.o_curcl = x.p.o_curcl
  /\ y.p.o_currec = x.p.o_currec /\ y.p.o_curbyt = x.p.o_curbyt /\ y.ended = x.ended

SameDone(x, y) ==
  /\ y.d.o_fileln = x.d.o_fileln /\ y.p.o_bytnum = x.p.o_bytnum
  /\ y.left = x.left /\ y.moved = x.moved

LEMMA XferSame ==
  ASSUME NEW x \in Xfer, NEW y \in Xfer, SameWhere(x, y), SameDone(x, y)
  PROVE  x = y
<1>1. x.d = y.d
  <2>1. x.d \in Heads /\ y.d \in Heads
    BY DEF Xfer
  <2>2. x.d.o_strtcl = y.d.o_strtcl /\ x.d.o_fileln = y.d.o_fileln
    BY DEF SameWhere, SameDone
  <2> QED
    BY <2>1, <2>2 DEF Heads
<1>2. x.p = y.p
  <2>1. x.p \in Places /\ y.p \in Places
    BY DEF Xfer
  <2>2. /\ x.p.o_bytnum = y.p.o_bytnum /\ x.p.o_curcl = y.p.o_curcl
        /\ x.p.o_currec = y.p.o_currec /\ x.p.o_curbyt = y.p.o_curbyt
    BY DEF SameWhere, SameDone
  <2> QED
    BY <2>1, <2>2 DEF Places
<1>3. x.fat = y.fat /\ x.left = y.left /\ x.moved = y.moved /\ x.ended = y.ended
  BY DEF SameWhere, SameDone
<1> QED
  BY <1>1, <1>2, <1>3 DEF Xfer

Ended(x) == [x EXCEPT !.ended = TRUE]

LEMMA EndedFields ==
  ASSUME NEW x \in Xfer, NEW y, y = Ended(x)
  PROVE  /\ y \in Xfer /\ y.fat = x.fat /\ y.d = x.d /\ y.p = x.p /\ y.left = x.left
         /\ y.moved = x.moved /\ y.ended = TRUE
BY DEF Ended, Xfer

(* The addresses of n bytes from a on.                                     *)
Span(a, n) == [i \in 1 .. n |-> a + i - 1]

Longest(l, n) == IF n > l THEN n ELSE l

LEMMA SpanFacts ==
  ASSUME NEW a \in Int, NEW n \in Nat
  PROVE  /\ Span(a, n) \in Seq(Int) /\ Len(Span(a, n)) = n
         /\ \A i \in 1 .. n : Span(a, n)[i] = a + i - 1
BY DEF Span

(* y is x after n bytes from address a on.                                 *)
Moved(x, y, a, n) ==
  /\ y \in Xfer /\ y.fat = x.fat /\ y.d.o_strtcl = x.d.o_strtcl
  /\ y.p.o_curcl = x.p.o_curcl /\ y.p.o_currec = x.p.o_currec /\ y.ended = x.ended
  /\ y.left = x.left - n /\ y.moved = x.moved \o Span(a, n)
  /\ y.p.o_bytnum = x.p.o_bytnum + n
  /\ y.p.o_curbyt = IF n < m_clsizb THEN x.p.o_curbyt + n ELSE x.p.o_curbyt
  /\ y.d.o_fileln = Longest(x.d.o_fileln, x.p.o_bytnum + n)

LEMMA MoveFields ==
  ASSUME NEW x \in Xfer, NEW rec \in Int, NEW off \in Int, NEW n \in Nat
  PROVE  Moved(x, Move(x, rec, off, n), rec * m_recsiz + off, n)
<1> DEFINE y == Move(x, rec, off, n)
<1> DEFINE a == rec * m_recsiz + off
           v == [x EXCEPT !.moved = @ \o Span(a, n), !.left = @ - n]
<1>1. a \in Int
  <2>1. m_recsiz \in Int
    BY Drive
  <2>2. rec * m_recsiz \in Int
    BY <2>1
  <2> QED
    BY <2>2
<1> HIDE DEF a
<1>2. Span(a, n) \in Seq(Int)
  BY <1>1, SpanFacts
<1>3. x.moved \o Span(a, n) \in Seq(Int)
  BY <1>2, XferFields, ConcatProperties
<1>4. x.left - n \in Int
  BY XferFields
<1>5. /\ v \in Xfer /\ v.fat = x.fat /\ v.d = x.d /\ v.p = x.p /\ v.ended = x.ended
      /\ v.left = x.left - n /\ v.moved = x.moved \o Span(a, n)
  <2> DEFINE m == x.moved \o Span(a, n)
             l == x.left - n
  <2>1. m \in Seq(Int) /\ l \in Int /\ v = [x EXCEPT !.moved = m, !.left = l]
    BY <1>3, <1>4
  <2> HIDE DEF m, l, v
  <2>2. /\ v \in Xfer /\ v.fat = x.fat /\ v.d = x.d /\ v.p = x.p /\ v.ended = x.ended
        /\ v.left = l /\ v.moved = m
    BY <2>1 DEF Xfer
  <2> QED
    BY <2>2 DEF l, m
<1>6. y = addit(v, n)
  BY DEF Move, Span, a
<1> HIDE DEF v, y
<1> DEFINE b == IF n < m_clsizb THEN v.p.o_curbyt + n ELSE v.p.o_curbyt
           q == v.p.o_bytnum + n
           l == IF v.p.o_bytnum + n > v.d.o_fileln THEN v.p.o_bytnum + n ELSE v.d.o_fileln
<1> DEFINE pp == [v.p EXCEPT !.o_curbyt = b, !.o_bytnum = q]
           dd == [v.d EXCEPT !.o_fileln = l]
<1>11. y = [v EXCEPT !.p.o_curbyt = b, !.p.o_bytnum = q, !.d.o_fileln = l]
  BY <1>6 DEF addit
<1>12. v.p \in Places /\ v.d \in Heads
  BY <1>5 DEF Xfer
<1>8. b \in Int /\ q \in Int /\ l \in Int
  BY <1>5, XferFields
<1>9. /\ b = IF n < m_clsizb THEN x.p.o_curbyt + n ELSE x.p.o_curbyt
      /\ q = x.p.o_bytnum + n /\ l = Longest(x.d.o_fileln, x.p.o_bytnum + n)
  BY <1>5 DEF Longest
<1> HIDE DEF b, q, l
<1>7. y = [v EXCEPT !.p = pp, !.d = dd]
  BY <1>5, <1>11, <1>12 DEF Xfer
<1>13. /\ pp \in Places /\ pp.o_bytnum = q /\ pp.o_curbyt = b
       /\ pp.o_curcl = v.p.o_curcl /\ pp.o_currec = v.p.o_currec
  BY <1>8, <1>12 DEF Places
<1>14. dd \in Heads /\ dd.o_fileln = l /\ dd.o_strtcl = v.d.o_strtcl
  BY <1>8, <1>12 DEF Heads
<1> HIDE DEF pp, dd
<1>15. /\ y \in Xfer /\ y.fat = v.fat /\ y.d = dd /\ y.p = pp /\ y.ended = v.ended
       /\ y.left = v.left /\ y.moved = v.moved
  BY <1>5, <1>7, <1>13, <1>14 DEF Xfer
<1>16. Moved(x, y, a, n)
  BY <1>5, <1>9, <1>13, <1>14, <1>15 DEF Moved
<1> QED
  BY <1>16 DEF a, y

(* nextcl() goes from x to y, where the table is t, the file's first       *)
(* cluster f, and the cluster c.                                           *)
Goes(x, y, t, f, c) ==
  /\ y \in Xfer /\ SameDone(x, y) /\ y.ended = x.ended
  /\ y.fat = t /\ y.d.o_strtcl = f /\ y.p.o_curcl = c
  /\ y.p.o_currec = cl2rec(c) /\ y.p.o_curbyt = 0

LEMMA PlaceSet ==
  ASSUME NEW p \in Places, NEW q
  PROVE  /\ \A c \in Clusters : q = [p EXCEPT !.o_curcl = c] =>
              /\ q \in Places /\ q.o_bytnum = p.o_bytnum /\ q.o_curcl = c
              /\ q.o_currec = p.o_currec /\ q.o_curbyt = p.o_curbyt
         /\ \A r \in Int : q = [p EXCEPT !.o_currec = r] =>
              /\ q \in Places /\ q.o_bytnum = p.o_bytnum /\ q.o_curcl = p.o_curcl
              /\ q.o_currec = r /\ q.o_curbyt = p.o_curbyt
         /\ \A n \in Int : q = [p EXCEPT !.o_curbyt = n] =>
              /\ q \in Places /\ q.o_bytnum = p.o_bytnum /\ q.o_curcl = p.o_curcl
              /\ q.o_currec = p.o_currec /\ q.o_curbyt = n
<1>1. ASSUME NEW c \in Clusters, q = [p EXCEPT !.o_curcl = c]
      PROVE  /\ q \in Places /\ q.o_bytnum = p.o_bytnum /\ q.o_curcl = c
             /\ q.o_currec = p.o_currec /\ q.o_curbyt = p.o_curbyt
  BY <1>1 DEF Places
<1>2. ASSUME NEW r \in Int, q = [p EXCEPT !.o_currec = r]
      PROVE  /\ q \in Places /\ q.o_bytnum = p.o_bytnum /\ q.o_curcl = p.o_curcl
             /\ q.o_currec = r /\ q.o_curbyt = p.o_curbyt
  BY <1>2 DEF Places
<1>3. ASSUME NEW n \in Int, q = [p EXCEPT !.o_curbyt = n]
      PROVE  /\ q \in Places /\ q.o_bytnum = p.o_bytnum /\ q.o_curcl = p.o_curcl
             /\ q.o_currec = p.o_currec /\ q.o_curbyt = n
  BY <1>3 DEF Places
<1> QED
  BY <1>1, <1>2, <1>3

LEMMA EnterGoes ==
  ASSUME NEW x \in Xfer, NEW c \in Clusters
  PROVE  Goes(x, Enter(x, c), x.fat, x.d.o_strtcl, c)
<1> DEFINE r == cl2rec(c)
           y == Enter(x, c)
<1>1. ~endofchain(c) /\ ~(c < 2) /\ r \in Int
  BY ClusterFacts
<1> DEFINE p1 == [x.p EXCEPT !.o_curcl = c]
           p2 == [p1 EXCEPT !.o_currec = r]
           p3 == [p2 EXCEPT !.o_curbyt = 0]
<1>4. y = [x EXCEPT !.p.o_curcl = c, !.p.o_currec = r, !.p.o_curbyt = 0]
  BY <1>1 DEF Enter
<1> HIDE DEF r, y
<1>2. x.p \in Places
  BY DEF Xfer
<1>3. y = [x EXCEPT !.p = p3]
  BY <1>2, <1>4 DEF Xfer, Places
<1>5. /\ p1 \in Places /\ p1.o_bytnum = x.p.o_bytnum /\ p1.o_curcl = c
  <2> HIDE DEF p3, p2
  <2> QED
    BY <1>2, PlaceSet
<1>6. /\ p2 \in Places /\ p2.o_bytnum = p1.o_bytnum /\ p2.o_curcl = p1.o_curcl
      /\ p2.o_currec = r
  <2> HIDE DEF p1, p3
  <2> QED
    BY <1>1, <1>5, PlaceSet
<1>7. /\ p3 \in Places /\ p3.o_bytnum = p2.o_bytnum /\ p3.o_curcl = p2.o_curcl
      /\ p3.o_currec = p2.o_currec /\ p3.o_curbyt = 0
  <2> HIDE DEF p1, p2
  <2>1. 0 \in Int
    OBVIOUS
  <2> QED
    BY <1>6, <2>1, PlaceSet
<1> HIDE DEF p1, p2, p3
<1>8. /\ y \in Xfer /\ y.fat = x.fat /\ y.d = x.d /\ y.p = p3 /\ y.left = x.left
      /\ y.moved = x.moved /\ y.ended = x.ended
  BY <1>3, <1>7 DEF Xfer
<1> QED
  BY <1>5, <1>6, <1>7, <1>8 DEF Goes, SameDone, r, y

(* The table when a new cluster follows the current one.                   *)
Grown(x, new) ==
  IF x.p.o_curcl = 0 THEN [x.fat EXCEPT ![new] = ENDOFCHAIN]
  ELSE [[x.fat EXCEPT ![new] = ENDOFCHAIN] EXCEPT ![x.p.o_curcl] = new]

GrownStart(x, new) == IF x.p.o_curcl = 0 THEN new ELSE x.d.o_strtcl

LEMMA GrownType ==
  ASSUME NEW x \in Xfer, NEW new \in Clusters
  PROVE  Grown(x, new) \in FATs /\ GrownStart(x, new) \in Clusters \cup {0}
<1>1. x.fat \in FATs /\ x.p.o_curcl \in Clusters \cup {0} /\ x.d.o_strtcl \in Clusters \cup {0}
  BY XferFields
<1> DEFINE t == [x.fat EXCEPT ![new] = ENDOFCHAIN]
<1>2. t \in FATs
  BY <1>1 DEF FATs
<1> HIDE DEF t
<1>3. [t EXCEPT ![x.p.o_curcl] = new] \in FATs
  BY <1>2 DEF FATs
<1>4. Grown(x, new) \in FATs
  BY <1>2, <1>3 DEF Grown, t
<1> QED
  BY <1>1, <1>4 DEF GrownStart

LEMMA GrowGoes ==
  ASSUME NEW x \in Xfer, NEW new \in Clusters
  PROVE  Goes(x, Grow(x, new), Grown(x, new), GrownStart(x, new), new)
<1>1. new # 0
  BY ClusterFacts
<1> DEFINE t == Grown(x, new)
           f == GrownStart(x, new)
<1>2. t \in FATs /\ f \in Clusters \cup {0}
  BY GrownType
<1> DEFINE v == [x EXCEPT !.fat = t, !.d.o_strtcl = f]
<1>3. Goes(x, Enter(v, new), t, f, new)
  <2> HIDE DEF t, f
  <2> DEFINE dd == [x.d EXCEPT !.o_strtcl = f]
  <2>1. x.d \in Heads
    BY DEF Xfer
  <2>2. v = [x EXCEPT !.fat = t, !.d = dd]
    BY <2>1 DEF Xfer
  <2>3. dd \in Heads /\ dd.o_strtcl = f /\ dd.o_fileln = x.d.o_fileln
    BY <1>2, <2>1 DEF Heads
  <2> HIDE DEF dd, v
  <2>4. /\ v \in Xfer /\ v.fat = t /\ v.d = dd
        /\ v.p = x.p /\ v.left = x.left /\ v.moved = x.moved /\ v.ended = x.ended
    BY <1>2, <2>2, <2>3 DEF Xfer
  <2>5. Goes(v, Enter(v, new), v.fat, v.d.o_strtcl, new)
    BY <2>4, EnterGoes
  <2> QED
    BY <2>3, <2>4, <2>5 DEF Goes, SameDone
<1>4. CASE x.p.o_curcl = 0
  <2>1. t = [x.fat EXCEPT ![new] = ENDOFCHAIN] /\ f = new
    BY <1>4 DEF Grown, GrownStart
  <2>2. Grow(x, new) = Enter([x EXCEPT !.fat[new] = ENDOFCHAIN, !.d.o_strtcl = new], new)
    BY <1>1, <1>4 DEF Grow
  <2>3. [x EXCEPT !.fat[new] = ENDOFCHAIN, !.d.o_strtcl = new] = v
    BY <2>1
  <2> HIDE DEF t, f, v
  <2>4. Grow(x, new) = Enter(v, new)
    BY <2>2, <2>3
  <2> QED
    BY <1>3, <2>4 DEF t, f
<1>5. CASE x.p.o_curcl # 0
  <2>1. /\ t = [[x.fat EXCEPT ![new] = ENDOFCHAIN] EXCEPT ![x.p.o_curcl] = new]
        /\ f = x.d.o_strtcl
    BY <1>5 DEF Grown, GrownStart
  <2>2. Grow(x, new) = Enter([x EXCEPT !.fat[new] = ENDOFCHAIN, !.fat[x.p.o_curcl] = new], new)
    BY <1>1, <1>5 DEF Grow
  <2>5. x.d \in Heads
    BY DEF Xfer
  <2>6. [x.d EXCEPT !.o_strtcl = f] = x.d
    BY <2>1, <2>5 DEF Heads
  <2>3. [x EXCEPT !.fat[new] = ENDOFCHAIN, !.fat[x.p.o_curcl] = new] = v
    BY <2>1, <2>6 DEF Xfer
  <2> HIDE DEF t, f, v
  <2>4. Grow(x, new) = Enter(v, new)
    BY <2>2, <2>3
  <2> QED
    BY <1>3, <2>4 DEF t, f
<1> QED
  BY <1>4, <1>5

LEMMA LinkType ==
  ASSUME NEW x \in Xfer
  PROVE  /\ Link(x) \in Clusters \cup {FREECLUSTER, ENDOFCHAIN}
         /\ endofchain(Link(x)) <=> Link(x) = ENDOFCHAIN
         /\ Link(x) \in Clusters \/ Link(x) = ENDOFCHAIN \/ (Link(x) = 0 /\ ~endofchain(Link(x)))
<1>1. x.fat \in FATs /\ x.p.o_curcl \in Clusters \cup {0} /\ x.d.o_strtcl \in Clusters \cup {0}
  BY XferFields
<1>2. Link(x) \in Clusters \cup {FREECLUSTER, ENDOFCHAIN}
  BY <1>1 DEF Link, FATs
<1>3. ~endofchain(FREECLUSTER) /\ endofchain(ENDOFCHAIN) /\ FREECLUSTER = 0
  BY DEF endofchain, FREECLUSTER, ENDOFCHAIN
<1> QED
  BY <1>2, <1>3, ClusterFacts

LEMMA NextIs ==
  ASSUME NEW x \in Xfer, NEW w \in BOOLEAN, NEW y, y = nextcl(x, w),
         NEW new, new = findfree(x.p.o_curcl, x.fat)
  PROVE  /\ Link(x) \in Clusters => Goes(x, y, x.fat, x.d.o_strtcl, Link(x))
         /\ Link(x) \notin Clusters /\ ~(w /\ Link(x) = ENDOFCHAIN) => y = Ended(x)
         /\ Link(x) = ENDOFCHAIN /\ w /\ new = 0 => y = Ended(x)
         /\ Link(x) = ENDOFCHAIN /\ w /\ new # 0 =>
              new \in Clusters /\ Goes(x, y, Grown(x, new), GrownStart(x, new), new)
<1>1. /\ endofchain(Link(x)) <=> Link(x) = ENDOFCHAIN
      /\ Link(x) \in Clusters \/ Link(x) = ENDOFCHAIN \/ (Link(x) = 0 /\ ~endofchain(Link(x)))
  BY LinkType
<1>2. x.p.o_curcl \in Clusters \cup {0}
  BY XferFields
<1>3. CASE Link(x) \in Clusters
  <2>1. Link(x) # ENDOFCHAIN
    BY <1>3, ClusterFacts
  <2>2. y = Enter(x, Link(x))
    BY <1>1, <2>1 DEF nextcl
  <2>3. Goes(x, y, x.fat, x.d.o_strtcl, Link(x))
    BY <2>2, <1>3, EnterGoes
  <2> QED
    BY <1>3, <2>1, <2>3
<1>4. CASE Link(x) = ENDOFCHAIN /\ w
  <2>1. y = Grow(x, new)
    BY <1>1, <1>4 DEF nextcl
  <2>2. ENDOFCHAIN \notin Clusters
    BY ClusterFacts
  <2>3. CASE new = 0
    <3>1. y = Ended(x)
      BY <2>1, <2>3 DEF Grow, Ended
    <3> QED
      BY <1>4, <2>2, <2>3, <3>1
  <2>4. CASE new # 0
    <3>1. new \in Clusters
      BY <1>2, <2>4, FindFree
    <3>2. Goes(x, y, Grown(x, new), GrownStart(x, new), new)
      BY <2>1, <3>1, GrowGoes
    <3> QED
      BY <1>4, <2>2, <2>4, <3>1, <3>2
  <2> QED
    BY <2>3, <2>4
<1>5. CASE Link(x) \notin Clusters /\ ~(w /\ Link(x) = ENDOFCHAIN)
  <2>1. y = Enter(x, Link(x))
    BY <1>1, <1>5 DEF nextcl
  <2>2. endofchain(Link(x)) \/ Link(x) < 2
    <3>1. 0 < 2
      OBVIOUS
    <3> QED
      BY <1>1, <1>5, <3>1
  <2>3. y = Ended(x)
    BY <2>1, <2>2 DEF Enter, Ended
  <2> QED
    BY <1>5, <2>3
<1> QED
  BY <1>3, <1>4, <1>5

-----------------------------------------------------------------------------
(***************************************************************************)
(* A transfer that began with z, in a file with chain r, has come to x,    *)
(* and the chain to s. w: it writes.                                       *)
(***************************************************************************)
(* Position p is in cluster k of the chain (from 0), or at its end.        *)
Stands(p, s, k) ==
  /\ p.o_curcl = s[k + 1] /\ p.o_currec = cl2rec(s[k + 1])
  /\ \/ p.o_curbyt \in 1 .. m_clsizb /\ p.o_bytnum = Off(k) + p.o_curbyt
     \/ p.o_curbyt = 0 /\ p.o_bytnum = Off(k + 1)

AtFirst(p) == p.o_bytnum = 0 /\ p.o_curcl = 0 /\ p.o_currec = 0 /\ p.o_curbyt = 0

Placed(p, s) == AtFirst(p) \/ \E k \in 0 .. Len(s) - 1 : Stands(p, s, k)

(* Position p is in cluster k of the chain, and not at its end.            *)
Within(p, s, k) ==
  /\ p.o_curcl = s[k + 1] /\ p.o_currec = cl2rec(s[k + 1])
  /\ p.o_curbyt \in 0 .. m_clsizb - 1 /\ p.o_bytnum = Off(k) + p.o_curbyt

(* The clusters of the other files. *)
Apart(z, r) == {c \in Clusters : z.fat[c] # FREECLUSTER /\ c \notin Range(r)}

Chains(z, r, x, s) ==
  /\ Linked(s, x.d.o_strtcl, x.fat)
  /\ Len(r) <= Len(s) /\ \A i \in 1 .. Len(r) : s[i] = r[i]
  /\ \A c \in Apart(z, r) : x.fat[c] = z.fat[c] /\ c \notin Range(s)
  /\ \A c \in Clusters : x.fat[c] # FREECLUSTER => c \in Apart(z, r) \/ c \in Range(s)

Did(z, x, s) ==
  /\ x.left \in Nat /\ z.left = x.left + Len(x.moved)
  /\ x.p.o_bytnum = z.p.o_bytnum + Len(x.moved)
  /\ \A i \in 1 .. Len(x.moved) : x.moved[i] = AddressOf(s, z.p.o_bytnum + i - 1)
  /\ x.d.o_fileln = Longest(z.d.o_fileln, x.p.o_bytnum)

(* Between two moves the chain is as long as the file needs.               *)
Good(z, r, x, s, w) ==
  /\ x \in Xfer /\ Chains(z, r, x, s) /\ Did(z, x, s)
  /\ Fits(Len(s), x.d.o_fileln) /\ Placed(x.p, s)
  /\ x.ended => w /\ \A c \in Clusters : x.fat[c] # FREECLUSTER

(* Before a move it may have the cluster of the next byte already.         *)
Open(z, r, x, s) ==
  /\ x \in Xfer /\ Chains(z, r, x, s) /\ Did(z, x, s)
  /\ Fits(Len(s), Longest(x.d.o_fileln, x.p.o_bytnum + 1))
  /\ \E k \in 0 .. Len(s) - 1 : Within(x.p, s, k)
  /\ ~x.ended

Start(z, r, w) ==
  /\ z \in Xfer /\ Linked(r, z.d.o_strtcl, z.fat) /\ Placed(z.p, r)
  /\ Fits(Len(r), z.d.o_fileln) /\ z.d.o_fileln \in Nat
  /\ z.moved = <<>> /\ ~z.ended /\ z.left \in Nat
  /\ z.p.o_bytnum \in Nat /\ z.p.o_bytnum <= z.d.o_fileln
  /\ w \in BOOLEAN
  /\ ~w => z.p.o_bytnum + z.left <= z.d.o_fileln

LEMMA StartGood ==
  ASSUME NEW z, NEW r, NEW w, Start(z, r, w)
  PROVE  Good(z, r, z, r, w)
<1>1. r \in Seq(Clusters) /\ Len(r) \in Nat
  BY LinkedFacts DEF Start
<1>2. Chains(z, r, z, r)
  <2>1. \A c \in Clusters : z.fat[c] # FREECLUSTER => c \in Apart(z, r) \/ c \in Range(r)
    BY DEF Apart
  <2>2. \A c \in Apart(z, r) : c \notin Range(r)
    BY DEF Apart
  <2> QED
    BY <1>1, <2>1, <2>2 DEF Chains, Start
<1>3. Did(z, z, r)
  <2>1. z.moved = <<>> /\ Len(z.moved) = 0 /\ z.left \in Nat /\ z.p.o_bytnum \in Nat
    BY DEF Start
  <2>2. z.d.o_fileln = Longest(z.d.o_fileln, z.p.o_bytnum)
    BY DEF Longest, Start
  <2> QED
    BY <2>1, <2>2 DEF Did
<1> QED
  BY <1>2, <1>3 DEF Good, Start

LEMMA AddressSame ==
  ASSUME NEW s, NEW s1, Len(s) \in Nat, \A i \in 1 .. Len(s) : s1[i] = s[i],
         NEW n \in Nat, n < Off(Len(s))
  PROVE  AddressOf(s1, n) = AddressOf(s, n)
<1> DEFINE k == n \div m_clsizb
<1>1. m_clsizb \in Nat /\ m_clsizb > 0
  BY Drive
<1>2. k \in Int /\ k >= 0 /\ n % m_clsizb >= 0 /\ n % m_clsizb \in Int /\ n = Off(k) + (n % m_clsizb)
  BY <1>1, DivFacts DEF Off
<1> HIDE DEF k
<1>3. k < Len(s)
  <2> SUFFICES ASSUME Len(s) <= k
               PROVE  FALSE
    BY <1>2
  <2>1. Off(Len(s)) <= Off(k) /\ Off(Len(s)) \in Int /\ Off(k) \in Int
    BY <1>2, OffFacts
  <2> QED
    BY <1>2, <2>1
<1>4. k + 1 \in 1 .. Len(s)
  BY <1>2, <1>3
<1>5. s1[k + 1] = s[k + 1]
  BY <1>4
<1> QED
  BY <1>5 DEF AddressOf, k

(* The chain may grow while nothing is moved.                              *)
LEMMA DidGrown ==
  ASSUME NEW z, NEW x, NEW s, Did(z, x, s), NEW s1, Len(s) \in Nat,
         \A i \in 1 .. Len(s) : s1[i] = s[i], x.p.o_bytnum <= Off(Len(s)),
         z.p.o_bytnum \in Nat, Len(x.moved) \in Nat, NEW y, SameDone(x, y)
  PROVE  Did(z, y, s1)
<1>1. ASSUME NEW i \in 1 .. Len(x.moved)
      PROVE  x.moved[i] = AddressOf(s1, z.p.o_bytnum + i - 1)
  <2> DEFINE n == z.p.o_bytnum + i - 1
  <2>1. Off(Len(s)) \in Nat /\ x.p.o_bytnum = z.p.o_bytnum + Len(x.moved)
    BY OffFacts DEF Did
  <2>2. n \in Nat /\ n < Off(Len(s))
    BY <2>1
  <2>3. x.moved[i] = AddressOf(s, n)
    BY DEF Did
  <2> HIDE DEF n
  <2>4. AddressOf(s1, n) = AddressOf(s, n)
    BY <2>2, AddressSame
  <2> QED
    BY <2>3, <2>4 DEF n
<1> QED
  BY <1>1 DEF Did, SameDone

Joined(s, t, u) ==
  /\ Len(u) = Len(s) + Len(t)
  /\ \A i \in 1 .. Len(s) : u[i] = s[i]
  /\ \A i \in 1 .. Len(t) : u[Len(s) + i] = t[i]

LEMMA ConcatFacts ==
  ASSUME NEW S, NEW s \in Seq(S), NEW t \in Seq(S)
  PROVE  s \o t \in Seq(S) /\ Joined(s, t, s \o t)
<1>1. Len(s) \in Nat /\ Len(t) \in Nat
  BY SeqFacts
<1>2. /\ s \o t \in Seq(S) /\ Len(s \o t) = Len(s) + Len(t)
      /\ \A i \in 1 .. Len(s) + Len(t) :
           (s \o t)[i] = IF i <= Len(s) THEN s[i] ELSE t[i - Len(s)]
  BY ConcatProperties
<1>3. \A i \in 1 .. Len(s) : (s \o t)[i] = s[i]
  BY <1>1, <1>2
<1>4. ASSUME NEW i \in 1 .. Len(t)
      PROVE  (s \o t)[Len(s) + i] = t[i]
  <2>1. Len(s) + i \in 1 .. Len(s) + Len(t) /\ ~(Len(s) + i <= Len(s)) /\ (Len(s) + i) - Len(s) = i
    BY <1>1
  <2> QED
    BY <1>2, <2>1
<1> QED
  BY <1>2, <1>3, <1>4 DEF Joined

(* Byte off of record rec is the next one, and n bytes from there on are   *)
(* in the cluster.                                                         *)
Room(x, rec, off, n) ==
  /\ rec \in Int /\ off \in Int /\ n \in Nat /\ n > 0 /\ n <= x.left
  /\ x.p.o_curbyt + n <= m_clsizb
  /\ rec * m_recsiz + off = x.p.o_currec * m_recsiz + x.p.o_curbyt

(* n bytes of the cluster are moved.                                       *)
LEMMA MoveGood ==
  ASSUME NEW z, NEW r, NEW w, Start(z, r, w), NEW x, NEW s, Open(z, r, x, s),
         NEW rec, NEW off, NEW n, Room(x, rec, off, n),
         NEW y, y = Move(x, rec, off, n)
  PROVE  Good(z, r, y, s, w) /\ ~y.ended
<1>0. rec \in Int /\ off \in Int /\ n \in Nat /\ n > 0 /\ n <= x.left
  BY DEF Room
<1>1. PICK k \in 0 .. Len(s) - 1 : Within(x.p, s, k)
  BY DEF Open
<1>2. PICK b, q, m, a, h, u : /\ b = x.p.o_curbyt /\ q = x.p.o_bytnum /\ m = x.moved
                              /\ a = rec * m_recsiz + off /\ h = cl2rec(s[k + 1]) * m_recsiz
                              /\ u = Len(m)
  OBVIOUS
<1>3. /\ x \in Xfer /\ Chains(z, r, x, s) /\ Did(z, x, s) /\ ~x.ended
      /\ Fits(Len(s), Longest(x.d.o_fileln, q + 1))
  BY <1>2 DEF Open
<1>4. /\ m_clsizb \in Nat /\ m_clsizb > 0 /\ m_recsiz \in Nat /\ Len(s) \in Nat /\ k \in Nat /\ k + 1 <= Len(s)
      /\ b \in 0 .. m_clsizb - 1 /\ q = Off(k) + b /\ Off(k) \in Nat /\ q \in Nat
      /\ x.d.o_fileln \in Int /\ m \in Seq(Int) /\ u \in Nat /\ z.p.o_bytnum \in Nat
      /\ z.d.o_fileln \in Nat /\ n \in Nat /\ n > 0
  <2>1. Len(s) \in Nat
    BY <1>3, LinkedFacts DEF Chains
  <2>2. k \in Nat /\ k + 1 <= Len(s)
    BY <2>1
  <2>3. b \in 0 .. m_clsizb - 1 /\ q = Off(k) + b
    BY <1>1, <1>2 DEF Within
  <2>4. x.d.o_fileln \in Int /\ m \in Seq(Int) /\ u \in Nat
    BY <1>2, <1>3, XferFields, SeqFacts
  <2>5. Off(k) \in Nat /\ m_clsizb \in Nat /\ m_clsizb > 0 /\ m_recsiz \in Nat
    BY <2>2, OffFacts, Drive
  <2>6. q \in Nat
    BY <2>3, <2>5
  <2> QED
    BY <1>0, <2>1, <2>2, <2>3, <2>4, <2>5, <2>6 DEF Start
<1>5. /\ y \in Xfer /\ y.fat = x.fat /\ y.d.o_strtcl = x.d.o_strtcl
      /\ y.p.o_curcl = x.p.o_curcl /\ y.p.o_currec = x.p.o_currec /\ y.ended = x.ended
      /\ y.left = x.left - n /\ y.moved = m \o Span(a, n)
      /\ y.p.o_bytnum = q + n
      /\ y.p.o_curbyt = IF n < m_clsizb THEN b + n ELSE b
      /\ y.d.o_fileln = Longest(x.d.o_fileln, q + n)
  <2>1. Moved(x, y, rec * m_recsiz + off, n)
    BY <1>0, <1>3, MoveFields
  <2> QED
    BY <2>1, <1>2 DEF Moved
<1>6. Chains(z, r, y, s)
  BY <1>3, <1>5 DEF Chains
<1>7. h \in Int /\ a = h + b /\ a \in Int
  <2>1. x.p.o_currec \in Int /\ x.p.o_currec = cl2rec(s[k + 1])
    BY <1>1, <1>3, XferFields DEF Within
  <2>2. h \in Int
    BY <2>1, <1>2, <1>4
  <2>3. a = h + b
    BY <2>1, <1>2 DEF Room
  <2> QED
    BY <2>2, <2>3, <1>4
<1>8. b + n \in 1 .. m_clsizb
  <2>1. b + n <= m_clsizb
    BY <1>2 DEF Room
  <2> QED
    BY <2>1, <1>4
<1>9. Did(z, y, s)
  <2>0. x.left \in Nat /\ z.left = x.left + u /\ q = z.p.o_bytnum + u
    BY <1>2, <1>3 DEF Did
  <2>1. /\ Len(y.moved) = u + n
        /\ \A i \in 1 .. u : y.moved[i] = m[i]
        /\ \A i \in 1 .. n : y.moved[u + i] = a + i - 1
    <3>1. Span(a, n) \in Seq(Int) /\ Len(Span(a, n)) = n /\ \A i \in 1 .. n : Span(a, n)[i] = a + i - 1
      BY <1>0, <1>7, SpanFacts
    <3>2. /\ Len(m \o Span(a, n)) = Len(m) + n
          /\ \A i \in 1 .. Len(m) : (m \o Span(a, n))[i] = m[i]
          /\ \A i \in 1 .. n : (m \o Span(a, n))[Len(m) + i] = Span(a, n)[i]
      <4>1. m \in Seq(Int)
        BY <1>4
      <4>2. PICK t : t = Span(a, n)
        OBVIOUS
      <4>3. t \in Seq(Int) /\ Len(t) = n
        BY <3>1, <4>2
      <4>4. Joined(m, t, m \o t)
        BY <4>1, <4>3, ConcatFacts
      <4> QED
        BY <4>2, <4>3, <4>4 DEF Joined
    <3> QED
      BY <3>1, <3>2, <1>2, <1>5
  <2>2. y.left \in Nat /\ z.left = y.left + Len(y.moved) /\ y.p.o_bytnum = z.p.o_bytnum + Len(y.moved)
    <3>1. \A l \in Nat : n <= l => l - n \in Nat /\ l + u = (l - n) + (u + n)
      BY <1>4
    <3>2. q + n = z.p.o_bytnum + (u + n)
      <4>1. PICK g : g = z.p.o_bytnum
        OBVIOUS
      <4>2. g \in Nat /\ u \in Nat /\ n \in Nat
        BY <4>1, <1>4
      <4>3. q = g + u
        BY <4>1, <2>0
      <4> QED
        BY <4>1, <4>2, <4>3
    <3> QED
      BY <3>1, <3>2, <2>0, <2>1, <1>0, <1>5
  <2>3. ASSUME NEW i \in 1 .. u
        PROVE  y.moved[i] = AddressOf(s, z.p.o_bytnum + i - 1)
    BY <1>2, <1>3, <2>1 DEF Did
  <2>4. ASSUME NEW i \in 1 .. n
        PROVE  y.moved[u + i] = AddressOf(s, z.p.o_bytnum + (u + i) - 1)
    <3>0. PICK e : e = b + i - 1
      OBVIOUS
    <3>1. e \in 0 .. m_clsizb - 1
      BY <3>0, <1>4, <1>8
    <3>4. z.p.o_bytnum + (u + i) - 1 = Off(k) + e
      <4>1. PICK g, c : g = z.p.o_bytnum /\ c = Off(k)
        OBVIOUS
      <4>2. b \in Nat /\ c \in Nat /\ u \in Nat /\ g \in Nat /\ i \in Nat
        BY <4>1, <1>4, <1>0
      <4>3. g + u = c + b
        BY <4>1, <2>0, <1>4
      <4>4. g + (u + i) - 1 = c + e
        BY <3>0, <4>2, <4>3
      <4> QED
        BY <4>1, <4>4
    <3>2. AddressOf(s, Off(k) + e) = h + e
      BY <1>2, <1>4, <3>1, AddressIs
    <3>3. a + i - 1 = h + e
      BY <3>0, <1>4, <1>7
    <3> QED
      BY <2>1, <3>2, <3>3, <3>4
  <2>5. ASSUME NEW i \in 1 .. Len(y.moved)
        PROVE  y.moved[i] = AddressOf(s, z.p.o_bytnum + i - 1)
    <3>0. i \in 1 .. u + n
      BY <2>1
    <3>1. CASE i \in 1 .. u
      BY <2>3, <3>1
    <3>2. CASE i \notin 1 .. u
      <4>1. i - u \in 1 .. n /\ u + (i - u) = i
        BY <3>0, <3>2, <1>4
      <4> QED
        BY <2>4, <4>1
    <3> QED
      BY <3>1, <3>2
  <2>6. y.d.o_fileln = Longest(z.d.o_fileln, y.p.o_bytnum)
    <3>1. x.d.o_fileln = Longest(z.d.o_fileln, q)
      BY <1>2, <1>3 DEF Did
    <3>2. \A l, f \in Int : f = Longest(l, q) => Longest(f, q + n) = Longest(l, q + n)
      BY <1>4 DEF Longest
    <3> QED
      BY <3>1, <3>2, <1>4, <1>5
  <2> QED
    BY <2>2, <2>5, <2>6 DEF Did
<1>10. Off(k + 1) = Off(k) + m_clsizb /\ Off(k + 1) <= Off(Len(s)) /\ Off(Len(s)) \in Int /\ Off(Len(s) - 1) \in Int
  BY <1>4, OffFacts
<1>11. Fits(Len(s), y.d.o_fileln)
  <2>1. Off(Len(s) - 1) < Longest(x.d.o_fileln, q + 1) /\ Longest(x.d.o_fileln, q + 1) <= Off(Len(s))
    BY <1>3 DEF Fits
  <2>2. q + n <= Off(Len(s))
    BY <1>4, <1>8, <1>10
  <2>3. \A f, i, j \in Int : i < Longest(f, q + 1) /\ Longest(f, q + 1) <= j /\ q + n <= j =>
                               i < Longest(f, q + n) /\ Longest(f, q + n) <= j
    BY <1>4 DEF Longest
  <2>4. Off(Len(s) - 1) < Longest(x.d.o_fileln, q + n) /\ Longest(x.d.o_fileln, q + n) <= Off(Len(s))
    BY <2>1, <2>2, <2>3, <1>4, <1>10
  <2> QED
    BY <2>4, <1>5 DEF Fits
<1>12. Stands(y.p, s, k)
  <2>1. y.p.o_curcl = s[k + 1] /\ y.p.o_currec = cl2rec(s[k + 1])
    BY <1>1, <1>5 DEF Within
  <2>2. CASE n < m_clsizb
    <3>1. y.p.o_curbyt = b + n
      BY <1>5, <2>2
    <3>2. y.p.o_bytnum = Off(k) + (b + n)
      BY <1>4, <1>5
    <3> QED
      BY <2>1, <3>1, <3>2, <1>8 DEF Stands
  <2>3. CASE ~(n < m_clsizb)
    <3>1. n = m_clsizb /\ b = 0
      BY <1>4, <1>8, <2>3
    <3>2. y.p.o_curbyt = 0
      BY <1>5, <2>3, <3>1
    <3>3. y.p.o_bytnum = Off(k + 1)
      BY <1>4, <1>5, <1>10, <3>1
    <3> QED
      BY <2>1, <3>2, <3>3 DEF Stands
  <2> QED
    BY <2>2, <2>3
<1>13. Placed(y.p, s)
  BY <1>12 DEF Placed
<1> QED
  BY <1>3, <1>5, <1>6, <1>9, <1>11, <1>13 DEF Good

(* Position p is at the end of the first m clusters.                       *)
After(p, s, m) ==
  /\ m \in 0 .. Len(s) /\ p.o_bytnum = Off(m) /\ p.o_curcl = IF m = 0 THEN 0 ELSE s[m]

LEMMA Stops ==
  ASSUME NEW p, NEW s, Len(s) \in Nat, Placed(p, s), p.o_curbyt \in {0, m_clsizb}
  PROVE  \E m : After(p, s, m)
<1>0. m_clsizb \in Nat /\ m_clsizb > 0
  BY Drive
<1>1. CASE AtFirst(p)
  <2>1. After(p, s, 0)
    BY <1>1, OffFacts DEF AtFirst, After
  <2> QED
    BY <2>1
<1>2. CASE \E k \in 0 .. Len(s) - 1 : Stands(p, s, k)
  <2>1. PICK k \in 0 .. Len(s) - 1 : Stands(p, s, k)
    BY <1>2
  <2>2. k \in Nat /\ k + 1 \in 0 .. Len(s) /\ k + 1 # 0
    OBVIOUS
  <2>3. Off(k + 1) = Off(k) + m_clsizb
    BY <2>2, OffFacts
  <2>4. p.o_bytnum = Off(k + 1) /\ p.o_curcl = s[k + 1]
    BY <2>1, <2>3, <1>0 DEF Stands
  <2>5. After(p, s, k + 1)
    BY <2>2, <2>4 DEF After
  <2> QED
    BY <2>5
<1> QED
  BY <1>1, <1>2 DEF Placed

LEMMA LinkAfter ==
  ASSUME NEW x, NEW s, Linked(s, x.d.o_strtcl, x.fat), NEW m, After(x.p, s, m)
  PROVE  Link(x) = IF m < Len(s) THEN s[m + 1] ELSE ENDOFCHAIN
<1>1. /\ Len(s) \in Nat /\ m \in 0 .. Len(s)
      /\ \A i \in 1 .. Len(s) : s[i] \in Clusters
      /\ \A i \in 1 .. Len(s) : x.fat[s[i]] = IF i = Len(s) THEN ENDOFCHAIN ELSE s[i + 1]
      /\ x.d.o_strtcl = IF s = <<>> THEN 0 ELSE s[1]
      /\ Len(s) = 0 <=> s = <<>>
      /\ x.p.o_curcl = IF m = 0 THEN 0 ELSE s[m]
  BY LinkedFacts DEF After
<1>2. CASE m = 0
  <2>1. x.p.o_curcl = 0
    BY <1>1, <1>2
  <2>2. CASE s = <<>>
    BY <1>1, <1>2, <2>1, <2>2 DEF Link
  <2>3. CASE s # <<>>
    <3>1. 1 \in 1 .. Len(s) /\ 0 < Len(s) /\ 0 + 1 = 1
      BY <1>1, <2>3
    <3>2. x.d.o_strtcl = s[1] /\ s[1] # 0
      BY <1>1, <2>3, <3>1, ClusterFacts
    <3> QED
      BY <1>2, <2>1, <3>1, <3>2 DEF Link
  <2> QED
    BY <2>2, <2>3
<1>3. CASE m # 0
  <2>1. m \in 1 .. Len(s)
    BY <1>1, <1>3
  <2>2. x.p.o_curcl = s[m] /\ s[m] # 0 /\ (m = Len(s) <=> ~(m < Len(s)))
    BY <1>1, <1>3, <2>1, ClusterFacts
  <2>3. x.fat[s[m]] = IF m = Len(s) THEN ENDOFCHAIN ELSE s[m + 1]
    BY <1>1, <2>1
  <2> QED
    BY <2>2, <2>3 DEF Link
<1> QED
  BY <1>2, <1>3

(* The chain gets the cluster new.                                         *)
LEMMA GrownChains ==
  ASSUME NEW z, NEW r, NEW x \in Xfer, NEW s, Chains(z, r, x, s), Len(r) \in Nat,
         After(x.p, s, Len(s)), NEW new \in Clusters, x.fat[new] = FREECLUSTER,
         NEW y, y.fat = Grown(x, new), y.d.o_strtcl = GrownStart(x, new)
  PROVE  Chains(z, r, y, Append(s, new))
<1> DEFINE s1 == Append(s, new)
           n == Len(s)
           cl == x.p.o_curcl
           u == y.fat
<1>1. /\ s \in Seq(Clusters) /\ n \in Nat
      /\ \A i \in 1 .. n : s[i] \in Clusters
      /\ \A i, j \in 1 .. n : s[i] = s[j] => i = j
      /\ \A i \in 1 .. n : x.fat[s[i]] = IF i = n THEN ENDOFCHAIN ELSE s[i + 1]
      /\ n = 0 <=> s = <<>>
  BY LinkedFacts DEF Chains
<1>2. x.fat \in FATs
  BY XferFields
<1>3. cl = IF n = 0 THEN 0 ELSE s[n]
  BY DEF After
<1>4. new \notin Range(s)
  <2>1. ASSUME NEW i \in 1 .. n, s[i] = new
        PROVE  FALSE
    <3>1. x.fat[s[i]] = ENDOFCHAIN \/ x.fat[s[i]] \in Clusters
      <4>1. CASE i = n
        BY <1>1, <4>1
      <4>2. CASE i # n
        <5>1. i + 1 \in 1 .. n
          BY <1>1, <4>2
        <5> QED
          BY <1>1, <4>2, <5>1
      <4> QED
        BY <4>1, <4>2
    <3>2. FREECLUSTER # ENDOFCHAIN /\ FREECLUSTER \notin Clusters
      BY ClusterFacts DEF FREECLUSTER, ENDOFCHAIN
    <3> QED
      BY <2>1, <3>1, <3>2
  <2> QED
    BY <1>1, <2>1, RangeIs
<1>5. new # 0 /\ (n # 0 => cl \in Clusters /\ cl # 0 /\ cl # new /\ cl \in Range(s) /\ n \in 1 .. n)
  <2>1. new # 0
    BY ClusterFacts
  <2>2. ASSUME n # 0
        PROVE  cl \in Clusters /\ cl # 0 /\ cl # new /\ cl \in Range(s) /\ n \in 1 .. n
    <3>1. n \in 1 .. n /\ cl = s[n]
      BY <1>1, <1>3, <2>2
    <3>2. cl \in Clusters /\ cl \in Range(s)
      BY <1>1, <3>1, RangeIs
    <3> QED
      BY <1>4, <3>1, <3>2, ClusterFacts
  <2> QED
    BY <2>1, <2>2
<1>6. /\ u[new] = ENDOFCHAIN
      /\ n # 0 => u[cl] = new
      /\ \A c \in Clusters : c # new /\ ~(n # 0 /\ c = cl) => u[c] = x.fat[c]
  <2> DEFINE t == [x.fat EXCEPT ![new] = ENDOFCHAIN]
  <2>1. t \in FATs /\ t[new] = ENDOFCHAIN /\ \A c \in Clusters : c # new => t[c] = x.fat[c]
    BY <1>2 DEF FATs
  <2>2. CASE n = 0
    <3>1. cl = 0
      BY <1>3, <2>2
    <3>2. u = t
      BY <3>1 DEF Grown
    <3> HIDE DEF t
    <3> QED
      BY <2>1, <2>2, <3>2
  <2>3. CASE n # 0
    <3>1. cl # 0 /\ cl \in Clusters /\ cl # new
      BY <1>5, <2>3
    <3>2. u = [t EXCEPT ![cl] = new]
      BY <3>1 DEF Grown
    <3> HIDE DEF t, cl, u
    <3>3. u[cl] = new /\ \A c \in Clusters : c # cl => u[c] = t[c]
      BY <2>1, <3>1, <3>2 DEF FATs
    <3> QED
      BY <2>1, <2>3, <3>1, <3>3
  <2> QED
    BY <2>2, <2>3
<1>7. s1 \in Seq(Clusters) /\ Len(s1) = n + 1 /\ s1[n + 1] = new /\ \A i \in 1 .. n : s1[i] = s[i]
  BY <1>1, AppendFacts
<1>8. \A c : c \in Range(s1) <=> c \in Range(s) \/ c = new
  <2>1. ASSUME NEW c
        PROVE  (\E i \in 1 .. n + 1 : s1[i] = c) <=> (\E i \in 1 .. n : s[i] = c) \/ c = new
    <3>1. ASSUME NEW i \in 1 .. n + 1, s1[i] = c
          PROVE  (\E j \in 1 .. n : s[j] = c) \/ c = new
      <4>1. i \in 1 .. n \/ i = n + 1
        BY <1>1
      <4> HIDE DEF s1
      <4> QED
        BY <4>1, <3>1, <1>7
    <3>2. ASSUME NEW i \in 1 .. n, s[i] = c
          PROVE  \E j \in 1 .. n + 1 : s1[j] = c
      <4>1. i \in 1 .. n + 1
        BY <1>1
      <4> HIDE DEF s1
      <4> QED
        BY <4>1, <3>2, <1>7
    <3>3. n + 1 \in 1 .. n + 1
      BY <1>1
    <3> HIDE DEF s1
    <3> QED
      BY <3>1, <3>2, <3>3, <1>7
  <2> HIDE DEF s1
  <2> QED
    BY <2>1, <1>1, <1>7, RangeIs
<1>9. Linked(s1, y.d.o_strtcl, u)
  <2>1. y.d.o_strtcl = IF s = <<>> THEN new ELSE x.d.o_strtcl
    BY <1>1, <1>3, <1>5 DEF GrownStart
  <2>2. Linked(s, x.d.o_strtcl, x.fat)
    BY DEF Chains
  <2>3. s # <<>> => u[s[Len(s)]] = new
    BY <1>1, <1>3, <1>6
  <2>4. ASSUME NEW i \in 1 .. Len(s) - 1
        PROVE  u[s[i]] = x.fat[s[i]]
    <3>1. i \in 1 .. n /\ n \in 1 .. n /\ i # n /\ n # 0
      BY <1>1
    <3>2. s[i] \in Clusters /\ s[i] # s[n] /\ s[i] # new
      BY <1>1, <1>4, <3>1, RangeIs
    <3>3. cl = s[n]
      BY <1>3, <3>1
    <3> HIDE DEF cl, u
    <3> QED
      BY <1>6, <3>2, <3>3
  <2> HIDE DEF u
  <2> QED
    BY <1>4, <1>6, <2>1, <2>2, <2>3, <2>4, LinkedGrown
<1>10. Len(r) <= Len(s1) /\ \A i \in 1 .. Len(r) : s1[i] = r[i]
  <2>1. Len(r) <= n /\ \A i \in 1 .. Len(r) : s[i] = r[i]
    BY DEF Chains
  <2>2. \A i \in 1 .. Len(r) : i \in 1 .. n
    BY <2>1, <1>1
  <2>3. Len(r) <= n + 1
    BY <2>1, <1>1
  <2> HIDE DEF s1
  <2> QED
    BY <2>1, <2>2, <2>3, <1>7
<1>11. ASSUME NEW c \in Apart(z, r)
       PROVE  u[c] = z.fat[c] /\ c \notin Range(s1)
  <2>1. c \in Clusters /\ z.fat[c] # FREECLUSTER
    BY DEF Apart
  <2>2. x.fat[c] = z.fat[c] /\ c \notin Range(s)
    BY DEF Chains
  <2>3. c # new /\ (n # 0 => c # cl)
    BY <2>1, <2>2, <1>5
  <2> HIDE DEF u, s1
  <2> QED
    BY <2>1, <2>2, <2>3, <1>6, <1>8
<1>12. ASSUME NEW c \in Clusters, u[c] # FREECLUSTER
       PROVE  c \in Apart(z, r) \/ c \in Range(s1)
  <2>1. CASE c = new \/ c \in Range(s)
    <3> HIDE DEF s1
    <3> QED
      BY <2>1, <1>8
  <2>2. CASE c # new /\ c \notin Range(s)
    <3>1. u[c] = x.fat[c]
      BY <2>2, <1>5, <1>6
    <3>2. c \in Apart(z, r) \/ c \in Range(s)
      BY <3>1, <1>12 DEF Chains
    <3> HIDE DEF s1
    <3> QED
      BY <3>2, <1>8
  <2> QED
    BY <2>1, <2>2
<1> HIDE DEF u, s1
<1>13. Chains(z, r, y, s1)
  BY <1>9, <1>10, <1>11, <1>12 DEF Chains, u
<1> QED
  BY <1>13 DEF s1

(* What nextcl() makes of a transfer at the end of a cluster: it has come  *)
(* to the end, or to the start of the next one.                            *)
Opened(z, r, x, y, s, w) ==
  /\ SameDone(x, y)
  /\ \/ y.ended /\ Good(z, r, y, s, w)
     \/ y.p.o_curbyt = 0 /\ \E s1 : Open(z, r, y, s1)

LEMMA NextOpens ==
  ASSUME NEW z, NEW r, NEW w, Start(z, r, w), NEW x, NEW s, Good(z, r, x, s, w),
         ~x.ended, x.left > 0, x.p.o_curbyt \in {0, m_clsizb}
  PROVE  Opened(z, r, x, nextcl(x, w), s, w)
<1> DEFINE y == nextcl(x, w)
           n == Len(s)
           new == findfree(x.p.o_curcl, x.fat)
<1>0. /\ x \in Xfer /\ Chains(z, r, x, s) /\ Did(z, x, s) /\ Fits(n, x.d.o_fileln)
      /\ Placed(x.p, s) /\ Linked(s, x.d.o_strtcl, x.fat) /\ w \in BOOLEAN
  BY DEF Good, Chains, Start
<1>1. /\ n \in Nat /\ s \in Seq(Clusters)
      /\ \A i \in 1 .. n : s[i] \in Clusters
  BY <1>0, LinkedFacts
<1>2. PICK m : After(x.p, s, m)
  BY <1>0, <1>1, Stops
<1>3. m \in 0 .. n /\ x.p.o_bytnum = Off(m) /\ x.p.o_curcl = IF m = 0 THEN 0 ELSE s[m]
  BY <1>2 DEF After
<1>4. Link(x) = IF m < n THEN s[m + 1] ELSE ENDOFCHAIN
  BY <1>0, <1>2, LinkAfter
<1>5. /\ Off(m) \in Nat /\ Off(n) \in Nat /\ Off(m + 1) = Off(m) + m_clsizb /\ Off(n - 1) < x.d.o_fileln
      /\ x.d.o_fileln <= Off(n) /\ Off(n - 1) \in Int /\ x.d.o_fileln \in Int
      /\ m_clsizb \in Nat /\ m_clsizb > 0 /\ m \in Nat
  <2>1. m \in Nat /\ m \in Int /\ n \in Int /\ n - 1 \in Int
    BY <1>1, <1>3
  <2>2. Off(m) \in Nat /\ Off(n) \in Nat /\ Off(m + 1) = Off(m) + m_clsizb /\ Off(n - 1) \in Int
    <3> HIDE DEF n
    <3> QED
      BY <1>1, <2>1, OffFacts
  <2>3. Off(n - 1) < x.d.o_fileln /\ x.d.o_fileln <= Off(n)
    BY <1>0 DEF Fits
  <2>4. x.d.o_fileln \in Int /\ m_clsizb \in Nat /\ m_clsizb > 0
    BY <1>0, XferFields, Drive
  <2> QED
    BY <2>1, <2>2, <2>3, <2>4
<1>6. CASE m < n
  <2>1. m + 1 \in 1 .. n
    BY <1>1, <1>5, <1>6
  <2>2. Link(x) = s[m + 1] /\ s[m + 1] \in Clusters
    BY <1>1, <1>4, <1>6, <2>1
  <2>3. Goes(x, y, x.fat, x.d.o_strtcl, s[m + 1])
    BY <1>0, <2>2, NextIs
  <2> HIDE DEF y
  <2>4. y \in Xfer /\ SameDone(x, y) /\ ~y.ended
    BY <2>3 DEF Goes
  <2>5. Chains(z, r, y, s)
    BY <1>0, <2>3 DEF Goes, Chains
  <2>6. Did(z, y, s)
    BY <1>0, <2>4 DEF Did, SameDone
  <2>7. Fits(n, Longest(y.d.o_fileln, y.p.o_bytnum + 1))
    <3>1. y.d.o_fileln = x.d.o_fileln /\ y.p.o_bytnum = Off(m)
      BY <1>3, <2>4 DEF SameDone
    <3>2. Off(m + 1) <= Off(n)
      BY <1>1, <1>5, <2>1, OffFacts
    <3>3. \A f, i, j, q \in Int : i < f /\ f <= j /\ q + 1 <= j =>
                                    i < Longest(f, q + 1) /\ Longest(f, q + 1) <= j
      BY DEF Longest
    <3>4. Off(m) + 1 <= Off(n)
      BY <1>5, <3>2
    <3>6. /\ x.d.o_fileln \in Int /\ Off(n - 1) \in Int /\ Off(n) \in Int /\ Off(m) \in Int
          /\ Off(n - 1) < x.d.o_fileln /\ x.d.o_fileln <= Off(n)
      BY <1>5
    <3>5. Off(n - 1) < Longest(x.d.o_fileln, Off(m) + 1) /\ Longest(x.d.o_fileln, Off(m) + 1) <= Off(n)
      BY <3>3, <3>4, <3>6
    <3> QED
      BY <3>1, <3>5 DEF Fits
  <2>8. Within(y.p, s, m) /\ y.p.o_curbyt = 0 /\ m \in 0 .. n - 1
    <3>1. y.p.o_curbyt = 0 /\ y.p.o_curcl = s[m + 1] /\ y.p.o_currec = cl2rec(s[m + 1])
      BY <2>3 DEF Goes
    <3>2. y.p.o_bytnum = Off(m) + 0 /\ 0 \in 0 .. m_clsizb - 1 /\ m \in 0 .. n - 1
      BY <1>1, <1>3, <1>5, <1>6, <2>4 DEF SameDone
    <3> QED
      BY <3>1, <3>2 DEF Within
  <2>9. Open(z, r, y, s)
    BY <2>4, <2>5, <2>6, <2>7, <2>8 DEF Open
  <2>10. Opened(z, r, x, y, s, w)
    BY <2>4, <2>8, <2>9 DEF Opened
  <2> QED
    BY <2>10 DEF y
<1>7. CASE ~(m < n)
  <2>1. m = n
    BY <1>1, <1>3, <1>7
  <2>2. Link(x) = ENDOFCHAIN
    BY <1>4, <1>7
  <2>3. w
    <3>1. /\ x.p.o_bytnum = z.p.o_bytnum + Len(x.moved) /\ z.left = x.left + Len(x.moved)
          /\ x.d.o_fileln = Longest(z.d.o_fileln, x.p.o_bytnum) /\ Len(x.moved) \in Nat
          /\ x.left \in Nat /\ z.p.o_bytnum \in Nat /\ z.d.o_fileln \in Nat
      BY <1>0, XferFields, SeqFacts DEF Did, Start
    <3>2. SUFFICES ASSUME ~w
                   PROVE  FALSE
      OBVIOUS
    <3>3. z.p.o_bytnum + z.left <= z.d.o_fileln
      BY <3>2 DEF Start
    <3>4. \A a, l, v, f \in Nat : l > 0 /\ a + (l + v) <= f => (a + v) < Longest(f, a + v)
      BY DEF Longest
    <3>5. x.p.o_bytnum < x.d.o_fileln
      BY <3>1, <3>3, <3>4
    <3> QED
      BY <3>5, <1>3, <1>5, <2>1
  <2>4. x.p.o_curcl \in Clusters \cup {0}
    BY <1>0, XferFields
  <2>5. CASE new = 0
    <3>1. y = Ended(x) /\ \A c \in Clusters : x.fat[c] # FREECLUSTER
      BY <1>0, <2>2, <2>3, <2>4, <2>5, FindFree, NextIs
    <3> HIDE DEF y
    <3>2. /\ y \in Xfer /\ y.fat = x.fat /\ y.d = x.d /\ y.p = x.p /\ y.left = x.left
          /\ y.moved = x.moved /\ y.ended = TRUE
      BY <1>0, <3>1, EndedFields
    <3>3. Chains(z, r, y, s)
      BY <1>0, <3>2 DEF Chains
    <3>4. Did(z, y, s)
      BY <1>0, <3>2 DEF Did
    <3>5. Good(z, r, y, s, w)
      BY <1>0, <2>3, <3>1, <3>2, <3>3, <3>4 DEF Good
    <3>6. Opened(z, r, x, y, s, w)
      BY <3>2, <3>5 DEF Opened, SameDone
    <3> QED
      BY <3>6 DEF y
  <2>6. CASE new # 0
    <3>1. new \in Clusters /\ x.fat[new] = FREECLUSTER
      BY <2>4, <2>6, FindFree
    <3>2. Goes(x, y, Grown(x, new), GrownStart(x, new), new)
      BY <1>0, <2>2, <2>3, <2>6, NextIs
    <3> DEFINE s1 == Append(s, new)
    <3> HIDE DEF y, new
    <3>3. y \in Xfer /\ SameDone(x, y) /\ ~y.ended
      BY <3>2 DEF Goes
    <3>4. Chains(z, r, y, s1)
      <4>1. Len(r) \in Nat
        BY LinkedFacts DEF Start
      <4>2. y.fat = Grown(x, new) /\ y.d.o_strtcl = GrownStart(x, new)
        BY <3>2 DEF Goes
      <4>3. After(x.p, s, Len(s))
        BY <1>2, <2>1
      <4> QED
        BY <1>0, <3>1, <4>1, <4>2, <4>3, GrownChains
    <3>5. Len(s1) = n + 1 /\ s1[n + 1] = new /\ \A i \in 1 .. n : s1[i] = s[i]
      BY <1>1, <3>1, AppendFacts
    <3> HIDE DEF s1
    <3>6. Did(z, y, s1)
      <4>1. z.p.o_bytnum \in Nat /\ Len(x.moved) \in Nat /\ x.p.o_bytnum <= Off(Len(s))
        BY <1>0, <1>3, <1>5, <2>1, XferFields, SeqFacts DEF Start
      <4> QED
        BY <1>0, <1>1, <3>3, <3>5, <4>1, DidGrown
    <3>7. Fits(n + 1, Longest(y.d.o_fileln, y.p.o_bytnum + 1))
      <4>1. y.d.o_fileln = x.d.o_fileln /\ y.p.o_bytnum = Off(n)
        BY <1>3, <2>1, <3>3 DEF SameDone
      <4>2. \A f, q \in Int : f <= q => Longest(f, q + 1) = q + 1
        BY DEF Longest
      <4>3. Longest(x.d.o_fileln, Off(n) + 1) = Off(n) + 1
        BY <1>5, <4>2
      <4>4. (n + 1) - 1 = n /\ Off(n) < Off(n) + 1 /\ Off(n) + 1 <= Off(n + 1)
        BY <1>1, <1>5, <2>1
      <4> QED
        BY <4>1, <4>3, <4>4 DEF Fits
    <3>8. Within(y.p, s1, n) /\ y.p.o_curbyt = 0 /\ n \in 0 .. (n + 1) - 1
      <4>1. y.p.o_curbyt = 0 /\ y.p.o_curcl = s1[n + 1] /\ y.p.o_currec = cl2rec(s1[n + 1])
        BY <3>2, <3>5 DEF Goes
      <4>2. y.p.o_bytnum = Off(n) + 0 /\ 0 \in 0 .. m_clsizb - 1 /\ n \in 0 .. (n + 1) - 1
        BY <1>1, <1>3, <1>5, <2>1, <3>3 DEF SameDone
      <4> QED
        BY <4>1, <4>2 DEF Within
    <3>9. Open(z, r, y, s1)
      <4>1. \E k \in 0 .. Len(s1) - 1 : Within(y.p, s1, k)
        BY <3>5, <3>8
      <4> QED
        BY <3>3, <3>4, <3>5, <3>6, <3>7, <4>1 DEF Open
    <3>10. Opened(z, r, x, y, s, w)
      BY <3>3, <3>8, <3>9 DEF Opened
    <3> QED
      BY <3>10 DEF y
  <2> QED
    BY <2>5, <2>6
<1> QED
  BY <1>6, <1>7

(* In the middle of a cluster a transfer needs no nextcl().                *)
LEMMA GoodOpens ==
  ASSUME NEW z, NEW r, NEW w, Start(z, r, w), NEW x, NEW s, Good(z, r, x, s, w),
         ~x.ended, x.p.o_curbyt \in 1 .. m_clsizb - 1
  PROVE  Open(z, r, x, s)
<1>0. /\ x \in Xfer /\ Chains(z, r, x, s) /\ Did(z, x, s) /\ Fits(Len(s), x.d.o_fileln)
      /\ Placed(x.p, s) /\ Linked(s, x.d.o_strtcl, x.fat)
  BY DEF Good, Chains
<1>1. Len(s) \in Nat /\ m_clsizb \in Nat /\ x.d.o_fileln \in Int /\ z.d.o_fileln \in Nat
  BY <1>0, LinkedFacts, XferFields, Drive DEF Start
<1>2. PICK k \in 0 .. Len(s) - 1 : Stands(x.p, s, k)
  <2>1. ~AtFirst(x.p)
    BY <1>1 DEF AtFirst
  <2> QED
    BY <1>0, <2>1 DEF Placed
<1>3. k \in Nat /\ k + 1 <= Len(s)
  BY <1>1
<1>4. x.p.o_bytnum = Off(k) + x.p.o_curbyt
  BY <1>1, <1>2 DEF Stands
<1>5. Within(x.p, s, k)
  BY <1>1, <1>2, <1>4 DEF Stands, Within
<1>6. /\ Off(k) + m_clsizb <= Off(Len(s)) /\ Off(Len(s)) \in Int /\ Off(k) \in Nat /\ Off(Len(s) - 1) \in Int
      /\ Off(Len(s) - 1) < x.d.o_fileln /\ x.d.o_fileln <= Off(Len(s))
  <2>1. k \in Int /\ Len(s) \in Int /\ k < Len(s) /\ Len(s) - 1 \in Int
    BY <1>1, <1>3
  <2> QED
    BY <1>0, <1>3, <2>1, OffFacts DEF Fits
<1>7. Fits(Len(s), Longest(x.d.o_fileln, x.p.o_bytnum + 1))
  <2>1. \A f, i, j, q \in Int : i < f /\ f <= j /\ q + 1 <= j =>
                                  i < Longest(f, q + 1) /\ Longest(f, q + 1) <= j
    BY DEF Longest
  <2>2. x.p.o_bytnum \in Int /\ x.p.o_bytnum + 1 <= Off(Len(s))
    BY <1>1, <1>4, <1>6
  <2>3. /\ Off(Len(s) - 1) < Longest(x.d.o_fileln, x.p.o_bytnum + 1)
        /\ Longest(x.d.o_fileln, x.p.o_bytnum + 1) <= Off(Len(s))
    BY <1>1, <1>6, <2>1, <2>2
  <2> QED
    BY <2>3 DEF Fits
<1> QED
  BY <1>0, <1>5, <1>7 DEF Open

-----------------------------------------------------------------------------
(***************************************************************************)
(* Bytes, records and clusters.                                            *)
(***************************************************************************)
Bytes(n) == n * m_recsiz

LEMMA BytesFacts ==
  /\ \A k \in Int : Bytes(k) \in Int
  /\ \A k \in Nat : Bytes(k) \in Nat
  /\ \A j, k \in Int : Bytes(j + k) = Bytes(j) + Bytes(k)
  /\ \A j, k \in Int : j < k => Bytes(j) + m_recsiz <= Bytes(k)
  /\ \A j, k \in Int : j <= k => Bytes(j) <= Bytes(k)
  /\ Bytes(0) = 0 /\ Bytes(1) = m_recsiz /\ Bytes(m_clsiz) = m_clsizb
  /\ \A k \in Nat : k > 0 => Bytes(k) > 0
<1> DEFINE b == m_recsiz
<1>0. b \in Nat /\ b > 0 /\ m_clsiz \in Nat
  BY Drive
<1> HIDE DEF b
<1>1. \A k \in Int : k * b \in Int
  BY <1>0
<1>2. \A k \in Nat : k * b \in Nat
  BY <1>0
<1>3. \A j, k \in Int : (j + k) * b = j * b + k * b
  BY <1>0
<1>4. 0 * b = 0 /\ 1 * b = b /\ m_clsiz * b = b * m_clsiz
  BY <1>0
<1>5. \A j, k \in Int : j < k => j * b + b <= k * b
  <2> TAKE j, k \in Int
  <2> HAVE j < k
  <2>1. k - j - 1 \in Nat
    OBVIOUS
  <2>2. (k - j - 1) * b >= 0
    BY <1>0, <2>1
  <2>3. (k - j - 1) * b = k * b - j * b - b
    BY <1>0
  <2>4. k * b \in Int /\ j * b \in Int
    BY <1>0
  <2> QED
    BY <2>2, <2>3, <2>4, <1>0
<1>6. \A j, k \in Int : j <= k => j * b <= k * b
  <2> TAKE j, k \in Int
  <2> HAVE j <= k
  <2>1. CASE j = k
    BY <2>1, <1>1
  <2>2. CASE j < k
    <3>1. j * b \in Int /\ k * b \in Int /\ j * b + b <= k * b
      BY <1>1, <1>5, <2>2
    <3> QED
      BY <3>1, <1>0
  <2> QED
    BY <2>1, <2>2
<1>7. \A k \in Nat : k > 0 => k * b > 0
  BY <1>0
<1> QED
  BY <1>1, <1>2, <1>3, <1>4, <1>5, <1>6, <1>7 DEF Bytes, b, m_clsizb

(* Byte b of a cluster is in record b \div m_recsiz of it.                 *)
LEMMA InRecord ==
  ASSUME NEW b \in 0 .. m_clsizb
  PROVE  LET q == b \div m_recsiz IN
         /\ q \in 0 .. m_clsiz /\ b % m_recsiz \in 0 .. m_recsiz - 1
         /\ b = Bytes(q) + (b % m_recsiz)
         /\ q < m_clsiz => Bytes(q) + m_recsiz <= m_clsizb
         /\ q = m_clsiz => b = m_clsizb /\ b % m_recsiz = 0
         /\ b = m_clsizb => q = m_clsiz
         /\ b % m_recsiz # 0 => b \in 1 .. m_clsizb - 1
         /\ b % m_recsiz = 0 /\ q = 0 => b = 0
         /\ b = 0 => q = 0 /\ b % m_recsiz = 0
<1>0. m_recsiz \in Nat /\ m_recsiz > 0 /\ m_clsiz \in Nat /\ m_clsiz > 0 /\ m_clsizb \in Nat /\ b \in Int /\ b >= 0 /\ b <= m_clsizb
  BY Drive
<1> DEFINE q == b \div m_recsiz
           t == b % m_recsiz
<1>1. q \in Int /\ q >= 0 /\ t \in 0 .. m_recsiz - 1 /\ b = Bytes(q) + t
  BY <1>0, DivFacts DEF Bytes
<1> HIDE DEF q, t
<1>2. Bytes(q) \in Int /\ Bytes(m_clsiz) = m_clsizb /\ Bytes(0) = 0
  BY <1>1, BytesFacts
<1>3. q <= m_clsiz
  <2> SUFFICES ASSUME m_clsiz < q
               PROVE  FALSE
    BY <1>0, <1>1
  <2>1. Bytes(m_clsiz) + m_recsiz <= Bytes(q)
    BY <1>0, <1>1, BytesFacts
  <2> QED
    BY <2>1, <1>0, <1>1, <1>2
<1>4. q < m_clsiz => Bytes(q) + m_recsiz <= m_clsizb
  BY <1>0, <1>1, <1>2, BytesFacts
<1>5. q = m_clsiz => b = m_clsizb /\ t = 0
  BY <1>0, <1>1, <1>2
<1>6. b = m_clsizb => q = m_clsiz
  BY <1>0, <1>1, <1>2, <1>3, <1>4
<1>7. t # 0 => b \in 1 .. m_clsizb - 1
  <2> SUFFICES ASSUME t # 0
               PROVE  b \in 1 .. m_clsizb - 1
    OBVIOUS
  <2>1. Bytes(0) <= Bytes(q)
    BY <1>1, BytesFacts
  <2>2. b # m_clsizb
    BY <1>5, <1>6
  <2> QED
    BY <1>0, <1>1, <1>2, <2>1, <2>2
<1>8. t = 0 /\ q = 0 => b = 0
  BY <1>1, <1>2
<1>9. b = 0 => q = 0 /\ t = 0
  <2> SUFFICES ASSUME b = 0
               PROVE  q = 0 /\ t = 0
    OBVIOUS
  <2>1. Bytes(0) <= Bytes(q)
    BY <1>1, BytesFacts
  <2>2. q > 0 => Bytes(0) + m_recsiz <= Bytes(q)
    BY <1>1, BytesFacts
  <2> QED
    BY <1>0, <1>1, <1>2, <2>1, <2>2
<1>10. q \in 0 .. m_clsiz
  BY <1>0, <1>1, <1>3
<1> QED
  BY <1>1, <1>4, <1>5, <1>6, <1>7, <1>8, <1>9, <1>10 DEF q, t

LEMMA LeftFacts ==
  ASSUME NEW x, x.left \in Nat
  PROVE  /\ RecordsLeft(x) \in Nat /\ Bytes(RecordsLeft(x)) <= x.left
         /\ x.left < Bytes(RecordsLeft(x)) + m_recsiz
         /\ RecordsLeft(x) \div m_clsiz \in Nat
         /\ \A k \in Int : Bytes(k) <= x.left /\ x.left < Bytes(k) + m_recsiz => RecordsLeft(x) = k
<1> DEFINE l == x.left
           n == l \div m_recsiz
<1>0. m_recsiz \in Nat /\ m_recsiz > 0 /\ m_clsiz \in Nat /\ m_clsiz > 0 /\ l \in Int /\ l >= 0
  BY Drive
<1>1. n \in Int /\ n >= 0 /\ l % m_recsiz \in 0 .. m_recsiz - 1 /\ l = Bytes(n) + (l % m_recsiz)
  BY <1>0, DivFacts DEF Bytes
<1> HIDE DEF n
<1>2. n \in Nat /\ Bytes(n) \in Int
  BY <1>1, BytesFacts
<1>3. Bytes(n) <= l /\ l < Bytes(n) + m_recsiz
  <2> DEFINE t == l % m_recsiz
  <2>1. t \in 0 .. m_recsiz - 1 /\ l = Bytes(n) + t
    BY <1>1
  <2> HIDE DEF t, l
  <2> QED
    BY <2>1, <1>0, <1>2
<1>4. n \div m_clsiz \in Int /\ n \div m_clsiz >= 0
  BY <1>0, <1>2, DivFacts
<1>5. ASSUME NEW k \in Int, Bytes(k) <= l, l < Bytes(k) + m_recsiz
      PROVE  n = k
  <2>1. Bytes(k) \in Int
    BY BytesFacts
  <2>2. k < n => Bytes(k) + m_recsiz <= Bytes(n)
    BY <1>2, BytesFacts
  <2>3. n < k => Bytes(n) + m_recsiz <= Bytes(k)
    BY <1>2, BytesFacts
  <2> HIDE DEF l
  <2> QED
    BY <2>1, <2>2, <2>3, <1>0, <1>2, <1>3, <1>5
<1>6. n = RecordsLeft(x)
  BY DEF n, RecordsLeft
<1> QED
  BY <1>2, <1>3, <1>4, <1>5, <1>6

LEMMA PlacedByte ==
  ASSUME NEW z, NEW r, NEW x, NEW s, NEW w, Good(z, r, x, s, w)
  PROVE  /\ x \in Xfer /\ x.p.o_curbyt \in 0 .. m_clsizb /\ x.left \in Nat
         /\ x.p.o_currec \in Int /\ x.p.o_currec % m_clsiz = 0
<1>0. m_clsizb \in Nat /\ m_clsiz \in Nat /\ m_clsiz > 0 /\ x \in Xfer /\ Placed(x.p, s) /\ x.left \in Nat
  BY Drive DEF Good, Did
<1>1. x.p.o_currec \in Int
  BY <1>0, XferFields
<1>2. CASE AtFirst(x.p)
  <2>1. (0 * m_clsiz + 0) % m_clsiz = 0
    BY <1>0, DivIs
  <2>2. x.p.o_currec = 0 * m_clsiz + 0
    BY <1>0, <1>2 DEF AtFirst
  <2>3. x.p.o_curbyt \in 0 .. m_clsizb
    BY <1>0, <1>2 DEF AtFirst
  <2> QED
    BY <1>0, <1>1, <2>1, <2>2, <2>3
<1>3. CASE \E k \in 0 .. Len(s) - 1 : Stands(x.p, s, k)
  <2>1. PICK k \in 0 .. Len(s) - 1 : Stands(x.p, s, k)
    BY <1>3
  <2>2. s[k + 1] \in Clusters
    <3>1. \A i \in 1 .. Len(s) : s[i] \in Clusters
      BY LinkedFacts DEF Good, Chains
    <3>2. Len(s) \in Nat
      BY LinkedFacts DEF Good, Chains
    <3> QED
      BY <3>1, <3>2
  <2>3. s[k + 1] - 2 \in Int
    BY <2>2, ClusterFacts
  <2>4. x.p.o_currec = (s[k + 1] - 2) * m_clsiz
    BY <2>1 DEF Stands, cl2rec
  <2>5. ASSUME NEW q \in Int
        PROVE  (q * m_clsiz) % m_clsiz = 0
    <3>1. (q * m_clsiz + 0) % m_clsiz = 0
      BY <1>0, DivIs
    <3>2. q * m_clsiz \in Int
      BY <1>0
    <3>3. q * m_clsiz + 0 = q * m_clsiz
      BY <3>2
    <3> QED
      BY <3>1, <3>3
  <2>6. x.p.o_currec % m_clsiz = 0
    BY <2>3, <2>4, <2>5
  <2>7. x.p.o_curbyt \in 0 .. m_clsizb
    BY <1>0, <2>1 DEF Stands
  <2> QED
    BY <1>0, <1>1, <2>6, <2>7
<1> QED
  BY <1>0, <1>2, <1>3 DEF Placed

(* The next transfer of a record begins at the start of one.               *)
Aligned(x) == x.left = 0 \/ x.p.o_curbyt % m_recsiz = 0

LEMMA MoveDone ==
  ASSUME NEW z, NEW r, NEW w, Start(z, r, w), NEW x, NEW s, Open(z, r, x, s),
         NEW rec, NEW off, NEW n, Room(x, rec, off, n)
  PROVE  LET y == Move(x, rec, off, n) IN
         /\ Good(z, r, y, s, w) /\ ~y.ended /\ y.left = x.left - n
         /\ y.p.o_curbyt = IF n < m_clsizb THEN x.p.o_curbyt + n ELSE x.p.o_curbyt
<1>1. Moved(x, Move(x, rec, off, n), rec * m_recsiz + off, n)
  BY MoveFields DEF Open, Room
<1>2. Good(z, r, Move(x, rec, off, n), s, w) /\ ~Move(x, rec, off, n).ended
  BY MoveGood
<1> QED
  BY <1>1, <1>2 DEF Moved

LEMMA FirstGood ==
  ASSUME NEW z, NEW r, NEW w, Start(z, r, w), z.left > 0
  PROVE  LET y == FirstBytes(z) IN Good(z, r, y, r, w) /\ ~y.ended /\ Aligned(y)
<1>1. Good(z, r, z, r, w) /\ ~z.ended
  BY StartGood DEF Start
<1>2. z \in Xfer /\ z.p.o_curbyt \in 0 .. m_clsizb /\ z.left \in Nat /\ z.p.o_currec \in Int
  BY <1>1, PlacedByte
<1>3. CASE z.p.o_curbyt % m_recsiz = 0
  BY <1>1, <1>3 DEF FirstBytes, Aligned
<1>4. CASE z.p.o_curbyt % m_recsiz # 0
  <2>1. PICK b, q, t, n, l : /\ b = z.p.o_curbyt /\ q = b \div m_recsiz /\ t = b % m_recsiz
                             /\ n = (IF l < m_recsiz - t THEN l ELSE m_recsiz - t) /\ l = z.left
    <3> DEFINE l == z.left
               t == z.p.o_curbyt % m_recsiz
    <3>1. \E n : n = IF l < m_recsiz - t THEN l ELSE m_recsiz - t
      OBVIOUS
    <3> HIDE DEF l, t
    <3> QED
      BY <3>1 DEF l, t
  <2>2. m_recsiz \in Nat /\ m_recsiz > 0 /\ m_clsizb \in Nat /\ m_clsiz \in Nat /\ m_recsiz <= m_clsizb
    BY Drive
  <2>3. /\ b \in 0 .. m_clsizb /\ q \in 0 .. m_clsiz /\ t \in 1 .. m_recsiz - 1 /\ b = Bytes(q) + t
        /\ Bytes(q) + m_recsiz <= m_clsizb /\ b \in 1 .. m_clsizb - 1
        /\ Bytes(q) \in Int
    <3>1. /\ q \in 0 .. m_clsiz /\ t \in 0 .. m_recsiz - 1 /\ b = Bytes(q) + t
          /\ q < m_clsiz => Bytes(q) + m_recsiz <= m_clsizb
          /\ q = m_clsiz => t = 0
          /\ t # 0 => b \in 1 .. m_clsizb - 1
      BY <1>2, <2>1, InRecord
    <3>2. t # 0
      BY <1>4, <2>1
    <3>3. q < m_clsiz
      BY <2>2, <3>1, <3>2
    <3>4. Bytes(q) \in Int
      BY <2>2, <3>1, BytesFacts
    <3> QED
      BY <1>2, <2>1, <2>2, <3>1, <3>2, <3>3, <3>4
  <2>4. l \in Nat /\ l > 0 /\ n \in Nat /\ n > 0 /\ n <= l /\ n <= m_recsiz - t /\ (n = l \/ n = m_recsiz - t)
    <3>1. l \in Nat /\ l > 0
      BY <1>2, <2>1
    <3> QED
      BY <2>1, <2>2, <2>3, <3>1
  <2>5. Min({l, m_recsiz - t}) = n
    <3>1. \A i, j \in Int : Min({i, j}) = IF i < j THEN i ELSE j
      BY DEF Min
    <3> QED
      BY <2>1, <2>2, <2>3, <2>4, <3>1
  <2>6. FirstBytes(z) = Move(z, Record(z), t, n)
    BY <1>4, <2>1, <2>5 DEF FirstBytes
  <2>7. Open(z, r, z, r)
    BY <1>1, <2>1, <2>3, GoodOpens
  <2>8. Room(z, Record(z), t, n)
    <3>1. Record(z) = q + z.p.o_currec /\ Record(z) \in Int
      BY <1>2, <2>1, <2>2, <2>3 DEF Record
    <3>2. Bytes(q + z.p.o_currec) = Bytes(q) + Bytes(z.p.o_currec) /\ Bytes(z.p.o_currec) \in Int
      <4>1. PICK c : c = z.p.o_currec
        OBVIOUS
      <4>2. c \in Int /\ q \in Int
        BY <1>2, <2>2, <2>3, <4>1
      <4>3. Bytes(q + c) = Bytes(q) + Bytes(c) /\ Bytes(c) \in Int
        BY <4>2, BytesFacts
      <4> QED
        BY <4>1, <4>3
    <3>3. Bytes(Record(z)) + t = Bytes(z.p.o_currec) + b
      BY <2>3, <3>1, <3>2
    <3>4. b + n <= m_clsizb
      BY <2>2, <2>3, <2>4
    <3> QED
      <4>1. Record(z) * m_recsiz + t = z.p.o_currec * m_recsiz + b
        BY <3>3 DEF Bytes
      <4>2. t \in Int /\ n \in Nat /\ n > 0 /\ n <= l
        BY <2>3, <2>4
      <4>3. b = z.p.o_curbyt /\ l = z.left
        BY <2>1
      <4> QED
        BY <3>1, <3>4, <4>1, <4>2, <4>3 DEF Room
  <2>9. PICK y : y = FirstBytes(z)
    OBVIOUS
  <2>10. /\ Good(z, r, y, r, w) /\ ~y.ended /\ y.left = z.left - n
         /\ y.p.o_curbyt = IF n < m_clsizb THEN z.p.o_curbyt + n ELSE z.p.o_curbyt
    BY <2>6, <2>7, <2>8, <2>9, MoveDone
  <2>11. Aligned(y)
    <3>1. CASE n = l
      <4>1. y.left = 0
        BY <2>1, <2>4, <2>10, <3>1
      <4> QED
        BY <4>1 DEF Aligned
    <3>2. CASE n = m_recsiz - t
      <4>1. n < m_clsizb
        BY <2>2, <2>3, <3>2
      <4>2. y.p.o_curbyt = b + n
        BY <2>1, <2>10, <4>1
      <4>3. b + n = (q + 1) * m_recsiz + 0
        <5>1. Bytes(q + 1) = Bytes(q) + m_recsiz
          <6>1. Bytes(q + 1) = Bytes(q) + Bytes(1) /\ Bytes(1) = m_recsiz
            BY <2>3, BytesFacts
          <6> QED
            BY <6>1
        <5>2. b + n = Bytes(q + 1)
          BY <2>2, <2>3, <3>2, <5>1
        <5>3. Bytes(q + 1) \in Int
          BY <2>2, <2>3, <5>1
        <5> QED
          BY <5>2, <5>3 DEF Bytes
      <4>4. \A i \in Int : (i * m_recsiz + 0) % m_recsiz = 0
        BY <2>2, DivIs
      <4>5. ((q + 1) * m_recsiz + 0) % m_recsiz = 0
        BY <2>3, <4>4
      <4> QED
        BY <4>2, <4>3, <4>5 DEF Aligned
    <3> QED
      BY <2>4, <3>1, <3>2
  <2> QED
    BY <2>9, <2>10, <2>11
<1> QED
  BY <1>3, <1>4

LEMMA BytesMod ==
  /\ \A k \in Int : Bytes(k) % m_recsiz = 0
  /\ \A n \in Int, q \in 0 .. m_clsiz - 1 : n % m_clsiz = 0 => (q + n) % m_clsiz = q
  /\ \A n \in Int : n % m_clsiz = 0 => (m_clsiz + n) % m_clsiz = 0
<1>0. m_recsiz \in Nat /\ m_recsiz > 0 /\ m_clsiz \in Nat /\ m_clsiz > 0
  BY Drive
<1>1. ASSUME NEW k \in Int
      PROVE  Bytes(k) % m_recsiz = 0
  <2>1. (k * m_recsiz + 0) % m_recsiz = 0
    BY <1>0, DivIs
  <2>2. Bytes(k) = k * m_recsiz + 0
    BY BytesFacts DEF Bytes
  <2> QED
    BY <2>1, <2>2
<1>2. ASSUME NEW n \in Int, NEW q \in 0 .. m_clsiz - 1, n % m_clsiz = 0
      PROVE  (q + n) % m_clsiz = q
  <2>1. PICK j \in Int : n = j * m_clsiz
    <3>1. PICK j : j = n \div m_clsiz
      OBVIOUS
    <3>2. j \in Int /\ n = j * m_clsiz + (n % m_clsiz)
      BY <1>0, <3>1, DivFacts
    <3>3. j * m_clsiz \in Int
      BY <1>0, <3>2
    <3>4. n = j * m_clsiz
      BY <1>2, <3>2, <3>3
    <3> QED
      BY <3>2, <3>4
  <2>2. (j * m_clsiz + q) % m_clsiz = q
    BY <1>0, DivIs
  <2>3. q + n = j * m_clsiz + q
    <3>1. q \in Int
      BY <1>0
    <3> QED
      BY <2>1, <3>1
  <2> QED
    BY <2>2, <2>3
<1>3. ASSUME NEW n \in Int, n % m_clsiz = 0
      PROVE  (m_clsiz + n) % m_clsiz = 0
  <2>1. PICK j \in Int : n = j * m_clsiz
    <3>1. PICK j : j = n \div m_clsiz
      OBVIOUS
    <3>2. j \in Int /\ n = j * m_clsiz + (n % m_clsiz)
      BY <1>0, <3>1, DivFacts
    <3>3. j * m_clsiz \in Int
      BY <1>0, <3>2
    <3>4. n = j * m_clsiz
      BY <1>3, <3>2, <3>3
    <3> QED
      BY <3>2, <3>4
  <2>2. ((j + 1) * m_clsiz + 0) % m_clsiz = 0
    BY <1>0, DivIs
  <2>3. m_clsiz + n = (j + 1) * m_clsiz + 0
    BY <1>0, <2>1
  <2> QED
    BY <2>2, <2>3
<1> QED
  BY <1>1, <1>2, <1>3

(* The rest of the cluster.                                                *)
LEMMA HeaderGood ==
  ASSUME NEW z, NEW r, NEW w, Start(z, r, w), NEW x, NEW s, Good(z, r, x, s, w),
         ~x.ended, Aligned(x), RecordsLeft(x) # 0
  PROVE  LET y == MoveRecords(x, Record(x), Header(x)) IN
         /\ Good(z, r, y, s, w) /\ ~y.ended /\ Aligned(y)
         /\ y.p.o_curbyt \in {0, m_clsizb} \/ RecordsLeft(y) = 0
<1>1. x \in Xfer /\ x.p.o_curbyt \in 0 .. m_clsizb /\ x.left \in Nat /\ x.p.o_currec \in Int /\ x.p.o_currec % m_clsiz = 0
  BY PlacedByte
<1>2. m_recsiz \in Nat /\ m_recsiz > 0 /\ m_clsizb \in Nat /\ m_clsiz \in Nat /\ m_clsiz > 0
  BY Drive
<1>3. PICK b, q, c, l, n : /\ b = x.p.o_curbyt /\ q = b \div m_recsiz /\ c = x.p.o_currec
                           /\ l = x.left /\ n = RecordsLeft(x)
  OBVIOUS
<1>4. n \in Nat /\ n > 0 /\ Bytes(n) <= l /\ l < Bytes(n) + m_recsiz /\ l \in Nat /\ Bytes(n) \in Nat
  <2>1. RecordsLeft(x) \in Nat /\ Bytes(RecordsLeft(x)) <= x.left /\ x.left < Bytes(RecordsLeft(x)) + m_recsiz
    BY <1>1, LeftFacts
  <2>2. n \in Nat /\ n > 0
    BY <1>3, <2>1
  <2> QED
    BY <1>1, <1>3, <2>1, <2>2, BytesFacts
<1>5. l > 0
  <2>1. Bytes(n) > 0
    BY <1>4, BytesFacts
  <2> QED
    BY <2>1, <1>4
<1>6. /\ q \in 0 .. m_clsiz /\ b \in 0 .. m_clsizb /\ b = Bytes(q) /\ Bytes(q) \in Nat
      /\ q = m_clsiz => b = m_clsizb
      /\ q = 0 => b = 0
  <2>1. b % m_recsiz = 0
    BY <1>3, <1>5 DEF Aligned
  <2>2. b \in 0 .. m_clsizb
    BY <1>1, <1>3
  <2>3. /\ q \in 0 .. m_clsiz /\ b = Bytes(q) + (b % m_recsiz)
        /\ q = m_clsiz => b = m_clsizb
        /\ b % m_recsiz = 0 /\ q = 0 => b = 0
    BY <1>3, <2>2, InRecord
  <2>4. Bytes(q) \in Nat
    BY <1>2, <2>3, BytesFacts
  <2> QED
    BY <2>1, <2>2, <2>3, <2>4
<1>7. Record(x) = q + c /\ c \in Int /\ c % m_clsiz = 0 /\ Record(x) \in Int
  BY <1>1, <1>2, <1>3, <1>6 DEF Record
<1>8. CASE q = 0 \/ q = m_clsiz
  <2>1. Record(x) % m_clsiz = 0
    <3>1. \A i \in 0 .. m_clsiz - 1 : (i + c) % m_clsiz = i
      BY <1>7, BytesMod
    <3>2. (m_clsiz + c) % m_clsiz = 0
      BY <1>7, BytesMod
    <3>3. 0 \in 0 .. m_clsiz - 1
      BY <1>2
    <3>4. (0 + c) % m_clsiz = 0
      BY <3>1, <3>3
    <3> QED
      BY <1>7, <1>8, <3>2, <3>4
  <2>2. MoveRecords(x, Record(x), Header(x)) = x
    BY <2>1 DEF Header, MoveRecords
  <2>3. x.p.o_curbyt \in {0, m_clsizb}
    BY <1>3, <1>6, <1>8
  <2> QED
    BY <2>2, <2>3
<1>9. CASE q # 0 /\ q # m_clsiz
  <2>1. q \in Nat /\ 0 < q /\ q < m_clsiz /\ Record(x) % m_clsiz = q /\ q \in 0 .. m_clsiz - 1
    <3>1. q \in 0 .. m_clsiz - 1 /\ q \in Nat /\ 0 < q /\ q < m_clsiz
      BY <1>2, <1>6, <1>9
    <3>2. \A i \in 0 .. m_clsiz - 1 : (i + c) % m_clsiz = i
      BY <1>7, BytesMod
    <3> QED
      BY <1>7, <3>1, <3>2
  <2>2. PICK h : h = IF n < m_clsiz - q THEN n ELSE m_clsiz - q
    OBVIOUS
  <2>3. /\ h \in Nat /\ h > 0 /\ h < m_clsiz /\ h <= n /\ q + h <= m_clsiz
        /\ h = n \/ q + h = m_clsiz
    BY <1>2, <1>4, <2>1, <2>2
  <2>4. Header(x) = h
    <3>1. \A i, j \in Int : Min({i, j}) = IF i < j THEN i ELSE j
      BY DEF Min
    <3>2. Min({n, m_clsiz - q}) = h
      BY <1>2, <1>4, <2>1, <2>2, <3>1
    <3> QED
      BY <1>3, <2>1, <3>2 DEF Header
  <2>5. PICK e : e = Bytes(h)
    OBVIOUS
  <2>6. /\ e \in Nat /\ e > 0 /\ e < m_clsizb /\ e <= l /\ b + e = Bytes(q + h)
        /\ b + e <= m_clsizb /\ Bytes(m_clsiz) = m_clsizb
    <3>1. Bytes(m_clsiz) = m_clsizb
      BY BytesFacts
    <3>2. e \in Nat /\ e > 0
      BY <2>3, <2>5, BytesFacts
    <3>3. Bytes(h) + m_recsiz <= Bytes(m_clsiz) /\ Bytes(h) <= Bytes(n) /\ Bytes(q + h) <= Bytes(m_clsiz)
      <4>1. h \in Int /\ n \in Int /\ m_clsiz \in Int /\ q + h \in Int
        BY <1>2, <1>4, <2>1, <2>3
      <4>2. \A j, k \in Int : (j < k => Bytes(j) + m_recsiz <= Bytes(k)) /\ (j <= k => Bytes(j) <= Bytes(k))
        BY BytesFacts
      <4> QED
        BY <2>3, <4>1, <4>2
    <3>4. Bytes(q + h) = Bytes(q) + Bytes(h)
      BY <2>1, <2>3, BytesFacts
    <3>5. b + e = Bytes(q + h)
      BY <1>6, <2>5, <3>4
    <3> QED
      BY <1>2, <1>4, <2>5, <3>1, <3>2, <3>3, <3>5
  <2>7. MoveRecords(x, Record(x), Header(x)) = Move(x, Record(x), 0, e)
    BY <2>3, <2>4, <2>5 DEF MoveRecords, Bytes
  <2>8. Open(z, r, x, s)
    <3>1. x.p.o_curbyt \in 1 .. m_clsizb - 1
      <4>1. b # 0 /\ b # m_clsizb
        <5>1. e > 0 /\ b + e <= m_clsizb
          BY <2>6
        <5>2. Bytes(q) > 0
          BY <2>1, BytesFacts
        <5> QED
          BY <1>2, <1>6, <2>6, <5>1, <5>2
      <4> QED
        BY <1>2, <1>3, <1>6, <4>1
    <3> QED
      BY <3>1, GoodOpens
  <2>9. Room(x, Record(x), 0, e)
    <3>1. Bytes(q + c) = Bytes(q) + Bytes(c) /\ Bytes(c) \in Int
      BY <1>7, <2>1, BytesFacts
    <3>2. Bytes(Record(x)) + 0 = Bytes(x.p.o_currec) + b
      <4>1. Bytes(Record(x)) = Bytes(q + c) /\ Bytes(x.p.o_currec) = Bytes(c)
        BY <1>3, <1>7
      <4>2. Bytes(q) + Bytes(c) + 0 = Bytes(c) + b
        <5>1. \A i, j \in Int : i + j + 0 = j + i
          OBVIOUS
        <5>2. b = Bytes(q) /\ Bytes(q) \in Int
          BY <1>6
        <5> QED
          BY <3>1, <5>1, <5>2
      <4> QED
        BY <3>1, <4>1, <4>2
    <3> QED
      BY <1>3, <1>7, <2>6, <3>2 DEF Room, Bytes
  <2>10. PICK y : y = MoveRecords(x, Record(x), Header(x))
    OBVIOUS
  <2>11. /\ Good(z, r, y, s, w) /\ ~y.ended /\ y.left = x.left - e
         /\ y.p.o_curbyt = IF e < m_clsizb THEN x.p.o_curbyt + e ELSE x.p.o_curbyt
    BY <2>7, <2>8, <2>9, <2>10, MoveDone
  <2>12. y.p.o_curbyt = Bytes(q + h)
    BY <1>3, <2>6, <2>11
  <2>13. Aligned(y)
    <3>1. Bytes(q + h) % m_recsiz = 0
      BY <2>1, <2>3, BytesMod
    <3> QED
      BY <2>12, <3>1 DEF Aligned
  <2>14. CASE h = n
    <3>1. y.left \in Nat /\ 0 <= y.left /\ y.left < m_recsiz
      BY <1>2, <1>3, <1>4, <2>5, <2>6, <2>11, <2>14
    <3>2. RecordsLeft(y) = 0
      <4>1. Bytes(0) = 0 /\ 0 \in Int
        BY BytesFacts
      <4>2. Bytes(0) <= y.left /\ y.left < Bytes(0) + m_recsiz
        BY <1>2, <3>1, <4>1
      <4> QED
        BY <3>1, <4>1, <4>2, LeftFacts
    <3> QED
      BY <2>10, <2>11, <2>13, <3>2
  <2>15. CASE q + h = m_clsiz
    <3>1. y.p.o_curbyt \in {0, m_clsizb}
      BY <2>6, <2>12, <2>15
    <3> QED
      BY <2>10, <2>11, <2>13, <3>1
  <2> QED
    BY <2>3, <2>14, <2>15
<1> QED
  BY <1>8, <1>9

-----------------------------------------------------------------------------
(***************************************************************************)
(* The loop over whole clusters. A transfer that is pending has been moved *)
(* in Pending(s): nextcl() does not depend on it.                          *)
(***************************************************************************)
LEMMA NextDone ==
  ASSUME NEW x \in Xfer, NEW w \in BOOLEAN
  PROVE  nextcl(x, w) \in Xfer /\ SameDone(x, nextcl(x, w))
<1> DEFINE y == nextcl(x, w)
           new == findfree(x.p.o_curcl, x.fat)
<1>1. /\ Link(x) \in Clusters => Goes(x, y, x.fat, x.d.o_strtcl, Link(x))
      /\ Link(x) \notin Clusters /\ ~(w /\ Link(x) = ENDOFCHAIN) => y = Ended(x)
      /\ Link(x) = ENDOFCHAIN /\ w /\ new = 0 => y = Ended(x)
      /\ Link(x) = ENDOFCHAIN /\ w /\ new # 0 =>
           Goes(x, y, Grown(x, new), GrownStart(x, new), new)
  BY NextIs
<1> HIDE DEF y, new
<1>2. y = Ended(x) => y \in Xfer /\ SameDone(x, y)
  BY EndedFields DEF SameDone
<1>3. \A t, f, c : Goes(x, y, t, f, c) => y \in Xfer /\ SameDone(x, y)
  BY DEF Goes
<1>4. y \in Xfer /\ SameDone(x, y)
  BY <1>1, <1>2, <1>3
<1> QED
  BY <1>4 DEF y

LEMMA NextSame ==
  ASSUME NEW x \in Xfer, NEW v \in Xfer, SameWhere(x, v), NEW w \in BOOLEAN
  PROVE  SameWhere(nextcl(x, w), nextcl(v, w))
<1> DEFINE y == nextcl(x, w)
           u == nextcl(v, w)
           new == findfree(x.p.o_curcl, x.fat)
<1>1. /\ Link(v) = Link(x) /\ findfree(v.p.o_curcl, v.fat) = new
      /\ \A c : Grown(v, c) = Grown(x, c) /\ GrownStart(v, c) = GrownStart(x, c)
  BY DEF SameWhere, Link, Grown, GrownStart
<1>2. v.fat = x.fat /\ v.d.o_strtcl = x.d.o_strtcl /\ v.ended = x.ended
  BY DEF SameWhere
<1>3. /\ Link(x) \in Clusters => Goes(x, y, x.fat, x.d.o_strtcl, Link(x))
      /\ Link(x) \notin Clusters /\ ~(w /\ Link(x) = ENDOFCHAIN) => y = Ended(x)
      /\ Link(x) = ENDOFCHAIN /\ w /\ new = 0 => y = Ended(x)
      /\ Link(x) = ENDOFCHAIN /\ w /\ new # 0 =>
           Goes(x, y, Grown(x, new), GrownStart(x, new), new)
  BY NextIs
<1>4. /\ Link(x) \in Clusters => Goes(v, u, x.fat, x.d.o_strtcl, Link(x))
      /\ Link(x) \notin Clusters /\ ~(w /\ Link(x) = ENDOFCHAIN) => u = Ended(v)
      /\ Link(x) = ENDOFCHAIN /\ w /\ new = 0 => u = Ended(v)
      /\ Link(x) = ENDOFCHAIN /\ w /\ new # 0 =>
           Goes(v, u, Grown(x, new), GrownStart(x, new), new)
  <2>1. PICK f : f = findfree(v.p.o_curcl, v.fat)
    OBVIOUS
  <2>2. /\ Link(v) \in Clusters => Goes(v, u, v.fat, v.d.o_strtcl, Link(v))
        /\ Link(v) \notin Clusters /\ ~(w /\ Link(v) = ENDOFCHAIN) => u = Ended(v)
        /\ Link(v) = ENDOFCHAIN /\ w /\ f = 0 => u = Ended(v)
        /\ Link(v) = ENDOFCHAIN /\ w /\ f # 0 =>
             Goes(v, u, Grown(v, f), GrownStart(v, f), f)
    BY <2>1, NextIs
  <2> HIDE DEF new, u
  <2> QED
    BY <1>1, <1>2, <2>1, <2>2
<1> HIDE DEF y, u, new
<1>5. \A t, f, c : Goes(x, y, t, f, c) /\ Goes(v, u, t, f, c) => SameWhere(y, u)
  BY <1>2 DEF Goes, SameWhere
<1>6. y = Ended(x) /\ u = Ended(v) => SameWhere(y, u)
  <2> SUFFICES ASSUME y = Ended(x), u = Ended(v)
               PROVE  SameWhere(y, u)
    OBVIOUS
  <2>1. y.fat = x.fat /\ y.d = x.d /\ y.p = x.p /\ y.ended = TRUE
    BY EndedFields
  <2>2. u.fat = v.fat /\ u.d = v.d /\ u.p = v.p /\ u.ended = TRUE
    BY EndedFields
  <2> QED
    BY <2>1, <2>2 DEF SameWhere
<1>7. SameWhere(y, u)
  BY <1>3, <1>4, <1>5, <1>6
<1> QED
  BY <1>7 DEF y, u

(* A move of whole clusters and nextcl() may change places.                *)
LEMMA NextLater ==
  ASSUME NEW x \in Xfer, NEW w \in BOOLEAN, NEW rec \in Int, NEW n \in Nat, n >= m_clsizb
  PROVE  /\ nextcl(Move(x, rec, 0, n), w) = Move(nextcl(x, w), rec, 0, n)
         /\ SameWhere(nextcl(x, w), nextcl(Move(x, rec, 0, n), w))
<1>1. PICK v, y, u, b : v = Move(x, rec, 0, n) /\ y = nextcl(x, w) /\ u = nextcl(v, w) /\ b = Move(y, rec, 0, n)
  OBVIOUS
<1>2. y \in Xfer /\ SameDone(x, y)
  BY <1>1, NextDone
<1>3. PICK a : a = rec * m_recsiz + 0
  OBVIOUS
<1>4. Moved(x, v, a, n) /\ Moved(y, b, a, n)
  BY <1>1, <1>2, <1>3, MoveFields
<1>5. ~(n < m_clsizb)
  BY Drive
<1>6. v \in Xfer /\ b \in Xfer /\ SameWhere(x, v) /\ SameWhere(y, b)
  BY <1>4, <1>5 DEF Moved, SameWhere
<1>7. u \in Xfer /\ SameDone(v, u) /\ SameWhere(y, u)
  BY <1>1, <1>6, NextDone, NextSame
<1>8. SameWhere(u, b)
  BY <1>6, <1>7 DEF SameWhere
<1>9. SameDone(u, b)
  <2>1. v.left = x.left - n /\ v.moved = x.moved \o Span(a, n) /\ v.p.o_bytnum = x.p.o_bytnum + n
        /\ v.d.o_fileln = Longest(x.d.o_fileln, x.p.o_bytnum + n)
    BY <1>4 DEF Moved
  <2>2. b.left = y.left - n /\ b.moved = y.moved \o Span(a, n) /\ b.p.o_bytnum = y.p.o_bytnum + n
        /\ b.d.o_fileln = Longest(y.d.o_fileln, y.p.o_bytnum + n)
    BY <1>4 DEF Moved
  <2> QED
    BY <1>2, <1>7, <2>1, <2>2 DEF SameDone
<1>10. u = b
  BY <1>6, <1>7, <1>8, <1>9, XferSame
<1> QED
  BY <1>1, <1>7, <1>10

LEMMA SpanSplit ==
  ASSUME NEW m \in Seq(Int), NEW s \in Int, NEW a \in Nat, NEW b \in Nat
  PROVE  m \o Span(s, a + b) = (m \o Span(s, a)) \o Span(s + a, b)
<1>0. PICK f, g, h : f = Span(s, a + b) /\ g = Span(s, a) /\ h = Span(s + a, b)
  OBVIOUS
<1>1. f \in Seq(Int) /\ Len(f) = a + b /\ \A i \in 1 .. a + b : f[i] = s + i - 1
  <2>1. a + b \in Nat
    OBVIOUS
  <2>2. /\ Span(s, a + b) \in Seq(Int) /\ Len(Span(s, a + b)) = a + b
        /\ \A i \in 1 .. a + b : Span(s, a + b)[i] = s + i - 1
    BY <2>1, SpanFacts
  <2> QED
    BY <1>0, <2>2
<1>2. g \in Seq(Int) /\ Len(g) = a /\ \A i \in 1 .. a : g[i] = s + i - 1
  BY <1>0, SpanFacts
<1>3. h \in Seq(Int) /\ Len(h) = b /\ \A i \in 1 .. b : h[i] = (s + a) + i - 1
  <2>1. s + a \in Int
    OBVIOUS
  <2>2. /\ Span(s + a, b) \in Seq(Int) /\ Len(Span(s + a, b)) = b
        /\ \A i \in 1 .. b : Span(s + a, b)[i] = (s + a) + i - 1
    BY <2>1, SpanFacts
  <2> QED
    BY <1>0, <2>2
<1>4. f = g \o h
  <2>1. g \o h \in Seq(Int) /\ Joined(g, h, g \o h)
    BY <1>2, <1>3, ConcatFacts
  <2>2. Len(g \o h) = Len(f)
    BY <1>1, <1>2, <1>3, <2>1 DEF Joined
  <2>3. ASSUME NEW i \in 1 .. a + b
        PROVE  f[i] = (g \o h)[i]
    <3>1. CASE i \in 1 .. a
      <4>1. (g \o h)[i] = g[i]
        BY <1>2, <2>1, <3>1 DEF Joined
      <4> QED
        BY <1>1, <1>2, <3>1, <4>1
    <3>2. CASE i \notin 1 .. a
      <4>1. PICK j \in 1 .. b : i = a + j
        <5>1. i - a \in 1 .. b /\ i = a + (i - a)
          BY <3>2
        <5> QED
          BY <5>1
      <4>2. (g \o h)[a + j] = h[j]
        BY <1>2, <1>3, <2>1 DEF Joined
      <4>3. f[a + j] = s + (a + j) - 1 /\ h[j] = (s + a) + j - 1
        BY <1>1, <1>3, <4>1
      <4>4. s + (a + j) - 1 = (s + a) + j - 1
        OBVIOUS
      <4> QED
        BY <4>1, <4>2, <4>3, <4>4
    <3> QED
      BY <3>1, <3>2
  <2> QED
    BY <1>1, <2>1, <2>2, <2>3, SeqEqual
<1>5. m \o (g \o h) = (m \o g) \o h
  <2>1. \A p, q, e \in Seq(Int) : (p \o q) \o e = p \o (q \o e)
    BY ConcatAssociative
  <2> QED
    BY <1>2, <1>3, <2>1
<1> QED
  BY <1>0, <1>4, <1>5

(* FoldRuns of clusters that follow each other are moved in one piece.         *)
LEMMA MoveSplit ==
  ASSUME NEW x \in Xfer, NEW at \in Int, NEW bt \in Int, NEW a \in Nat, NEW b \in Nat,
         a >= m_clsizb, b >= m_clsizb, bt * m_recsiz = at * m_recsiz + a
  PROVE  Move(x, at, 0, a + b) = Move(Move(x, at, 0, a), bt, 0, b)
<1>0. m_clsizb \in Nat /\ m_recsiz \in Nat
  BY Drive
<1>1. PICK v, y, u, s, t : /\ v = Move(x, at, 0, a + b) /\ y = Move(x, at, 0, a) /\ u = Move(y, bt, 0, b)
                           /\ s = at * m_recsiz + 0 /\ t = bt * m_recsiz + 0
  OBVIOUS
<1>2. s \in Int /\ t = s + a
  <2>1. PICK e, f : e = at * m_recsiz /\ f = bt * m_recsiz
    OBVIOUS
  <2>2. e \in Int /\ f = e + a
    BY <1>0, <2>1
  <2> QED
    BY <1>1, <2>1, <2>2
<1>3. Moved(x, v, s, a + b) /\ Moved(x, y, s, a)
  BY <1>1, MoveFields
<1>4. y \in Xfer /\ Moved(y, u, s + a, b)
  <2>1. y \in Xfer
    BY <1>3 DEF Moved
  <2>2. Moved(y, u, t, b)
    BY <1>1, <2>1, MoveFields
  <2> QED
    BY <1>2, <2>1, <2>2
<1>5. ~(a < m_clsizb) /\ ~(b < m_clsizb) /\ ~(a + b < m_clsizb)
  BY <1>0
<1>6. v \in Xfer /\ u \in Xfer /\ SameWhere(v, u)
  BY <1>3, <1>4, <1>5 DEF Moved, SameWhere
<1>7. v.moved = u.moved
  <2>1. x.moved \in Seq(Int)
    BY XferFields
  <2>2. x.moved \o Span(s, a + b) = (x.moved \o Span(s, a)) \o Span(s + a, b)
    BY <1>2, <2>1, SpanSplit
  <2> QED
    BY <1>3, <1>4, <2>2 DEF Moved
<1>8. v.left = u.left /\ v.p.o_bytnum = u.p.o_bytnum /\ v.d.o_fileln = u.d.o_fileln
  <2>1. x.left \in Int /\ x.p.o_bytnum \in Int /\ x.d.o_fileln \in Int
    BY XferFields
  <2>2. PICK l, q, f : l = x.left /\ q = x.p.o_bytnum /\ f = x.d.o_fileln
    OBVIOUS
  <2>3. v.left = l - (a + b) /\ v.p.o_bytnum = q + (a + b) /\ v.d.o_fileln = Longest(f, q + (a + b))
    BY <1>3, <2>2 DEF Moved
  <2>4. y.left = l - a /\ y.p.o_bytnum = q + a /\ y.d.o_fileln = Longest(f, q + a)
    BY <1>3, <2>2 DEF Moved
  <2>5. u.left = y.left - b /\ u.p.o_bytnum = y.p.o_bytnum + b /\ u.d.o_fileln = Longest(y.d.o_fileln, y.p.o_bytnum + b)
    BY <1>4 DEF Moved
  <2>6. \A i, j \in Int : i - (a + b) = (i - a) - b /\ j + (a + b) = (j + a) + b
    OBVIOUS
  <2>7. \A i, j \in Int : Longest(i, j + (a + b)) = Longest(Longest(i, j + a), (j + a) + b)
    BY DEF Longest
  <2>8. l \in Int /\ q \in Int /\ f \in Int
    BY <2>1, <2>2
  <2> QED
    BY <2>3, <2>4, <2>5, <2>6, <2>7, <2>8
<1>9. v = u
  BY <1>6, <1>7, <1>8, XferSame DEF SameDone
<1> QED
  BY <1>1, <1>9

(* What is pending is done in Pending(s), which has the chain's next bytes *)
(* up to cluster i of the loop.                                            *)
Covers(z, r, w, l, i, s) ==
  /\ \E c : Good(z, r, Pending(s), c, w)
  /\ Pending(s).ended = s.x.ended
  /\ ~s.x.ended => Pending(s).p.o_curbyt \in {0, m_clsizb} /\ Pending(s).left = l - Off(i)

LEMMA FirstPass ==
  ASSUME NEW z, NEW r, NEW w, Start(z, r, w), NEW v, NEW c, Good(z, r, v, c, w), ~v.ended,
         v.p.o_curbyt \in {0, m_clsizb}, NEW l \in Nat, NEW i \in Nat, i > 0,
         v.left = l - Off(i - 1), Off(i) <= l
  PROVE  Covers(z, r, w, l, i, First(nextcl(v, w)))
<1>0. m_clsizb \in Nat /\ m_clsizb > 0 /\ m_clsiz \in Nat /\ m_clsiz > 0 /\ m_recsiz \in Nat
  BY Drive
<1>1. Off(i) = Off(i - 1) + m_clsizb /\ Off(i - 1) \in Int /\ Off(i) \in Int
  <2>1. i - 1 \in Int /\ (i - 1) + 1 = i /\ i \in Int
    OBVIOUS
  <2>2. \A k \in Int : Off(k) \in Int /\ Off(k + 1) = Off(k) + m_clsizb
    BY OffFacts
  <2>3. Off((i - 1) + 1) = Off(i - 1) + m_clsizb /\ Off(i - 1) \in Int /\ Off(i) \in Int
    BY <2>1, <2>2
  <2> QED
    BY <2>1, <2>3
<1>2. PICK e : e = v.left
  OBVIOUS
<1>3. e \in Int /\ e >= m_clsizb /\ e - m_clsizb = l - Off(i) /\ e > 0
  BY <1>0, <1>1, <1>2
<1>4. PICK y : y = nextcl(v, w)
  OBVIOUS
<1>5. Opened(z, r, v, y, c, w)
  BY <1>2, <1>3, <1>4, NextOpens
<1>6. PICK t : t = First(y)
  OBVIOUS
<1>7. CASE y.ended
  <2>1. Good(z, r, y, c, w)
    BY <1>5, <1>7 DEF Opened, Open
  <2>2. Pending(t) = y /\ t.x = y
    BY <1>6, <1>7 DEF First, Pending, MoveRecords
  <2>3. Covers(z, r, w, l, i, t)
    BY <1>7, <2>1, <2>2 DEF Covers
  <2> QED
    BY <1>4, <1>6, <2>3
<1>8. CASE ~y.ended
  <2>1. PICK s1 : Open(z, r, y, s1) /\ y.p.o_curbyt = 0 /\ SameDone(v, y)
    BY <1>5, <1>8 DEF Opened
  <2>2. y \in Xfer /\ y.p.o_currec \in Int /\ y.left = e
    BY <1>2, <2>1, XferFields DEF Open, SameDone
  <2>3. PICK a : a = m_clsiz * m_recsiz
    OBVIOUS
  <2>4. a = m_clsizb
    BY <2>3, BytesFacts DEF Bytes
  <2>5. Pending(t) = Move(y, y.p.o_currec, 0, a) /\ t.x = y
    <3>1. t.x = y /\ t.run.at = y.p.o_currec /\ t.run.n = m_clsiz
      BY <1>6, <1>8 DEF First
    <3> QED
      BY <1>0, <2>3, <3>1 DEF Pending, MoveRecords
  <2>6. Room(y, y.p.o_currec, 0, a)
    BY <1>0, <1>3, <2>1, <2>2, <2>4 DEF Room
  <2>7. PICK u : u = Pending(t)
    OBVIOUS
  <2>8. /\ Good(z, r, u, s1, w) /\ ~u.ended /\ u.left = y.left - a
        /\ u.p.o_curbyt = IF a < m_clsizb THEN y.p.o_curbyt + a ELSE y.p.o_curbyt
    BY <2>1, <2>5, <2>6, <2>7, MoveDone
  <2>9. u.p.o_curbyt = 0 /\ u.left = l - Off(i)
    BY <1>0, <1>3, <2>1, <2>2, <2>4, <2>8
  <2>10. u.ended = FALSE /\ y.ended = FALSE
    <3>1. u \in Xfer
      BY <2>8 DEF Good
    <3> QED
      BY <1>8, <2>2, <2>8, <3>1, XferFields
  <2>11. Covers(z, r, w, l, i, t)
    BY <2>5, <2>7, <2>8, <2>9, <2>10 DEF Covers
  <2> QED
    BY <1>4, <1>6, <2>11
<1> QED
  BY <1>7, <1>8

Shaped(s) ==
  /\ s \in [x : Xfer, run : [at : Int, n : Int]]
  /\ s.run.n = 0 \/ s.run.n >= m_clsiz
  /\ s.x.ended => s.run.n = 0

Passing(z, r, w, l, i, s) == Shaped(s) /\ Covers(z, r, w, l, i, s)

LEMMA JoinIs ==
  ASSUME NEW s, Shaped(s), s.run.n # 0, NEW w \in BOOLEAN, NEW t, t = ClusterPass(s, w),
         NEW u, u = nextcl(Pending(s), w)
  PROVE  Shaped(t) /\ t.x.ended = u.ended /\ Pending(t) = Pending(First(u))
<1>0. /\ m_clsizb \in Nat /\ m_clsiz \in Nat /\ m_clsiz > 0 /\ m_recsiz \in Nat /\ m_recsiz > 0
      /\ CNTMAX \in Nat
  BY Drive
<1>1. PICK x, at, n : x = s.x /\ at = s.run.at /\ n = s.run.n
  OBVIOUS
<1>2. x \in Xfer /\ at \in Int /\ n \in Nat /\ n >= m_clsiz /\ n > 0 /\ ~x.ended
  <2>1. x \in Xfer /\ at \in Int /\ n \in Int /\ n >= m_clsiz /\ ~x.ended
    BY <1>1 DEF Shaped
  <2> QED
    BY <1>0, <2>1
<1>3. PICK y, a : y = nextcl(x, w) /\ a = n * m_recsiz
  OBVIOUS
<1>4. a \in Nat /\ a >= m_clsizb /\ Bytes(n) = a
  <2>1. Bytes(n) \in Nat /\ Bytes(m_clsiz) <= Bytes(n) /\ Bytes(m_clsiz) = m_clsizb
    <3>1. n \in Int /\ m_clsiz \in Int /\ m_clsiz <= n
      BY <1>0, <1>2
    <3>2. \A i, j \in Int : i <= j => Bytes(i) <= Bytes(j)
      BY BytesFacts
    <3>3. Bytes(n) \in Nat /\ Bytes(m_clsiz) = m_clsizb
      BY <1>2, BytesFacts
    <3> QED
      BY <3>1, <3>2, <3>3
  <2> QED
    BY <1>3, <2>1 DEF Bytes
<1>5. Pending(s) = Move(x, at, 0, a)
  BY <1>1, <1>2, <1>3 DEF Pending, MoveRecords
<1>6. /\ y \in Xfer /\ u = Move(y, at, 0, a) /\ SameWhere(y, u)
      /\ \A q : MoveRecords(q, at, n) = Move(q, at, 0, a)
  <2>1. y \in Xfer
    BY <1>2, <1>3, NextDone
  <2>2. u = Move(y, at, 0, a) /\ SameWhere(y, u)
    BY <1>2, <1>3, <1>4, <1>5, NextLater
  <2>3. \A q : MoveRecords(q, at, n) = Move(q, at, 0, a)
    BY <1>2, <1>3 DEF MoveRecords
  <2> QED
    BY <2>1, <2>2, <2>3
<1>7. u \in Xfer /\ u.ended = y.ended /\ u.p.o_currec = y.p.o_currec /\ u.p.o_currec \in Int
  <2>1. Moved(y, u, at * m_recsiz + 0, a)
    BY <1>2, <1>4, <1>6, MoveFields
  <2> QED
    BY <1>6, <2>1, XferFields DEF Moved
<1>8. t = Join(s, y)
  BY <1>1, <1>2, <1>3 DEF ClusterPass
<1>9. CASE y.ended \/ y.p.o_currec # at + n \/ n + m_clsiz > CNTMAX
  <2>1. t = [x |-> MoveRecords(y, at, n), run |-> [at |-> y.p.o_currec, n |-> IF y.ended THEN 0 ELSE m_clsiz]]
    BY <1>1, <1>8, <1>9 DEF Join
  <2>2. t = First(u)
    BY <1>6, <1>7, <2>1 DEF First
  <2>3. Shaped(t) /\ t.x = u
    <3>1. t = [x |-> u, run |-> [at |-> u.p.o_currec, n |-> IF u.ended THEN 0 ELSE m_clsiz]]
      BY <2>2 DEF First
    <3>2. (IF u.ended THEN 0 ELSE m_clsiz) \in Int
      BY <1>0
    <3>3. t \in [x : Xfer, run : [at : Int, n : Int]]
      BY <1>7, <3>1, <3>2
    <3>4. t.x = u /\ t.run.n = IF u.ended THEN 0 ELSE m_clsiz
      BY <3>1
    <3> QED
      BY <1>0, <3>3, <3>4 DEF Shaped
  <2> QED
    BY <2>2, <2>3
<1>10. CASE ~y.ended /\ y.p.o_currec = at + n /\ ~(n + m_clsiz > CNTMAX)
  <2>1. t = [x |-> y, run |-> [s.run EXCEPT !.n = @ + m_clsiz]]
    BY <1>1, <1>8, <1>10 DEF Join
  <2>2. s.run \in [at : Int, n : Int]
    BY DEF Shaped
  <2>3. /\ t \in [x : Xfer, run : [at : Int, n : Int]] /\ t.x = y
        /\ t.run.at = at /\ t.run.n = n + m_clsiz
    <3>1. PICK d : d = [s.run EXCEPT !.n = @ + m_clsiz]
      OBVIOUS
    <3>2. n + m_clsiz \in Int
      BY <1>0, <1>2
    <3>3. d \in [at : Int, n : Int] /\ d.at = at /\ d.n = n + m_clsiz
      BY <1>1, <2>2, <3>1, <3>2
    <3>4. t = [x |-> y, run |-> d]
      BY <2>1, <3>1
    <3> QED
      BY <1>6, <3>3, <3>4
  <2>4. Shaped(t)
    BY <1>0, <1>2, <1>10, <2>3 DEF Shaped
  <2>5. Pending(t) = Move(u, at + n, 0, m_clsizb)
    <3>1. Pending(t) = Move(y, at, 0, (n + m_clsiz) * m_recsiz)
      BY <1>0, <1>2, <2>3 DEF Pending, MoveRecords
    <3>2. (n + m_clsiz) * m_recsiz = a + m_clsizb
      <4>1. Bytes(n + m_clsiz) = Bytes(n) + Bytes(m_clsiz) /\ Bytes(m_clsiz) = m_clsizb
        BY <1>0, <1>2, BytesFacts
      <4> QED
        BY <1>4, <4>1 DEF Bytes
    <3>3. (at + n) * m_recsiz = at * m_recsiz + a
      <4>1. Bytes(at + n) = Bytes(at) + Bytes(n)
        BY <1>2, BytesFacts
      <4> QED
        BY <1>4, <4>1 DEF Bytes
    <3>4. at + n \in Int /\ m_clsizb >= m_clsizb
      BY <1>0, <1>2
    <3>5. Move(y, at, 0, a + m_clsizb) = Move(Move(y, at, 0, a), at + n, 0, m_clsizb)
      BY <1>0, <1>2, <1>4, <1>6, <3>3, <3>4, MoveSplit
    <3> QED
      BY <1>6, <3>1, <3>2, <3>5
  <2>6. Pending(First(u)) = Move(u, at + n, 0, m_clsizb)
    <3>1. First(u) = [x |-> u, run |-> [at |-> at + n, n |-> m_clsiz]]
      BY <1>7, <1>10 DEF First
    <3>2. m_clsiz * m_recsiz = m_clsizb /\ m_clsiz # 0
      BY <1>0, BytesFacts DEF Bytes
    <3> QED
      BY <3>1, <3>2 DEF Pending, MoveRecords
  <2> QED
    BY <1>7, <2>3, <2>4, <2>5, <2>6
<1> QED
  BY <1>9, <1>10

(* The whole clusters of l bytes, and what they leave.                     *)
LEMMA ClustersIn ==
  ASSUME NEW x, x.left \in Nat, NEW n, n = RecordsLeft(x) \div m_clsiz
  PROVE  n \in Nat /\ Off(n) <= x.left /\ x.left < Off(n) + m_clsizb
<1>0. m_recsiz \in Nat /\ m_recsiz > 0 /\ m_clsiz \in Nat /\ m_clsiz > 0 /\ m_clsizb \in Nat
  BY Drive
<1>1. PICK l, k, t : l = x.left /\ k = RecordsLeft(x) /\ t = k % m_clsiz
  OBVIOUS
<1>2. k \in Nat /\ Bytes(k) <= l /\ l < Bytes(k) + m_recsiz /\ n \in Nat /\ l \in Nat
  BY <1>1, LeftFacts
<1>3. t \in 0 .. m_clsiz - 1 /\ k = n * m_clsiz + t
  BY <1>0, <1>1, <1>2, DivFacts
<1>4. PICK c : c = n * m_clsiz
  OBVIOUS
<1>5. c \in Nat /\ c <= k /\ k < c + m_clsiz
  BY <1>0, <1>2, <1>3, <1>4
<1>6. Bytes(c) <= Bytes(k) /\ Bytes(k) + m_recsiz <= Bytes(c + m_clsiz)
  <2>1. \A i, j \in Int : (i < j => Bytes(i) + m_recsiz <= Bytes(j)) /\ (i <= j => Bytes(i) <= Bytes(j))
    BY BytesFacts
  <2>2. c \in Int /\ k \in Int /\ c + m_clsiz \in Int
    BY <1>0, <1>2, <1>5
  <2> QED
    BY <1>5, <2>1, <2>2
<1>7. Bytes(c + m_clsiz) = Bytes(c) + m_clsizb /\ Bytes(c) \in Nat /\ Bytes(k) \in Nat
  <2>1. Bytes(c + m_clsiz) = Bytes(c) + Bytes(m_clsiz) /\ Bytes(m_clsiz) = m_clsizb
    BY <1>0, <1>5, BytesFacts
  <2>2. Bytes(c) \in Nat /\ Bytes(k) \in Nat
    BY <1>2, <1>5, BytesFacts
  <2> QED
    BY <2>1, <2>2
<1>8. Off(n) = Bytes(c)
  <2>1. \A i, j, e \in Nat : i * (e * j) = (i * j) * e
    OBVIOUS
  <2> QED
    BY <1>0, <1>2, <1>4, <2>1 DEF Off, Bytes, m_clsizb
<1>9. Bytes(c) <= l /\ l < Bytes(c) + m_clsizb
  BY <1>0, <1>2, <1>6, <1>7
<1> QED
  BY <1>1, <1>2, <1>8, <1>9

LEMMA LoopGood ==
  ASSUME NEW z, NEW r, NEW w, Start(z, r, w), NEW x, NEW s, Good(z, r, x, s, w), ~x.ended,
         x.p.o_curbyt \in {0, m_clsizb}, NEW n, n = RecordsLeft(x) \div m_clsiz
  PROVE  Passing(z, r, w, x.left, n, WholeClusters(x, w))
<1> DEFINE q == [i \in 1 .. n |-> i]
           k == [kind |-> "passes", writing |-> w]
           l == x.left
           States == [x : Xfer, run : [at : Int, n : Int]]
           R == {p \in Nat \X States : Passing(z, r, w, l, p[1], p[2])}
<1>1. x \in Xfer /\ l \in Nat
  BY PlacedByte
<1>2. n \in Nat /\ Off(n) <= l
  BY <1>1, ClustersIn
<1>3. w \in BOOLEAN
  BY DEF Start
<1>4. FoldRuns(k, NoRun(x), q, WholeClusters(x, w))
  BY <1>2, PassesRun
<1>5. Len(q) = n /\ \A i \in 1 .. n : q[i] = i
  BY <1>2
<1>6. \A y, j : Step(k, y, j) = ClusterPass(y, w)
  BY DEF Step
<1>7. <<0, NoRun(x)>> \in R
  <2>1. Pending(NoRun(x)) = x /\ NoRun(x).x = x /\ NoRun(x).run.n = 0
    BY DEF Pending, MoveRecords, NoRun
  <2>2. NoRun(x) \in States
    BY <1>1 DEF NoRun
  <2>3. Shaped(NoRun(x))
    BY <2>1, <2>2 DEF Shaped
  <2>4. l = l - Off(0)
    <3>1. Off(0) = 0
      BY OffFacts
    <3>2. \A j \in Nat : j = j - 0
      OBVIOUS
    <3>3. l = l - 0
      BY <1>1, <3>2
    <3> QED
      BY <3>1, <3>3
  <2>5. Covers(z, r, w, l, 0, NoRun(x))
    BY <2>1, <2>4 DEF Covers
  <2> QED
    BY <2>2, <2>3, <2>5 DEF Passing
<1>8. ASSUME NEW i \in 1 .. n, NEW y, <<i - 1, y>> \in R
      PROVE  <<i, ClusterPass(y, w)>> \in R
  <2>1. PICK t : t = ClusterPass(y, w)
    OBVIOUS
  <2>2. Shaped(y) /\ Covers(z, r, w, l, i - 1, y) /\ i \in Nat /\ i > 0
    BY <1>2, <1>8 DEF Passing
  <2>3. Off(i) <= l
    <3>1. i \in Int /\ n \in Int /\ i <= n
      BY <1>2
    <3>2. Off(i) <= Off(n) /\ Off(i) \in Int /\ Off(n) \in Int
      BY <3>1, OffFacts
    <3> QED
      BY <1>1, <1>2, <3>2
  <2>4. CASE y.x.ended
    <3>1. t = y
      BY <2>1, <2>4 DEF ClusterPass
    <3>2. Covers(z, r, w, l, i, y)
      BY <2>2, <2>4 DEF Covers
    <3>3. Shaped(t) /\ Covers(z, r, w, l, i, t)
      BY <2>2, <3>1, <3>2
    <3>4. t \in States
      BY <3>3 DEF Shaped
    <3> QED
      BY <2>1, <2>2, <3>3, <3>4 DEF Passing
  <2>5. CASE ~y.x.ended
    <3>1. PICK v : v = Pending(y)
      OBVIOUS
    <3>2. PICK c : Good(z, r, v, c, w)
      BY <2>2, <3>1 DEF Covers
    <3>3. ~v.ended /\ v.p.o_curbyt \in {0, m_clsizb} /\ v.left = l - Off(i - 1)
      BY <2>2, <2>5, <3>1 DEF Covers
    <3>4. PICK u : u = nextcl(v, w)
      OBVIOUS
    <3>5. Covers(z, r, w, l, i, First(u))
      <4> HIDE DEF l
      <4> QED
        BY <1>1, <2>2, <2>3, <3>2, <3>3, <3>4, FirstPass
    <3>6. Shaped(t) /\ t.x.ended = u.ended /\ Pending(t) = Pending(First(u))
      <4>1. CASE y.run.n = 0
        <5>1. v = y.x
          BY <3>1, <4>1 DEF Pending, MoveRecords
        <5>2. t = First(u)
          BY <2>1, <2>5, <3>4, <4>1, <5>1 DEF ClusterPass
        <5>3. u \in Xfer /\ u.p.o_currec \in Int
          <6>1. v \in Xfer
            BY <3>2 DEF Good
          <6> QED
            BY <1>3, <3>4, <6>1, NextDone, XferFields
        <5>4. t = [x |-> u, run |-> [at |-> u.p.o_currec, n |-> IF u.ended THEN 0 ELSE m_clsiz]]
          BY <5>2 DEF First
        <5>5. (IF u.ended THEN 0 ELSE m_clsiz) \in Int /\ m_clsiz >= m_clsiz
          BY Drive
        <5>6. t.x = u /\ t.run.n = (IF u.ended THEN 0 ELSE m_clsiz) /\ t \in States
          BY <5>3, <5>4, <5>5
        <5>7. Shaped(t)
          BY <5>5, <5>6 DEF Shaped
        <5> QED
          BY <5>2, <5>6, <5>7
      <4>2. CASE y.run.n # 0
        BY <1>3, <2>1, <2>2, <3>1, <3>4, <4>2, JoinIs
      <4> QED
        BY <4>1, <4>2
    <3>7. Covers(z, r, w, l, i, t)
      <4>1. First(u).x = u
        BY DEF First
      <4> QED
        BY <3>5, <3>6, <4>1 DEF Covers
    <3>8. t \in States
      BY <3>6 DEF Shaped
    <3> QED
      BY <2>1, <2>2, <3>6, <3>7, <3>8 DEF Passing
  <2> QED
    BY <2>4, <2>5
<1>9. <<n, WholeClusters(x, w)>> \in R
  <2> HIDE DEF R, k, q
  <2>1. PICK b, d : b = NoRun(x) /\ d = WholeClusters(x, w)
    OBVIOUS
  <2>2. Len(q) \in Nat /\ FoldRuns(k, b, q, d) /\ <<0, b>> \in R
    BY <1>2, <1>4, <1>5, <1>7, <2>1
  <2>3. ASSUME NEW i \in 1 .. Len(q), NEW y, <<i - 1, y>> \in R
        PROVE  <<i, Step(k, y, q[i])>> \in R
    BY <1>5, <1>6, <1>8, <2>3
  <2>4. <<Len(q), d>> \in R
    BY <2>2, <2>3, RunReach
  <2> QED
    BY <1>5, <2>1, <2>4
<1> QED
  BY <1>9

LEMMA LoopNone ==
  ASSUME NEW x, NEW w, RecordsLeft(x) = 0
  PROVE  Pending(WholeClusters(x, w)) = x
<1> DEFINE n == RecordsLeft(x) \div m_clsiz
           q == [i \in 1 .. n |-> i]
           k == [kind |-> "passes", writing |-> w]
<1>1. n = 0
  <2>1. m_clsiz \in Nat /\ m_clsiz > 0
    BY Drive
  <2>2. (0 * m_clsiz + 0) \div m_clsiz = 0
    BY <2>1, DivIs
  <2>3. 0 * m_clsiz + 0 = 0
    BY <2>1
  <2> QED
    BY <2>2, <2>3
<1>2. FoldRuns(k, NoRun(x), q, WholeClusters(x, w))
  BY <1>1, PassesRun
<1>3. Len(q) = 0
  BY <1>1
<1>4. <<Len(q), WholeClusters(x, w)>> \in {<<0, NoRun(x)>>}
  <2> HIDE DEF k, q
  <2>1. PICK R, b, d : R = {<<0, NoRun(x)>>} /\ b = NoRun(x) /\ d = WholeClusters(x, w)
    OBVIOUS
  <2>2. Len(q) \in Nat /\ <<0, b>> \in R /\ FoldRuns(k, b, q, d)
    BY <1>2, <1>3, <2>1
  <2>3. ASSUME NEW i \in 1 .. Len(q), NEW y, <<i - 1, y>> \in R
        PROVE  <<i, Step(k, y, q[i])>> \in R
    BY <1>3
  <2>4. <<Len(q), d>> \in R
    BY <2>2, <2>3, RunReach
  <2> QED
    BY <2>1, <2>4
<1>5. WholeClusters(x, w) = NoRun(x)
  BY <1>4
<1> QED
  BY <1>5 DEF Pending, MoveRecords, NoRun

(* Less than a record is left, and it begins at the start of one.          *)
Rest(z, r, w, y) ==
  /\ \E s : Good(z, r, y, s, w)
  /\ y.ended \/ (y.left < m_recsiz /\ Aligned(y))

LEMMA NoRecords ==
  ASSUME NEW x, x.left \in Nat, RecordsLeft(x) = 0
  PROVE  x.left < m_recsiz
<1>1. x.left < Bytes(RecordsLeft(x)) + m_recsiz
  BY LeftFacts
<1>2. Bytes(0) = 0 /\ m_recsiz \in Nat
  BY BytesFacts, Drive
<1>3. Bytes(0) + m_recsiz = m_recsiz
  BY <1>2
<1> QED
  BY <1>1, <1>3

LEMMA EdgeAligned ==
  ASSUME NEW x, x.p.o_curbyt \in {0, m_clsizb}
  PROVE  Aligned(x)
<1>1. Bytes(0) = 0 /\ Bytes(m_clsiz) = m_clsizb /\ 0 \in Int /\ m_clsiz \in Int
  BY BytesFacts, Drive
<1>2. Bytes(0) % m_recsiz = 0 /\ Bytes(m_clsiz) % m_recsiz = 0
  BY <1>1, BytesMod
<1> QED
  BY <1>1, <1>2 DEF Aligned

LEMMA TailGood ==
  ASSUME NEW z, NEW r, NEW w, Start(z, r, w), NEW x, NEW s, Good(z, r, x, s, w),
         x.ended \/ (x.p.o_curbyt \in {0, m_clsizb} /\ x.left < m_clsizb)
  PROVE  Rest(z, r, w, TailRecords(x, w))
<1>0. /\ m_clsizb \in Nat /\ m_clsizb > 0 /\ m_clsiz \in Nat /\ m_clsiz > 0 /\ m_recsiz \in Nat
      /\ m_recsiz > 0 /\ m_recsiz <= m_clsizb
  BY Drive
<1>1. x \in Xfer /\ x.left \in Nat
  BY PlacedByte
<1>2. CASE x.ended
  BY <1>2 DEF TailRecords, Rest
<1>3. CASE ~x.ended /\ RecordsLeft(x) = 0
  BY <1>1, <1>3, NoRecords, EdgeAligned DEF TailRecords, Rest
<1>4. CASE ~x.ended /\ RecordsLeft(x) # 0
  <2>1. PICK l, n, a : l = x.left /\ n = RecordsLeft(x) /\ a = n * m_recsiz
    OBVIOUS
  <2>2. /\ n \in Nat /\ n > 0 /\ a = Bytes(n) /\ a \in Nat /\ a > 0 /\ a <= l /\ l < a + m_recsiz
        /\ l \in Nat /\ l < m_clsizb /\ x.p.o_curbyt \in {0, m_clsizb}
    <3>1. n \in Nat /\ Bytes(n) <= l /\ l < Bytes(n) + m_recsiz
      BY <1>1, <2>1, LeftFacts
    <3>2. n > 0 /\ a = Bytes(n)
      BY <1>4, <2>1, <3>1 DEF Bytes
    <3>3. Bytes(n) \in Nat /\ Bytes(n) > 0
      BY <3>1, <3>2, BytesFacts
    <3> QED
      BY <1>1, <1>4, <2>1, <3>1, <3>2, <3>3
  <2>3. x.left > 0
    BY <2>1, <2>2
  <2>4. PICK y, u : y = nextcl(x, w) /\ u = TailRecords(x, w)
    OBVIOUS
  <2>5. Opened(z, r, x, y, s, w)
    BY <1>4, <2>2, <2>3, <2>4, NextOpens
  <2>6. u = LastRecords(x, y, n)
    BY <1>4, <2>1, <2>4 DEF TailRecords
  <2>7. CASE y.ended
    <3>1. Good(z, r, y, s, w)
      BY <2>5, <2>7 DEF Opened, Open
    <3>2. u = y
      BY <2>6, <2>7 DEF LastRecords
    <3> QED
      BY <2>4, <2>7, <3>1, <3>2 DEF Rest
  <2>8. CASE ~y.ended
    <3>1. PICK s1 : Open(z, r, y, s1) /\ y.p.o_curbyt = 0 /\ SameDone(x, y)
      BY <2>5, <2>8 DEF Opened
    <3>2. y \in Xfer /\ y.p.o_currec \in Int /\ y.left = l
      BY <2>1, <3>1, XferFields DEF Open, SameDone
    <3>3. u = Move(y, y.p.o_currec, 0, a)
      BY <2>1, <2>2, <2>6, <2>8 DEF LastRecords, MoveRecords
    <3>4. Room(y, y.p.o_currec, 0, a)
      BY <1>0, <2>2, <3>1, <3>2 DEF Room
    <3>5. /\ Good(z, r, u, s1, w) /\ u.left = y.left - a
          /\ u.p.o_curbyt = IF a < m_clsizb THEN y.p.o_curbyt + a ELSE y.p.o_curbyt
      BY <3>1, <3>3, <3>4, MoveDone
    <3>6. u.p.o_curbyt = a /\ u.left < m_recsiz
      BY <1>0, <2>2, <3>1, <3>2, <3>5
    <3>7. Aligned(u)
      BY <2>2, <3>6, BytesMod DEF Aligned
    <3> QED
      BY <2>4, <3>5, <3>6, <3>7 DEF Rest
  <2> QED
    BY <2>7, <2>8
<1> QED
  BY <1>2, <1>3, <1>4

LEMMA RecsGood ==
  ASSUME NEW z, NEW r, NEW w, Start(z, r, w), NEW x, NEW s, Good(z, r, x, s, w), ~x.ended,
         Aligned(x)
  PROVE  Rest(z, r, w, xrw_recs(x, w))
<1>0. x.left \in Nat
  BY PlacedByte
<1>1. CASE RecordsLeft(x) = 0
  <2>1. xrw_recs(x, w) = x
    BY <1>1 DEF xrw_recs
  <2>2. x.left < m_recsiz
    BY <1>0, <1>1, NoRecords
  <2> QED
    BY <2>1, <2>2 DEF Rest
<1>2. CASE RecordsLeft(x) # 0
  <2>1. PICK h : h = MoveRecords(x, Record(x), Header(x))
    OBVIOUS
  <2>2. /\ Good(z, r, h, s, w) /\ ~h.ended /\ Aligned(h)
        /\ h.p.o_curbyt \in {0, m_clsizb} \/ RecordsLeft(h) = 0
    BY <1>2, <2>1, HeaderGood
  <2>3. PICK v : v = Pending(WholeClusters(h, w))
    OBVIOUS
  <2>4. xrw_recs(x, w) = TailRecords(v, w)
    BY <1>2, <2>1, <2>3 DEF xrw_recs
  <2>5. h.left \in Nat
    BY <2>2, PlacedByte
  <2>6. CASE RecordsLeft(h) = 0
    <3>1. v = h
      BY <2>3, <2>6, LoopNone
    <3>2. TailRecords(v, w) = h
      BY <2>6, <3>1 DEF TailRecords
    <3>3. h.left < m_recsiz
      BY <2>5, <2>6, NoRecords
    <3> QED
      BY <2>2, <2>4, <3>2, <3>3 DEF Rest
  <2>7. CASE RecordsLeft(h) # 0
    <3>1. PICK n, l : n = RecordsLeft(h) \div m_clsiz /\ l = h.left
      OBVIOUS
    <3>2. n \in Nat /\ Off(n) <= l /\ l < Off(n) + m_clsizb
      BY <2>5, <3>1, ClustersIn
    <3>3. Passing(z, r, w, l, n, WholeClusters(h, w))
      BY <2>2, <2>7, <3>1, LoopGood
    <3>4. /\ \E c : Good(z, r, v, c, w)
          /\ v.ended \/ (v.p.o_curbyt \in {0, m_clsizb} /\ v.left = l - Off(n))
      BY <2>3, <3>3 DEF Passing, Covers
    <3>5. v.left = l - Off(n) => v.left < m_clsizb
      <4>1. Off(n) \in Nat /\ m_clsizb \in Nat /\ l \in Nat
        BY <2>5, <3>1, <3>2, OffFacts, Drive
      <4> QED
        BY <3>2, <4>1
    <3>6. PICK c : Good(z, r, v, c, w)
      BY <3>4
    <3>7. Rest(z, r, w, TailRecords(v, w))
      BY <3>4, <3>5, <3>6, TailGood
    <3> QED
      BY <2>4, <3>7
  <2> QED
    BY <2>6, <2>7
<1> QED
  BY <1>1, <1>2

(* All is done, or no cluster is free.                                     *)
Finished(z, r, w, y) ==
  /\ \E s : Good(z, r, y, s, w)
  /\ y.ended \/ y.left = 0

LEMMA LastGood ==
  ASSUME NEW z, NEW r, NEW w, Start(z, r, w), NEW x, Rest(z, r, w, x)
  PROVE  Finished(z, r, w, LastBytes(x, w))
<1>0. /\ m_clsizb \in Nat /\ m_clsizb > 0 /\ m_clsiz \in Nat /\ m_clsiz > 0 /\ m_recsiz \in Nat
      /\ m_recsiz > 0 /\ m_recsiz <= m_clsizb
  BY Drive
<1>1. PICK s : Good(z, r, x, s, w)
  BY DEF Rest
<1>2. x \in Xfer /\ x.left \in Nat /\ x.p.o_curbyt \in 0 .. m_clsizb /\ x.p.o_currec \in Int
  BY <1>1, PlacedByte
<1>3. CASE x.ended \/ x.left = 0
  <2>1. LastBytes(x, w) = x
    BY <1>3 DEF LastBytes
  <2> QED
    BY <1>1, <1>3, <2>1 DEF Finished
<1>4. CASE ~x.ended /\ x.left # 0
  <2>1. PICK l, b, q, c, u : /\ l = x.left /\ b = x.p.o_curbyt /\ q = b \div m_recsiz /\ c = x.p.o_currec
                             /\ u = LastBytes(x, w)
    OBVIOUS
  <2>2. l \in Nat /\ l > 0 /\ l < m_recsiz /\ b % m_recsiz = 0
    BY <1>2, <1>4, <2>1 DEF Rest, Aligned
  <2>3. /\ q \in 0 .. m_clsiz /\ b \in 0 .. m_clsizb /\ b = Bytes(q) /\ Bytes(q) \in Nat
        /\ q < m_clsiz => Bytes(q) + m_recsiz <= m_clsizb
        /\ q = m_clsiz => b = m_clsizb
        /\ q = 0 => b = 0
    <3>1. b \in 0 .. m_clsizb
      BY <1>2, <2>1
    <3>2. /\ q \in 0 .. m_clsiz /\ b = Bytes(q) + (b % m_recsiz)
          /\ q < m_clsiz => Bytes(q) + m_recsiz <= m_clsizb
          /\ q = m_clsiz => b = m_clsizb
          /\ b % m_recsiz = 0 /\ q = 0 => b = 0
      BY <2>1, <3>1, InRecord
    <3>3. q \in Nat /\ Bytes(q) \in Nat
      BY <1>0, <3>2, BytesFacts
    <3> QED
      BY <2>2, <3>1, <3>2, <3>3
  <2>4. CASE q \in {0, m_clsiz}
    <3>1. PICK y : y = nextcl(x, w)
      OBVIOUS
    <3>2. u = BytesAt(y, y.p.o_currec)
      BY <1>4, <2>1, <2>4, <3>1 DEF LastBytes, BytesOf
    <3>3. x.p.o_curbyt \in {0, m_clsizb} /\ x.left > 0
      BY <2>1, <2>2, <2>3, <2>4
    <3>4. Opened(z, r, x, y, s, w)
      BY <1>1, <1>4, <3>1, <3>3, NextOpens
    <3>5. CASE y.ended
      <4>1. Good(z, r, y, s, w)
        BY <3>4, <3>5 DEF Opened, Open
      <4>2. u = y
        BY <3>2, <3>5 DEF BytesAt
      <4> QED
        BY <2>1, <3>5, <4>1, <4>2 DEF Finished
    <3>6. CASE ~y.ended
      <4>1. PICK s1 : Open(z, r, y, s1) /\ y.p.o_curbyt = 0 /\ SameDone(x, y)
        BY <3>4, <3>6 DEF Opened
      <4>2. y \in Xfer /\ y.p.o_currec \in Int /\ y.left = l
        BY <2>1, <4>1, XferFields DEF Open, SameDone
      <4>3. u = Move(y, y.p.o_currec, 0, l)
        BY <3>2, <3>6, <4>2 DEF BytesAt
      <4>4. Room(y, y.p.o_currec, 0, l)
        BY <1>0, <2>2, <4>1, <4>2 DEF Room
      <4>5. Good(z, r, u, s1, w) /\ u.left = y.left - l
        BY <4>1, <4>3, <4>4, MoveDone
      <4>6. u.left = 0
        BY <2>2, <4>2, <4>5
      <4> QED
        BY <2>1, <4>5, <4>6 DEF Finished
    <3> QED
      BY <3>5, <3>6
  <2>5. CASE q \notin {0, m_clsiz}
    <3>1. u = Move(x, Record(x), 0, l)
      BY <1>4, <2>1, <2>5 DEF LastBytes, BytesAt
    <3>2. /\ q \in Nat /\ 0 < q /\ q < m_clsiz /\ b + m_recsiz <= m_clsizb /\ b > 0
          /\ b \in 1 .. m_clsizb - 1
      <4>1. q \in Nat /\ 0 < q /\ q < m_clsiz
        BY <1>0, <2>3, <2>5
      <4>2. Bytes(q) > 0
        BY <4>1, BytesFacts
      <4> QED
        BY <1>0, <2>3, <4>1, <4>2
    <3>3. Open(z, r, x, s)
      BY <1>1, <1>4, <2>1, <3>2, GoodOpens
    <3>4. Room(x, Record(x), 0, l)
      <4>1. Record(x) = q + c /\ c \in Int /\ Record(x) \in Int
        BY <1>2, <2>1, <3>2 DEF Record
      <4>2. Bytes(q + c) = Bytes(q) + Bytes(c) /\ Bytes(c) \in Int
        <5>1. q \in Int /\ c \in Int
          BY <4>1, <3>2
        <5>2. \A i, j \in Int : Bytes(i + j) = Bytes(i) + Bytes(j)
          BY BytesFacts
        <5>3. \A i \in Int : Bytes(i) \in Int
          BY BytesFacts
        <5> QED
          BY <5>1, <5>2, <5>3
      <4>3. Bytes(Record(x)) + 0 = Bytes(x.p.o_currec) + b
        <5>1. Bytes(Record(x)) = Bytes(q + c) /\ Bytes(x.p.o_currec) = Bytes(c)
          BY <2>1, <4>1
        <5>2. Bytes(q) + Bytes(c) + 0 = Bytes(c) + b
          <6>1. \A i, j \in Int : i + j + 0 = j + i
            OBVIOUS
          <6>2. b = Bytes(q) /\ Bytes(q) \in Int
            BY <2>3
          <6> QED
            BY <4>2, <6>1, <6>2
        <5> QED
          BY <4>2, <5>1, <5>2
      <4>4. b + l <= m_clsizb
        BY <1>0, <2>2, <2>3, <3>2
      <4> QED
        BY <2>1, <2>2, <4>1, <4>3, <4>4 DEF Room, Bytes
    <3>5. Good(z, r, u, s, w) /\ u.left = x.left - l
      BY <3>1, <3>3, <3>4, MoveDone
    <3>6. u.left = 0
      BY <2>1, <2>2, <3>5
    <3> QED
      BY <2>1, <3>5, <3>6 DEF Finished
  <2> QED
    BY <2>4, <2>5
<1> QED
  BY <1>3, <1>4

(* A transfer moves the next bytes of the file, and leaves its chain as    *)
(* long as it needs.                                                       *)
LEMMA XrwGood ==
  ASSUME NEW z, NEW r, NEW w, Start(z, r, w), z.left > 0
  PROVE  Finished(z, r, w, xrw(z, w))
<1>1. PICK x : x = FirstBytes(z)
  OBVIOUS
<1>2. Good(z, r, x, r, w) /\ ~x.ended /\ Aligned(x)
  BY <1>1, FirstGood
<1>3. Rest(z, r, w, xrw_recs(x, w))
  BY <1>2, RecsGood
<1>4. Finished(z, r, w, LastBytes(xrw_recs(x, w), w))
  BY <1>3, LastGood
<1> QED
  BY <1>1, <1>4 DEF xrw

-----------------------------------------------------------------------------
(***************************************************************************)
(* The invariant of the whole state: between the calls the chains are as   *)
(* long as the files need, they do not meet, no other cluster is taken,    *)
(* and every position is in or at the end of a cluster of its file.        *)
(***************************************************************************)
ChainsGood ==
  \A f \in Files : Linked(Chain(f), dfd[f].o_strtcl, fat) /\ Fits(Len(Chain(f)), dfd[f].o_fileln)

ChainsApart ==
  \A f, g \in Files : f # g => Range(Chain(f)) \cap Range(Chain(g)) = {}

AllOwned ==
  \A c \in Clusters : fat[c] # FREECLUSTER => \E f \in Files : c \in Range(Chain(f))

PlacesGood ==
  \A o \in Ofds : /\ Placed(ofd[o], Chain(FileOf[o]))
                  /\ ofd[o].o_bytnum <= dfd[FileOf[o]].o_fileln

FileInv == FileTypes /\ ChainsGood /\ ChainsApart /\ AllOwned /\ PlacesGood

LEMMA OfdFacts ==
  ASSUME FileTypes, NEW o \in Ofds
  PROVE  /\ FileOf[o] \in Files /\ fat \in FATs
         /\ dfd[FileOf[o]] \in Heads /\ dfd[FileOf[o]].o_fileln \in Nat
         /\ ofd[o] \in Places /\ ofd[o].o_bytnum \in Nat
<1>1. FileOf[o] \in Files
  BY FileAssumption
<1>2. m_clsizb \in Nat /\ m_numcl \in Nat /\ m_clsiz \in Nat
  BY Drive
<1>3. m_numcl * m_clsizb \in Nat /\ m_numcl * m_clsiz \in Nat
  BY <1>2
<1>4. /\ fat \in FATs /\ dfd[FileOf[o]] \in Dfd /\ ofd[o] \in Ofd
  BY <1>1 DEF FileTypes, FATs
<1>5. dfd[FileOf[o]] \in Heads /\ dfd[FileOf[o]].o_fileln \in Nat
  BY <1>3, <1>4 DEF Dfd, Heads
<1>6. ofd[o] \in Places /\ ofd[o].o_bytnum \in Nat
  BY <1>2, <1>3, <1>4 DEF Ofd, Places
<1> QED
  BY <1>1, <1>4, <1>5, <1>6

LEMMA TransferStart ==
  ASSUME FileInv, NEW o \in Ofds, NEW n \in Nat, NEW w \in BOOLEAN,
         ~w => ofd[o].o_bytnum + n <= dfd[FileOf[o]].o_fileln
  PROVE  Start(Transfer(o, n), Chain(FileOf[o]), w)
<1>1. PICK z, f : z = Transfer(o, n) /\ f = FileOf[o]
  OBVIOUS
<1>2. /\ f \in Files /\ fat \in FATs /\ dfd[f] \in Heads /\ dfd[f].o_fileln \in Nat
      /\ ofd[o] \in Places /\ ofd[o].o_bytnum \in Nat
  BY <1>1, OfdFacts DEF FileInv
<1>3. /\ z.fat = fat /\ z.d = dfd[f] /\ z.p = ofd[o] /\ z.left = n /\ z.moved = <<>> /\ z.ended = FALSE
  BY <1>1 DEF Transfer
<1>4. z \in Xfer
  <2>1. <<>> \in Seq(Int)
    OBVIOUS
  <2> QED
    BY <1>1, <1>2, <2>1 DEF Transfer, Xfer
<1>5. Linked(Chain(f), dfd[f].o_strtcl, fat) /\ Fits(Len(Chain(f)), dfd[f].o_fileln)
  BY <1>2 DEF FileInv, ChainsGood
<1>6. Placed(ofd[o], Chain(f)) /\ ofd[o].o_bytnum <= dfd[f].o_fileln
  BY <1>1 DEF FileInv, PlacesGood
<1>7. Start(z, Chain(f), w)
  BY <1>1, <1>2, <1>3, <1>4, <1>5, <1>6 DEF Start
<1> QED
  BY <1>1, <1>7

LEMMA TransferEnds ==
  ASSUME FileInv, NEW o \in Ofds, NEW n \in Nat, n > 0, NEW w \in BOOLEAN,
         ~w => ofd[o].o_bytnum + n <= dfd[FileOf[o]].o_fileln,
         NEW z, z = Transfer(o, n), NEW x, x = xrw(z, w)
  PROVE  /\ Start(z, Chain(FileOf[o]), w)
         /\ x.ended \/ x.left = 0
         /\ \E s : Good(z, Chain(FileOf[o]), x, s, w) /\ ChainFrom(x.d.o_strtcl, x.fat) = s
<1>1. Start(z, Chain(FileOf[o]), w)
  BY TransferStart
<1>2. z.left > 0
  BY DEF Transfer
<1>3. Finished(z, Chain(FileOf[o]), w, x)
  BY <1>1, <1>2, XrwGood
<1>4. PICK s : Good(z, Chain(FileOf[o]), x, s, w)
  BY <1>3 DEF Finished
<1>5. ChainFrom(x.d.o_strtcl, x.fat) = s
  BY <1>4, ChainIs DEF Good, Chains
<1> QED
  BY <1>1, <1>3, <1>4, <1>5 DEF Finished

LEMMA ReadableFacts ==
  ASSUME FileInv, NEW o \in Ofds, NEW len \in Nat
  PROVE  /\ Readable(o, len) \in Nat /\ Readable(o, len) <= len
         /\ ofd[o].o_bytnum + Readable(o, len) <= dfd[FileOf[o]].o_fileln
         /\ \/ Readable(o, len) = len
            \/ ofd[o].o_bytnum + Readable(o, len) = dfd[FileOf[o]].o_fileln /\ Readable(o, len) < len
<1>1. PICK b, l : b = ofd[o].o_bytnum /\ l = dfd[FileOf[o]].o_fileln
  OBVIOUS
<1>2. b \in Nat /\ l \in Nat /\ b <= l
  BY <1>1, OfdFacts DEF FileInv, PlacesGood
<1>3. Readable(o, len) = IF len > l - b THEN l - b ELSE len
  BY <1>1 DEF Readable
<1>4. PICK k : k = Readable(o, len)
  OBVIOUS
<1>5. k \in Nat /\ k <= len /\ b + k <= l /\ (k = len \/ (b + k = l /\ k < len))
  BY <1>2, <1>3, <1>4
<1> QED
  BY <1>1, <1>4, <1>5

LEMMA InvTransfers ==
  ASSUME FileInv
  PROVE  TransfersRight
<1>0. MaxRequest \in Nat
  BY Drive
<1> SUFFICES ASSUME NEW o \in Ofds, NEW len \in 1 .. MaxRequest, NEW w \in BOOLEAN,
                    NEW n, n = IF w THEN len ELSE Readable(o, len), n > 0,
                    NEW x, x = xrw(Transfer(o, n), w)
             PROVE  MovesRight(o, x, n, w)
  BY DEF TransfersRight
<1>1. len \in Nat
  BY <1>0
<1>2. n \in Nat /\ (~w => ofd[o].o_bytnum + n <= dfd[FileOf[o]].o_fileln)
  BY <1>1, ReadableFacts
<1>3. PICK z, r : z = Transfer(o, n) /\ r = Chain(FileOf[o])
  OBVIOUS
<1>4. x.ended \/ x.left = 0
  BY <1>2, <1>3, TransferEnds
<1>5. PICK s : Good(z, r, x, s, w) /\ ChainFrom(x.d.o_strtcl, x.fat) = s
  BY <1>2, <1>3, TransferEnds
<1>6. z.p = ofd[o] /\ z.left = n
  BY <1>3 DEF Transfer
<1>7. /\ x \in Xfer /\ Did(z, x, s)
      /\ x.ended => w /\ \A c \in Clusters : x.fat[c] # FREECLUSTER
  BY <1>5 DEF Good
<1>8. x.moved \in Seq(Int)
  BY <1>7, XferFields
<1>9. x.moved = [i \in 1 .. Len(x.moved) |-> AddressOf(s, ofd[o].o_bytnum + i - 1)]
  <2>1. PICK m, b : m = x.moved /\ b = ofd[o].o_bytnum
    OBVIOUS
  <2>2. m \in Seq(Int) /\ \A i \in 1 .. Len(m) : m[i] = AddressOf(s, b + i - 1)
    BY <1>6, <1>7, <1>8, <2>1 DEF Did
  <2>3. m = [i \in 1 .. Len(m) |-> m[i]]
    BY <2>2
  <2>4. m = [i \in 1 .. Len(m) |-> AddressOf(s, b + i - 1)]
    BY <2>2, <2>3
  <2> QED
    BY <2>1, <2>4
<1>10. x.p.o_bytnum = ofd[o].o_bytnum + Len(x.moved)
  BY <1>6, <1>7 DEF Did
<1>11. Len(x.moved) = n \/ (w /\ \A c \in Clusters : x.fat[c] # FREECLUSTER)
  <2>1. CASE x.ended
    BY <1>7, <2>1
  <2>2. CASE x.left = 0
    <3>1. n = 0 + Len(x.moved) /\ Len(x.moved) \in Nat
      BY <1>6, <1>7, <1>8, <2>2, SeqFacts DEF Did
    <3> QED
      BY <3>1
  <2> QED
    BY <1>4, <2>1, <2>2
<1> QED
  BY <1>5, <1>9, <1>10, <1>11 DEF MovesRight

LEMMA InvChains ==
  ASSUME FileInv
  PROVE  ChainsFit
<1>1. ASSUME NEW f \in Files
      PROVE  /\ Len(Chain(f)) = ClustersFor(dfd[f].o_fileln)
             /\ IsInjective(Chain(f))
             /\ Chain(f) # <<>> => fat[Last(Chain(f))] = ENDOFCHAIN
  <2>1. PICK s : s = Chain(f)
    OBVIOUS
  <2>2. Linked(s, dfd[f].o_strtcl, fat) /\ Fits(Len(s), dfd[f].o_fileln)
    BY <2>1 DEF FileInv, ChainsGood
  <2>3. Len(s) \in Int /\ s \in Seq(Clusters)
    BY <2>2, LinkedFacts
  <2>4. dfd[f].o_fileln \in Nat
    <3>1. m_numcl * m_clsizb \in Nat
      BY Drive
    <3> QED
      BY <3>1 DEF FileInv, FileTypes, Dfd
  <2>5. ClustersFor(dfd[f].o_fileln) = Len(s)
    BY <2>2, <2>3, <2>4, FitsIs
  <2>6. s # <<>> => fat[Last(s)] = ENDOFCHAIN
    BY <2>2, <2>3 DEF Linked, Last
  <2>7. IsInjective(s)
    BY <2>2 DEF Linked
  <2> QED
    BY <2>1, <2>5, <2>6, <2>7
<1> QED
  BY <1>1 DEF ChainsFit, FileInv, ChainsApart, AllOwned

-----------------------------------------------------------------------------
(***************************************************************************)
(* What the calls keep.                                                    *)
(***************************************************************************)
LEMMA GoodTypes ==
  ASSUME NEW z, NEW r, NEW w, Start(z, r, w), NEW x, NEW s, Good(z, r, x, s, w)
  PROVE  x.d \in Dfd /\ x.p \in Ofd /\ x.p.o_bytnum <= x.d.o_fileln
<1>0. /\ m_clsizb \in Nat /\ m_numcl \in Nat /\ m_clsiz \in Nat
      /\ m_numcl * m_clsiz \in Nat /\ Off(m_numcl) \in Nat
  <2>1. m_clsizb \in Nat /\ m_numcl \in Nat /\ m_clsiz \in Nat
    BY Drive
  <2>2. m_numcl * m_clsiz \in Nat
    BY <2>1
  <2>3. Off(m_numcl) \in Nat
    BY <2>1, OffFacts
  <2> QED
    BY <2>1, <2>2, <2>3
<1>1. /\ x \in Xfer /\ Chains(z, r, x, s) /\ Did(z, x, s) /\ Fits(Len(s), x.d.o_fileln)
      /\ Placed(x.p, s) /\ Linked(s, x.d.o_strtcl, x.fat)
  BY DEF Good, Chains
<1>2. PICK q, l, k : q = x.p.o_bytnum /\ l = x.d.o_fileln /\ k = Len(x.moved)
  OBVIOUS
<1>3. k \in Nat
  <2>1. x.moved \in Seq(Int)
    BY <1>1, XferFields
  <2> QED
    BY <1>2, <2>1, SeqFacts
<1>4. q \in Nat /\ l \in Nat /\ q <= l
  <2>1. PICK i, j : i = z.p.o_bytnum /\ j = z.d.o_fileln
    OBVIOUS
  <2>2. i \in Nat /\ j \in Nat /\ q = i + k /\ l = Longest(j, q)
    BY <1>1, <1>2, <2>1 DEF Did, Start
  <2>3. \A a, b \in Nat : Longest(a, b) \in Nat /\ b <= Longest(a, b)
    BY DEF Longest
  <2>4. q \in Nat
    BY <1>3, <2>2
  <2> QED
    BY <2>2, <2>3, <2>4
<1>5. l <= Off(m_numcl)
  <2>1. Len(s) \in Int /\ Len(s) <= m_numcl /\ l <= Off(Len(s)) /\ m_numcl \in Int
    BY <1>0, <1>1, <1>2, LinkedFacts DEF Fits
  <2>2. Off(Len(s)) <= Off(m_numcl) /\ Off(Len(s)) \in Int
    BY <2>1, OffFacts
  <2> QED
    BY <1>0, <1>4, <2>1, <2>2
<1>6. l \in 0 .. m_numcl * m_clsizb /\ q \in 0 .. m_numcl * m_clsizb
  <2>1. l \in 0 .. Off(m_numcl) /\ q \in 0 .. Off(m_numcl)
    BY <1>0, <1>4, <1>5
  <2> QED
    BY <2>1 DEF Off
<1>7. x.d \in Dfd
  <2>1. x.d \in Heads
    BY <1>1 DEF Xfer
  <2> QED
    BY <1>2, <1>6, <2>1 DEF Heads, Dfd
<1>8. x.p.o_currec \in 0 .. m_numcl * m_clsiz
  <2>1. CASE AtFirst(x.p)
    BY <1>0, <2>1 DEF AtFirst
  <2>2. CASE \E i \in 0 .. Len(s) - 1 : Stands(x.p, s, i)
    <3>1. PICK i \in 0 .. Len(s) - 1 : Stands(x.p, s, i)
      BY <2>2
    <3>2. i + 1 \in 1 .. Len(s)
      <4>1. Len(s) \in Nat
        BY <1>1, LinkedFacts
      <4> QED
        BY <4>1
    <3>3. s[i + 1] \in Clusters
      BY <1>1, <3>2, LinkedFacts
    <3>4. cl2rec(s[i + 1]) \in Nat /\ cl2rec(s[i + 1]) <= m_numcl * m_clsiz
      BY <3>3, ClusterFacts
    <3>5. x.p.o_currec = cl2rec(s[i + 1])
      BY <3>1 DEF Stands
    <3> QED
      BY <1>0, <3>4, <3>5
  <2> QED
    BY <1>1, <2>1, <2>2 DEF Placed
<1>9. x.p.o_curbyt \in 0 .. m_clsizb
  BY PlacedByte
<1>10. x.p \in Ofd
  <2>1. x.p \in Places
    BY <1>1 DEF Xfer
  <2> QED
    BY <1>2, <1>6, <1>8, <1>9, <2>1 DEF Places, Ofd
<1> QED
  BY <1>2, <1>4, <1>7, <1>10

(* A longer chain has the places of the shorter one.                       *)
LEMMA PlacedLonger ==
  ASSUME NEW p, NEW r, NEW s, Len(r) \in Nat, Len(s) \in Nat, Len(r) <= Len(s),
         \A i \in 1 .. Len(r) : s[i] = r[i], Placed(p, r)
  PROVE  Placed(p, s)
<1>1. CASE AtFirst(p)
  BY <1>1 DEF Placed
<1>2. CASE \E k \in 0 .. Len(r) - 1 : Stands(p, r, k)
  <2>1. PICK k \in 0 .. Len(r) - 1 : Stands(p, r, k)
    BY <1>2
  <2>2. k \in 0 .. Len(s) - 1 /\ k + 1 \in 1 .. Len(r)
    OBVIOUS
  <2>3. s[k + 1] = r[k + 1]
    BY <2>2
  <2>4. Stands(p, s, k)
    BY <2>1, <2>3 DEF Stands
  <2> QED
    BY <2>2, <2>4 DEF Placed
<1> QED
  BY <1>1, <1>2 DEF Placed

(* The chain of another file is not changed.                               *)
LEMMA OtherChain ==
  ASSUME FileInv, NEW f \in Files, NEW g \in Files, g # f, NEW t,
         \A c \in Clusters : fat[c] # FREECLUSTER /\ c \notin Range(Chain(f)) => t[c] = fat[c]
  PROVE  Linked(Chain(g), dfd[g].o_strtcl, t) /\ ChainFrom(dfd[g].o_strtcl, t) = Chain(g)
<1>1. PICK s : s = Chain(g)
  OBVIOUS
<1>2. Linked(s, dfd[g].o_strtcl, fat)
  BY <1>1 DEF FileInv, ChainsGood
<1>3. /\ s \in Seq(Clusters) /\ Len(s) \in Nat
      /\ \A i \in 1 .. Len(s) : s[i] \in Clusters
      /\ \A i \in 1 .. Len(s) : fat[s[i]] = IF i = Len(s) THEN ENDOFCHAIN ELSE s[i + 1]
  BY <1>2, LinkedFacts
<1>4. ASSUME NEW i \in 1 .. Len(s)
      PROVE  t[s[i]] = fat[s[i]]
  <2>1. s[i] \in Range(s)
    BY <1>3, RangeIs
  <2>2. s[i] \notin Range(Chain(f))
    BY <1>1, <2>1 DEF FileInv, ChainsApart
  <2>3. fat[s[i]] # FREECLUSTER
    <3>1. CASE i = Len(s)
      BY <1>3, <3>1 DEF ENDOFCHAIN, FREECLUSTER
    <3>2. CASE i # Len(s)
      <4>1. i + 1 \in 1 .. Len(s)
        BY <1>3, <3>2
      <4>2. s[i + 1] \in Clusters
        BY <1>3, <4>1
      <4>3. fat[s[i]] = s[i + 1]
        BY <1>3, <3>2
      <4> QED
        BY <4>2, <4>3, ClusterFacts
    <3> QED
      BY <3>1, <3>2
  <2>4. s[i] \in Clusters
    BY <1>3
  <2> QED
    BY <2>2, <2>3, <2>4
<1>5. Linked(s, dfd[g].o_strtcl, t)
  BY <1>2, <1>4, LinkedSame
<1>6. ChainFrom(dfd[g].o_strtcl, t) = s
  BY <1>5, ChainIs
<1> QED
  BY <1>1, <1>5, <1>6

LEMMA CommitInv ==
  ASSUME FileInv, NEW o \in Ofds, NEW n \in Nat, n > 0, NEW w \in BOOLEAN,
         ~w => ofd[o].o_bytnum + n <= dfd[FileOf[o]].o_fileln,
         NEW x, x = xrw(Transfer(o, n), w), Commit(o, x)
  PROVE  FileInv'
<1>0. PICK z, f, r : z = Transfer(o, n) /\ f = FileOf[o] /\ r = Chain(f)
  OBVIOUS
<1>1. PICK s : Good(z, r, x, s, w) /\ ChainFrom(x.d.o_strtcl, x.fat) = s
  BY <1>0, TransferEnds
<1>2. Start(z, r, w) /\ f \in Files /\ z.fat = fat /\ z.d = dfd[f]
  <2>1. Start(z, r, w)
    BY <1>0, TransferEnds
  <2>2. f \in Files /\ z.fat = fat /\ z.d = dfd[f]
    BY <1>0, FileAssumption DEF Transfer
  <2> QED
    BY <2>1, <2>2
<1>3. x.d \in Dfd /\ x.p \in Ofd /\ x.p.o_bytnum <= x.d.o_fileln /\ x.fat \in FATs /\ x \in Xfer
  <2>1. x.fat \in FATs /\ x \in Xfer
    BY <1>1 DEF Good, Xfer
  <2> QED
    BY <1>1, <1>2, <2>1, GoodTypes
<1>4. /\ Linked(s, x.d.o_strtcl, x.fat) /\ Len(r) <= Len(s)
      /\ \A i \in 1 .. Len(r) : s[i] = r[i]
      /\ \A c \in Apart(z, r) : x.fat[c] = fat[c] /\ c \notin Range(s)
      /\ \A c \in Clusters : x.fat[c] # FREECLUSTER => c \in Apart(z, r) \/ c \in Range(s)
      /\ Fits(Len(s), x.d.o_fileln) /\ Placed(x.p, s)
  BY <1>1, <1>2 DEF Good, Chains
<1>5. Len(r) \in Nat /\ Len(s) \in Nat
  <2>1. Len(r) \in Nat
    BY <1>2, LinkedFacts DEF Start
  <2>2. Len(s) \in Nat
    BY <1>4, LinkedFacts
  <2> QED
    BY <2>1, <2>2
<1>6. /\ fat' = x.fat /\ dfd' = [dfd EXCEPT ![f] = x.d] /\ ofd' = [ofd EXCEPT ![o] = x.p]
      /\ dfd \in [Files -> Dfd] /\ ofd \in [Ofds -> Ofd]
  BY <1>0 DEF Commit, FileInv, FileTypes
<1>7. /\ dfd'[f] = x.d /\ \A g \in Files : g # f => dfd'[g] = dfd[g]
      /\ ofd'[o] = x.p /\ \A p \in Ofds : p # o => ofd'[p] = ofd[p]
  BY <1>2, <1>6
<1>8. FileTypes'
  <2>1. dfd' \in [Files -> Dfd]
    BY <1>3, <1>6
  <2>2. ofd' \in [Ofds -> Ofd]
    BY <1>3, <1>6
  <2>3. fat' \in FATs
    BY <1>3, <1>6
  <2> QED
    BY <2>1, <2>2, <2>3 DEF FileTypes, FATs
<1>9. Chain(f)' = s
  BY <1>1, <1>6, <1>7 DEF Chain
<1>10. \A g \in Files : g # f => Linked(Chain(g), dfd[g].o_strtcl, x.fat) /\ Chain(g)' = Chain(g)
  <2> TAKE g \in Files
  <2> HAVE g # f
  <2>1. \A c \in Clusters : fat[c] # FREECLUSTER /\ c \notin Range(Chain(f)) => x.fat[c] = fat[c]
    BY <1>0, <1>2, <1>4 DEF Apart
  <2>2. Linked(Chain(g), dfd[g].o_strtcl, x.fat) /\ ChainFrom(dfd[g].o_strtcl, x.fat) = Chain(g)
    BY <1>2, <2>1, OtherChain
  <2> QED
    BY <1>6, <1>7, <2>2 DEF Chain
<1>11. ChainsGood'
  <2>1. ASSUME NEW g \in Files
        PROVE  Linked(Chain(g)', dfd'[g].o_strtcl, fat') /\ Fits(Len(Chain(g)'), dfd'[g].o_fileln)
    <3>1. CASE g = f
      BY <1>4, <1>6, <1>7, <1>9, <3>1
    <3>2. CASE g # f
      <4>1. Fits(Len(Chain(g)), dfd[g].o_fileln)
        BY DEF FileInv, ChainsGood
      <4> QED
        BY <1>6, <1>7, <1>10, <3>2, <4>1
    <3> QED
      BY <3>1, <3>2
  <2> QED
    BY <2>1 DEF ChainsGood
<1>12. \A g \in Files : g # f => \A c \in Range(Chain(g)) : c \in Apart(z, r)
  <2> TAKE g \in Files
  <2> HAVE g # f
  <2> TAKE c \in Range(Chain(g))
  <2>1. PICK t : t = Chain(g)
    OBVIOUS
  <2>2. Linked(t, dfd[g].o_strtcl, fat)
    BY <2>1 DEF FileInv, ChainsGood
  <2>3. /\ t \in Seq(Clusters) /\ Len(t) \in Nat
        /\ \A i \in 1 .. Len(t) : t[i] \in Clusters
        /\ \A i \in 1 .. Len(t) : fat[t[i]] = IF i = Len(t) THEN ENDOFCHAIN ELSE t[i + 1]
    BY <2>2, LinkedFacts
  <2>4. PICK i \in 1 .. Len(t) : t[i] = c
    BY <2>1, <2>3, RangeIs
  <2>5. c \in Clusters
    BY <2>3, <2>4
  <2>6. fat[c] # FREECLUSTER
    <3>1. CASE i = Len(t)
      BY <2>3, <2>4, <3>1 DEF ENDOFCHAIN, FREECLUSTER
    <3>2. CASE i # Len(t)
      <4>1. i + 1 \in 1 .. Len(t)
        BY <2>3, <3>2
      <4>2. t[i + 1] \in Clusters /\ fat[c] = t[i + 1]
        BY <2>3, <2>4, <3>2, <4>1
      <4> QED
        BY <4>2, ClusterFacts
    <3> QED
      BY <3>1, <3>2
  <2>7. c \notin Range(r)
    BY <1>0, <1>2 DEF FileInv, ChainsApart
  <2> QED
    BY <1>2, <2>5, <2>6, <2>7 DEF Apart
<1>13. ChainsApart'
  <2>1. ASSUME NEW g \in Files, NEW h \in Files, g # h
        PROVE  Range(Chain(g)') \cap Range(Chain(h)') = {}
    <3>1. CASE g = f
      BY <1>4, <1>9, <1>10, <1>12, <2>1, <3>1
    <3>2. CASE h = f
      BY <1>4, <1>9, <1>10, <1>12, <2>1, <3>2
    <3>3. CASE g # f /\ h # f
      BY <1>10, <2>1, <3>3 DEF FileInv, ChainsApart
    <3> QED
      BY <3>1, <3>2, <3>3
  <2> QED
    BY <2>1 DEF ChainsApart
<1>14. AllOwned'
  <2>1. ASSUME NEW c \in Clusters, fat'[c] # FREECLUSTER
        PROVE  \E g \in Files : c \in Range(Chain(g)')
    <3>1. CASE c \in Range(s)
      BY <1>2, <1>9, <3>1
    <3>2. CASE c \in Apart(z, r)
      <4>1. fat[c] # FREECLUSTER /\ c \notin Range(r)
        BY <1>2, <3>2 DEF Apart
      <4>2. PICK g \in Files : c \in Range(Chain(g))
        BY <4>1 DEF FileInv, AllOwned
      <4>3. g # f
        BY <1>0, <4>1, <4>2
      <4> QED
        BY <1>10, <4>2, <4>3
    <3> QED
      BY <1>4, <1>6, <2>1, <3>1, <3>2
  <2> QED
    BY <2>1 DEF AllOwned
<1>15. x.d.o_fileln >= dfd[f].o_fileln
  <2>1. PICK i, j : i = dfd[f].o_fileln /\ j = x.p.o_bytnum
    OBVIOUS
  <2>2. x.d.o_fileln = Longest(i, j)
    BY <1>1, <1>2, <2>1 DEF Good, Did
  <2>3. i \in Int /\ j \in Int
    BY <1>2, <1>3, <2>1, XferFields DEF Start
  <2>4. \A a, b \in Int : Longest(a, b) >= a
    BY DEF Longest
  <2> QED
    BY <2>1, <2>2, <2>3, <2>4
<1>16. PlacesGood'
  <2>1. ASSUME NEW p \in Ofds
        PROVE  Placed(ofd'[p], Chain(FileOf[p])') /\ ofd'[p].o_bytnum <= dfd'[FileOf[p]].o_fileln
    <3>1. CASE p = o
      BY <1>0, <1>3, <1>4, <1>7, <1>9, <3>1
    <3>2. CASE p # o /\ FileOf[p] = f
      <4>1. Placed(ofd[p], r) /\ ofd[p].o_bytnum <= dfd[f].o_fileln
        BY <1>0, <3>2 DEF FileInv, PlacesGood
      <4>2. Placed(ofd[p], s)
        BY <1>4, <1>5, <4>1, PlacedLonger
      <4>3. PICK a, b, c : a = ofd[p].o_bytnum /\ b = dfd[f].o_fileln /\ c = x.d.o_fileln
        OBVIOUS
      <4>4. a \in Int /\ b \in Int /\ c \in Int
        <5>1. a \in Int /\ b \in Int
          BY <3>2, <4>3, OfdFacts DEF FileInv
        <5>2. c \in Int
          BY <1>3, <4>3, XferFields
        <5> QED
          BY <5>1, <5>2
      <4>5. a <= c
        BY <1>15, <4>1, <4>3, <4>4
      <4> QED
        BY <1>7, <1>9, <3>2, <4>2, <4>3, <4>5
    <3>3. CASE p # o /\ FileOf[p] # f
      <4>1. FileOf[p] \in Files
        BY FileAssumption
      <4>2. Placed(ofd[p], Chain(FileOf[p])) /\ ofd[p].o_bytnum <= dfd[FileOf[p]].o_fileln
        BY DEF FileInv, PlacesGood
      <4> QED
        BY <1>7, <1>10, <3>3, <4>1, <4>2
    <3> QED
      BY <3>1, <3>2, <3>3
  <2> QED
    BY <2>1 DEF PlacesGood
<1> QED
  BY <1>8, <1>11, <1>13, <1>14, <1>16 DEF FileInv

-----------------------------------------------------------------------------
(***************************************************************************)
(* Seeking.                                                                *)
(***************************************************************************)
LEMMA ClusterIs ==
  ASSUME NEW n \in Nat, n > 0, NEW k, k = Cluster(n)
  PROVE  /\ k \in Nat /\ Off(k) < n /\ n <= Off(k + 1)
         /\ \/ n % m_clsizb = 0 /\ n = Off(k + 1)
            \/ n % m_clsizb \in 1 .. m_clsizb - 1 /\ n = Off(k) + (n % m_clsizb)
<1>0. m_clsizb \in Nat /\ m_clsizb > 0
  BY Drive
<1>1. PICK q, t : q = n \div m_clsizb /\ t = n % m_clsizb
  OBVIOUS
<1>2. q \in Nat /\ t \in 0 .. m_clsizb - 1 /\ n = q * m_clsizb + t
  BY <1>0, <1>1, DivFacts
<1>3. n = Off(q) + t
  BY <1>2 DEF Off
<1>4. Off(q) \in Nat /\ Off(q + 1) = Off(q) + m_clsizb /\ Off(q - 1) = Off(q) - m_clsizb /\ Off(0) = 0
  <2>1. q \in Int
    BY <1>2
  <2> QED
    BY <1>2, <2>1, OffFacts
<1>5. CASE t = 0
  <2>1. k = q - 1
    BY <1>1, <1>5 DEF Cluster
  <2>2. q # 0
    BY <1>2, <1>3, <1>4, <1>5
  <2>3. k \in Nat /\ k + 1 = q
    BY <1>2, <2>1, <2>2
  <2>4. Off(k) < n /\ n <= Off(k + 1) /\ n = Off(k + 1)
    <3>1. Off(k) = Off(q) - m_clsizb
      BY <1>4, <2>1
    <3> QED
      BY <1>0, <1>3, <1>4, <1>5, <2>3, <3>1
  <2> QED
    BY <1>1, <1>5, <2>3, <2>4
<1>6. CASE t # 0
  <2>1. k = q - 0
    BY <1>1, <1>6 DEF Cluster
  <2>2. k = q /\ k \in Nat
    BY <1>2, <2>1
  <2>3. t \in 1 .. m_clsizb - 1
    BY <1>0, <1>2, <1>6
  <2>4. Off(k) < n /\ n <= Off(k + 1)
    BY <1>0, <1>3, <1>4, <2>2, <2>3
  <2> QED
    BY <1>1, <1>3, <2>2, <2>3, <2>4
<1> QED
  BY <1>5, <1>6

LEMMA HereIs ==
  ASSUME NEW p, NEW s, NEW j \in Nat, Stands(p, s, j)
  PROVE  Here(p) = j /\ p.o_bytnum \in Nat /\ Off(j) < p.o_bytnum
<1>0. m_clsizb \in Nat /\ m_clsizb > 0 /\ 0 \in 0 .. m_clsizb - 1
  BY Drive
<1>1. Off(j) \in Nat /\ Off(j + 1) = Off(j) + m_clsizb
  <2>1. j \in Int
    OBVIOUS
  <2> QED
    BY <2>1, OffFacts
<1>2. PICK b, n : b = p.o_curbyt /\ n = p.o_bytnum
  OBVIOUS
<1>3. CASE b \in 1 .. m_clsizb - 1 /\ n = Off(j) + b
  <2>1. b \in 0 .. m_clsizb - 1
    BY <1>0, <1>3
  <2>2. n \div m_clsizb = j /\ n \in Nat
    BY <1>3, <2>1, InCluster
  <2>3. ~AtEnd(p)
    BY <1>0, <1>2, <1>3 DEF AtEnd
  <2>4. Here(p) = j - 0
    BY <1>2, <2>2, <2>3 DEF Here
  <2>5. Off(j) < n
    BY <1>1, <1>3
  <2> QED
    BY <1>2, <2>2, <2>4, <2>5
<1>4. CASE b \in {0, m_clsizb} /\ n = Off(j + 1)
  <2>1. n > 0 /\ n \in Nat /\ Off(j) < n
    BY <1>0, <1>1, <1>4
  <2>2. AtEnd(p)
    BY <1>2, <1>4, <2>1 DEF AtEnd
  <2>3. n \div m_clsizb = j + 1
    <3>1. n = Off(j + 1) + 0 /\ j + 1 \in Nat
      BY <1>4, <2>1
    <3> QED
      BY <1>0, <3>1, InCluster
  <2>4. Here(p) = (j + 1) - 1
    BY <1>2, <2>2, <2>3 DEF Here
  <2> QED
    BY <1>2, <2>1, <2>4
<1>5. \/ b \in 1 .. m_clsizb - 1 /\ n = Off(j) + b
      \/ b \in {0, m_clsizb} /\ n = Off(j + 1)
  BY <1>0, <1>1, <1>2 DEF Stands
<1> QED
  BY <1>3, <1>4, <1>5

LEMMA TargetIs ==
  ASSUME FileInv, NEW o \in Ofds, NEW n \in Nat, n > 0, n <= dfd[FileOf[o]].o_fileln,
         NEW k, k = Cluster(n)
  PROVE  /\ k \in Nat /\ k < Len(Chain(FileOf[o]))
         /\ Target(o, n) = Chain(FileOf[o])[k + 1]
<1>0. PICK f, s, p, l : f = FileOf[o] /\ s = Chain(f) /\ p = ofd[o] /\ l = dfd[f].o_fileln
  OBVIOUS
<1>1. f \in Files /\ l \in Nat /\ n <= l
  BY <1>0, OfdFacts DEF FileInv
<1>2. Linked(s, dfd[f].o_strtcl, fat) /\ Fits(Len(s), l)
  BY <1>0, <1>1 DEF FileInv, ChainsGood
<1>3. Len(s) \in Nat /\ dfd[f].o_strtcl = (IF s = <<>> THEN 0 ELSE s[1]) /\ (Len(s) = 0 <=> s = <<>>)
  BY <1>2, LinkedFacts
<1>4. k \in Nat /\ Off(k) < n /\ n <= Off(k + 1) /\ k + 1 \in Int
  BY ClusterIs
<1>5. k < Len(s)
  <2>1. Off(k) \in Int /\ Off(Len(s)) \in Int /\ l <= Off(Len(s))
    BY <1>2, <1>3, <1>4, OffFacts DEF Fits
  <2>2. Off(k) < Off(Len(s))
    BY <1>1, <1>4, <2>1
  <2>3. Len(s) <= k => Off(Len(s)) <= Off(k)
    <3>1. k \in Int /\ Len(s) \in Int
      BY <1>3, <1>4
    <3> QED
      BY <3>1, OffFacts
  <2> QED
    BY <1>3, <1>4, <2>1, <2>2, <2>3
<1>6. CASE p.o_curcl # 0 /\ n >= p.o_bytnum
  <2>1. Placed(p, s)
    BY <1>0 DEF FileInv, PlacesGood
  <2>2. PICK j \in 0 .. Len(s) - 1 : Stands(p, s, j)
    BY <1>6, <2>1 DEF Placed, AtFirst
  <2>3. j \in Nat /\ j + 1 \in 1 .. Len(s)
    BY <1>3
  <2>4. Here(p) = j /\ p.o_bytnum \in Nat /\ Off(j) < p.o_bytnum
    BY <2>2, <2>3, HereIs
  <2>5. j <= k
    <3>1. Off(j) \in Int /\ Off(k + 1) \in Int
      BY <1>4, <2>3, OffFacts
    <3>2. Off(j) < Off(k + 1)
      BY <1>4, <1>6, <2>4, <3>1
    <3>3. k + 1 <= j => Off(k + 1) <= Off(j)
      <4>1. k + 1 \in Int /\ j \in Int
        BY <1>4, <2>3
      <4> QED
        BY <4>1, OffFacts
    <3> QED
      BY <1>4, <2>3, <3>1, <3>2, <3>3
  <2>6. k - j \in Nat /\ (j + 1) + (k - j) = k + 1 /\ (j + 1) + (k - j) <= Len(s)
    BY <1>3, <1>4, <1>5, <2>3, <2>5
  <2>7. Follow(s[j + 1], k - j) = s[(j + 1) + (k - j)]
    BY <1>2, <2>3, <2>6, FollowIs
  <2>8. p.o_curcl = s[j + 1]
    BY <2>2 DEF Stands
  <2>9. Target(o, n) = Follow(p.o_curcl, k - Here(p))
    BY <1>0, <1>6 DEF Target
  <2> QED
    BY <1>0, <1>4, <1>5, <2>4, <2>6, <2>7, <2>8, <2>9
<1>7. CASE ~(p.o_curcl # 0 /\ n >= p.o_bytnum)
  <2>1. Target(o, n) = Follow(dfd[f].o_strtcl, k)
    BY <1>0, <1>7 DEF Target
  <2>2. dfd[f].o_strtcl = s[1] /\ 1 \in 1 .. Len(s) /\ 1 + k <= Len(s) /\ 1 + k = k + 1
    BY <1>3, <1>4, <1>5
  <2>3. Follow(s[1], k) = s[1 + k]
    BY <1>2, <1>4, <2>2, FollowIs
  <2> QED
    BY <1>0, <1>4, <1>5, <2>1, <2>2, <2>3
<1> QED
  BY <1>6, <1>7

LEMMA SeekGood ==
  ASSUME FileInv, NEW o \in Ofds, NEW n \in 0 .. dfd[FileOf[o]].o_fileln,
         NEW p, p = ixlseek(o, n)
  PROVE  p \in Ofd /\ p.o_bytnum = n /\ Placed(p, Chain(FileOf[o]))
<1>0. PICK f, s, l : f = FileOf[o] /\ s = Chain(f) /\ l = dfd[f].o_fileln
  OBVIOUS
<1>1. f \in Files /\ l \in Nat /\ n \in Nat /\ n <= l
  BY <1>0, OfdFacts DEF FileInv
<1>2. m_clsizb \in Nat /\ m_numcl * m_clsizb \in Nat /\ m_numcl * m_clsiz \in Nat /\ m_clsizb > 0
  <2>1. m_clsizb \in Nat /\ m_numcl \in Nat /\ m_clsiz \in Nat /\ m_clsizb > 0
    BY Drive
  <2> QED
    BY <2>1
<1>3. CASE n = 0
  <2>1. p = AtStart
    BY <1>3 DEF ixlseek
  <2>2. AtStart \in Ofd
    BY <1>2 DEF AtStart, Ofd
  <2>3. AtFirst(AtStart) /\ AtStart.o_bytnum = 0
    BY DEF AtFirst, AtStart
  <2> QED
    BY <1>3, <2>1, <2>2, <2>3 DEF Placed
<1>4. CASE n # 0
  <2>1. PICK k, c : k = Cluster(n) /\ c = s[k + 1]
    OBVIOUS
  <2>2. n > 0 /\ n <= dfd[FileOf[o]].o_fileln
    BY <1>0, <1>1, <1>4
  <2>3. k \in Nat /\ k < Len(s) /\ Target(o, n) = c
    BY <1>0, <1>1, <2>1, <2>2, TargetIs
  <2>4. Linked(s, dfd[f].o_strtcl, fat) /\ Len(s) \in Nat /\ \A i \in 1 .. Len(s) : s[i] \in Clusters
    <3>1. Linked(s, dfd[f].o_strtcl, fat)
      BY <1>0, <1>1 DEF FileInv, ChainsGood
    <3> QED
      BY <3>1, LinkedFacts
  <2>5. k + 1 \in 1 .. Len(s) /\ k \in 0 .. Len(s) - 1
    BY <2>3, <2>4
  <2>6. c \in Clusters
    BY <2>1, <2>4, <2>5
  <2>7. c # 0 /\ cl2rec(c) \in 0 .. m_numcl * m_clsiz
    <3>1. c # 0 /\ cl2rec(c) \in Nat /\ cl2rec(c) <= m_numcl * m_clsiz
      BY <2>6, ClusterFacts
    <3> QED
      BY <1>2, <3>1
  <2>8. p = [o_bytnum |-> n, o_curcl |-> c, o_currec |-> cl2rec(c), o_curbyt |-> n % m_clsizb]
    BY <1>4, <2>3, <2>7 DEF ixlseek, Position
  <2>9. /\ \/ n % m_clsizb = 0 /\ n = Off(k + 1)
           \/ n % m_clsizb \in 1 .. m_clsizb - 1 /\ n = Off(k) + (n % m_clsizb)
    BY <1>1, <2>1, <2>2, ClusterIs
  <2>10. PICK t : t = n % m_clsizb
    OBVIOUS
  <2>11. /\ p.o_bytnum = n /\ p.o_curcl = c /\ p.o_currec = cl2rec(c) /\ p.o_curbyt = t
         /\ p = [o_bytnum |-> n, o_curcl |-> c, o_currec |-> cl2rec(c), o_curbyt |-> t]
    BY <2>8, <2>10
  <2>12. Stands(p, s, k)
    <3>1. \/ t \in 1 .. m_clsizb /\ n = Off(k) + t
          \/ t = 0 /\ n = Off(k + 1)
      BY <1>2, <2>9, <2>10
    <3> QED
      BY <2>1, <2>11, <3>1 DEF Stands
  <2>13. p \in Ofd
    <3>1. t \in 0 .. m_clsizb
      BY <1>2, <2>9, <2>10
    <3>2. n \in 0 .. m_numcl * m_clsizb
      <4>1. l \in 0 .. m_numcl * m_clsizb
        BY <1>0, <1>1 DEF FileInv, FileTypes, Dfd
      <4> QED
        BY <1>1, <1>2, <4>1
    <3> QED
      BY <2>6, <2>7, <2>11, <3>1, <3>2 DEF Ofd
  <2> QED
    BY <1>0, <2>5, <2>11, <2>12, <2>13 DEF Placed
<1> QED
  BY <1>3, <1>4

LEMMA SeekInv ==
  ASSUME FileInv, NEW o \in Ofds, NEW n, xlseek(o, n)
  PROVE  FileInv'
<1>1. PICK p : p = ixlseek(o, n)
  OBVIOUS
<1>2. /\ n \in 0 .. dfd[FileOf[o]].o_fileln
      /\ ofd' = [ofd EXCEPT ![o] = p] /\ fat' = fat /\ dfd' = dfd
  BY <1>1 DEF xlseek
<1>3. p \in Ofd /\ p.o_bytnum = n /\ Placed(p, Chain(FileOf[o]))
  BY <1>1, <1>2, SeekGood
<1>4. \A f : Chain(f)' = Chain(f)
  BY <1>2 DEF Chain
<1>5. FileTypes'
  BY <1>2, <1>3 DEF FileInv, FileTypes
<1>6. ChainsGood' /\ ChainsApart' /\ AllOwned'
  BY <1>2, <1>4 DEF FileInv, ChainsGood, ChainsApart, AllOwned
<1>7. PlacesGood'
  <2>1. ofd'[o] = p /\ \A q \in Ofds : q # o => ofd'[q] = ofd[q]
    BY <1>2 DEF FileInv, FileTypes
  <2>2. n <= dfd[FileOf[o]].o_fileln
    <3>1. dfd[FileOf[o]].o_fileln \in Nat
      BY OfdFacts DEF FileInv
    <3> QED
      BY <1>2, <3>1
  <2>3. ASSUME NEW q \in Ofds
        PROVE  Placed(ofd'[q], Chain(FileOf[q])') /\ ofd'[q].o_bytnum <= dfd'[FileOf[q]].o_fileln
    <3>1. CASE q = o
      BY <1>2, <1>3, <1>4, <2>1, <2>2, <3>1
    <3>2. CASE q # o
      BY <1>2, <1>4, <2>1, <3>2 DEF FileInv, PlacesGood
    <3> QED
      BY <3>1, <3>2
  <2> QED
    BY <2>3 DEF PlacesGood
<1> QED
  BY <1>5, <1>6, <1>7 DEF FileInv

LEMMA NoChain ==
  ASSUME NEW t
  PROVE  /\ Linked(<<>>, 0, t) /\ ChainFrom(0, t) = <<>> /\ Fits(Len(<<>>), 0)
         /\ Range(<<>>) = {} /\ Placed(AtStart, <<>>) /\ AtStart \in Ofd
         /\ [o_strtcl |-> 0, o_fileln |-> 0] \in Dfd
<1>1. <<>> \in Seq(Clusters) /\ Len(<<>>) = 0 /\ IsInjective(<<>>)
  <2>1. <<>> \in Seq(Clusters) /\ Len(<<>>) = 0
    OBVIOUS
  <2>2. \A i, j \in 1 .. Len(<<>>) : <<>>[i] = <<>>[j] => i = j
    BY <2>1
  <2> QED
    BY <2>1, <2>2, InjectiveIs
<1>2. Linked(<<>>, 0, t)
  BY <1>1 DEF Linked
<1>3. ChainFrom(0, t) = <<>>
  BY <1>2, ChainIs
<1>4. Fits(Len(<<>>), 0)
  <2>1. Off(0) = 0 /\ Off(0 - 1) = Off(0) - m_clsizb /\ m_clsizb \in Nat /\ m_clsizb > 0
    BY OffFacts, Drive
  <2>2. Off(0 - 1) < 0 /\ 0 <= Off(0)
    BY <2>1
  <2> QED
    BY <1>1, <2>2 DEF Fits
<1>5. Range(<<>>) = {}
  <2>1. \A x : x \in Range(<<>>) <=> \E i \in 1 .. Len(<<>>) : <<>>[i] = x
    BY <1>1, RangeIs
  <2> QED
    BY <1>1, <2>1
<1>6. Placed(AtStart, <<>>)
  BY DEF Placed, AtFirst, AtStart
<1>7. AtStart \in Ofd /\ [o_strtcl |-> 0, o_fileln |-> 0] \in Dfd
  <2>1. m_clsizb \in Nat /\ m_numcl \in Nat /\ m_clsiz \in Nat
    BY Drive
  <2>2. m_clsizb \in Nat /\ m_numcl * m_clsizb \in Nat /\ m_numcl * m_clsiz \in Nat
    BY <2>1
  <2> QED
    BY <2>2 DEF AtStart, Ofd, Dfd
<1> QED
  BY <1>2, <1>3, <1>4, <1>5, <1>6, <1>7

LEMMA FileInitInv ==
  ASSUME FileInit
  PROVE  FileInv
<1>1. \A f \in Files : Chain(f) = <<>> /\ dfd[f].o_strtcl = 0 /\ dfd[f].o_fileln = 0
  BY NoChain DEF FileInit, Chain
<1>2. FileTypes
  BY NoChain DEF FileInit, FileTypes
<1>3. ChainsGood
  BY <1>1, NoChain DEF ChainsGood
<1>4. ChainsApart
  BY <1>1, NoChain DEF ChainsApart
<1>5. AllOwned
  BY DEF FileInit, AllOwned
<1>6. PlacesGood
  <2>1. ASSUME NEW o \in Ofds
        PROVE  Placed(ofd[o], Chain(FileOf[o])) /\ ofd[o].o_bytnum <= dfd[FileOf[o]].o_fileln
    <3>1. FileOf[o] \in Files
      BY FileAssumption
    <3>2. ofd[o] = AtStart /\ AtStart.o_bytnum = 0 /\ dfd[FileOf[o]].o_fileln = 0
      BY <1>1, <3>1 DEF FileInit, AtStart
    <3>3. Placed(ofd[o], Chain(FileOf[o]))
      BY <1>1, <3>1, <3>2, NoChain
    <3> QED
      BY <3>2, <3>3
  <2> QED
    BY <2>1 DEF PlacesGood
<1> QED
  BY <1>2, <1>3, <1>4, <1>5, <1>6 DEF FileInv

LEMMA RecreateInv ==
  ASSUME FileInv, NEW f \in Files, recreate(f)
  PROVE  FileInv'
<1>0. PICK e : e = [o_strtcl |-> 0, o_fileln |-> 0]
  OBVIOUS
<1>1. /\ fat' = FreeChain(f) /\ dfd' = [dfd EXCEPT ![f] = e]
      /\ ofd' = [o \in Ofds |-> IF FileOf[o] = f THEN AtStart ELSE ofd[o]]
      /\ dfd \in [Files -> Dfd] /\ ofd \in [Ofds -> Ofd] /\ fat \in FATs
      /\ e \in Dfd /\ e.o_strtcl = 0 /\ e.o_fileln = 0
  BY <1>0, NoChain DEF recreate, FileInv, FileTypes, FATs
<1>2. \A c \in Clusters : fat'[c] = IF c \in Range(Chain(f)) THEN FREECLUSTER ELSE fat[c]
  BY <1>1 DEF FreeChain
<1>3. /\ dfd'[f] = e /\ \A g \in Files : g # f => dfd'[g] = dfd[g]
      /\ \A o \in Ofds : ofd'[o] = IF FileOf[o] = f THEN AtStart ELSE ofd[o]
  BY <1>1
<1>4. FileTypes'
  <2>1. fat' \in FATs
    <3>1. \A c \in Clusters : fat[c] \in Clusters \cup {FREECLUSTER, ENDOFCHAIN}
      BY <1>1 DEF FATs
    <3> QED
      BY <1>1, <3>1 DEF FreeChain, FATs
  <2>2. dfd' \in [Files -> Dfd]
    BY <1>1
  <2>3. ofd' \in [Ofds -> Ofd]
    BY <1>1, NoChain
  <2> QED
    BY <2>1, <2>2, <2>3 DEF FileTypes, FATs
<1>5. Chain(f)' = <<>>
  <2>1. ChainFrom(0, fat') = <<>>
    BY NoChain
  <2> QED
    BY <1>1, <1>3, <2>1 DEF Chain
<1>6. \A g \in Files : g # f => Linked(Chain(g), dfd[g].o_strtcl, fat') /\ Chain(g)' = Chain(g)
  <2> TAKE g \in Files
  <2> HAVE g # f
  <2>1. PICK t : t = fat'
    OBVIOUS
  <2>2. \A c \in Clusters : fat[c] # FREECLUSTER /\ c \notin Range(Chain(f)) => t[c] = fat[c]
    BY <1>2, <2>1
  <2>3. Linked(Chain(g), dfd[g].o_strtcl, t) /\ ChainFrom(dfd[g].o_strtcl, t) = Chain(g)
    BY <2>2, OtherChain
  <2> QED
    BY <1>3, <2>1, <2>3 DEF Chain
<1>7. ChainsGood'
  <2>1. ASSUME NEW g \in Files
        PROVE  Linked(Chain(g)', dfd'[g].o_strtcl, fat') /\ Fits(Len(Chain(g)'), dfd'[g].o_fileln)
    <3>1. CASE g = f
      BY <1>1, <1>3, <1>5, <3>1, NoChain
    <3>2. CASE g # f
      <4>1. Fits(Len(Chain(g)), dfd[g].o_fileln)
        BY DEF FileInv, ChainsGood
      <4> QED
        BY <1>3, <1>6, <3>2, <4>1
    <3> QED
      BY <3>1, <3>2
  <2> QED
    BY <2>1 DEF ChainsGood
<1>8. ChainsApart'
  <2>1. ASSUME NEW g \in Files, NEW h \in Files, g # h
        PROVE  Range(Chain(g)') \cap Range(Chain(h)') = {}
    <3>1. CASE g = f \/ h = f
      BY <1>5, <3>1, NoChain
    <3>2. CASE g # f /\ h # f
      BY <1>6, <2>1, <3>2 DEF FileInv, ChainsApart
    <3> QED
      BY <3>1, <3>2
  <2> QED
    BY <2>1 DEF ChainsApart
<1>9. AllOwned'
  <2>1. ASSUME NEW c \in Clusters, fat'[c] # FREECLUSTER
        PROVE  \E g \in Files : c \in Range(Chain(g)')
    <3>1. c \notin Range(Chain(f)) /\ fat[c] # FREECLUSTER
      BY <1>2, <2>1
    <3>2. PICK g \in Files : c \in Range(Chain(g))
      BY <3>1 DEF FileInv, AllOwned
    <3>3. g # f
      BY <3>1, <3>2
    <3> QED
      BY <1>6, <3>2, <3>3
  <2> QED
    BY <2>1 DEF AllOwned
<1>10. PlacesGood'
  <2>1. ASSUME NEW o \in Ofds
        PROVE  Placed(ofd'[o], Chain(FileOf[o])') /\ ofd'[o].o_bytnum <= dfd'[FileOf[o]].o_fileln
    <3>1. FileOf[o] \in Files
      BY FileAssumption
    <3>2. CASE FileOf[o] = f
      <4>1. ofd'[o] = AtStart /\ AtStart.o_bytnum = 0 /\ dfd'[FileOf[o]].o_fileln = 0
        BY <1>1, <1>3, <3>2 DEF AtStart
      <4> QED
        BY <1>5, <3>2, <4>1, NoChain
    <3>3. CASE FileOf[o] # f
      <4>1. Placed(ofd[o], Chain(FileOf[o])) /\ ofd[o].o_bytnum <= dfd[FileOf[o]].o_fileln
        BY DEF FileInv, PlacesGood
      <4> QED
        BY <1>3, <1>6, <3>1, <3>3, <4>1
    <3> QED
      BY <3>2, <3>3
  <2> QED
    BY <2>1 DEF PlacesGood
<1> QED
  BY <1>4, <1>7, <1>8, <1>9, <1>10 DEF FileInv

-----------------------------------------------------------------------------
(***************************************************************************)
(* The invariant and what follows from it.                                 *)
(***************************************************************************)
LEMMA ReadInv ==
  ASSUME FileInv, NEW o \in Ofds, NEW len \in 1 .. MaxRequest, ixread(o, len)
  PROVE  FileInv'
<1>0. len \in Nat
  BY Drive
<1>1. PICK n : n = Readable(o, len)
  OBVIOUS
<1>2. n \in Nat /\ n > 0 /\ ofd[o].o_bytnum + n <= dfd[FileOf[o]].o_fileln
  BY <1>0, <1>1, ReadableFacts DEF ixread
<1>3. PICK x : x = xrw(Transfer(o, n), FALSE) /\ Commit(o, x)
  BY <1>1 DEF ixread
<1> QED
  BY <1>2, <1>3, CommitInv

LEMMA WriteInv ==
  ASSUME FileInv, NEW o \in Ofds, NEW len \in 1 .. MaxRequest, ixwrite(o, len)
  PROVE  FileInv'
<1>0. len \in Nat /\ len > 0
  BY Drive
<1>1. PICK x : x = xrw(Transfer(o, len), TRUE) /\ Commit(o, x)
  BY DEF ixwrite
<1> QED
  BY <1>0, <1>1, CommitInv

LEMMA NextInv ==
  ASSUME FileInv, [FileNext]_filevars
  PROVE  FileInv'
<1>1. CASE UNCHANGED filevars
  <2>1. fat' = fat /\ dfd' = dfd /\ ofd' = ofd
    BY <1>1 DEF filevars
  <2>2. \A f : Chain(f)' = Chain(f)
    BY <2>1 DEF Chain
  <2> QED
    BY <2>1, <2>2 DEF FileInv, FileTypes, ChainsGood, ChainsApart, AllOwned, PlacesGood
<1>2. CASE \E o \in Ofds, len \in 1 .. MaxRequest : ixread(o, len) \/ ixwrite(o, len)
  BY <1>2, ReadInv, WriteInv
<1>3. CASE \E o \in Ofds, n \in 0 .. m_numcl * m_clsizb : xlseek(o, n)
  BY <1>3, SeekInv
<1>4. CASE \E f \in Files : recreate(f)
  BY <1>4, RecreateInv
<1> QED
  BY <1>1, <1>2, <1>3, <1>4 DEF FileNext

LEMMA SpecInv == FileSpec => []FileInv
<1>1. FileInit => FileInv
  BY FileInitInv
<1>2. FileInv /\ [FileNext]_filevars => FileInv'
  BY NextInv
<1> QED
  BY <1>1, <1>2, PTL DEF FileSpec

(* Tables, descriptors and positions are in their ranges, whatever files   *)
(* are read, written, sought in and created anew (src/bdos/fsio.c).        *)
THEOREM FileTypesSafe == FileSpec => []FileTypes
<1>1. FileInv => FileTypes
  BY DEF FileInv
<1> QED
  BY <1>1, SpecInv, PTL

(* The chains do not meet, and have the clusters that the files need, no   *)
(* more: also a write that finds the disk full leaves none behind          *)
(* (nextcl(), xrw_recs()).                                                 *)
THEOREM ChainsFitSafe == FileSpec => []ChainsFit
<1>1. FileInv => ChainsFit
  BY InvChains
<1> QED
  BY <1>1, SpecInv, PTL

(* Whatever cluster, record and byte a position stands at, the next xrw()  *)
(* of any size moves the bytes that follow it in the file, in order, and   *)
(* all it was asked for unless the disk is full.                           *)
THEOREM TransfersRightSafe == FileSpec => []TransfersRight
<1>1. FileInv => TransfersRight
  BY InvTransfers
<1> QED
  BY <1>1, SpecInv, PTL

-----------------------------------------------------------------------------
(***************************************************************************)
(* The abstract files: the clusters in use are those of the chains.        *)
(***************************************************************************)
LEMMA RangeCount ==
  ASSUME NEW s \in Seq(Clusters), IsInjective(s)
  PROVE  IsFiniteSet(Range(s)) /\ Cardinality(Range(s)) = Len(s)
<1>1. Len(s) \in Nat /\ DOMAIN s = 1 .. Len(s) /\ s \in [1 .. Len(s) -> Range(s)]
  BY SeqFacts, RangeIs
<1>2. IsFiniteSet(1 .. Len(s)) /\ Cardinality(1 .. Len(s)) = Len(s)
  BY <1>1, FS_Interval
<1>3. s \in Surjection(1 .. Len(s), Range(s))
  BY <1>1, RangeIs DEF Surjection
<1>4. s \in Injection(1 .. Len(s), Range(s))
  BY <1>1, InjectiveIs DEF Injection
<1>5. IsFiniteSet(Range(s)) /\ Cardinality(Range(s)) = Cardinality(1 .. Len(s))
  BY <1>2, <1>3, <1>4, FS_Surjection
<1> QED
  BY <1>2, <1>5

Some(u) == CHOOSE f \in u : TRUE

(* The clusters of the files in u, by what each file has. *)
Taken(t, u) == UNION {t[f] : f \in u}

UsedStep(v, g, u) == IF u = {} THEN 0 ELSE g[u \ {Some(u)}] + File!Blocks(v[Some(u)])

Useds(v, g) == g = [u \in SUBSET Files |-> UsedStep(v, g, u)]

LEMMA TakenFacts ==
  ASSUME NEW t \in [Files -> SUBSET Clusters], \A f, g \in Files : f # g => t[f] \cap t[g] = {},
         NEW u \in SUBSET Files
  PROVE  /\ IsFiniteSet(Taken(t, u)) /\ Cardinality(Taken(t, u)) \in 0 .. m_numcl
         /\ Taken(t, {}) = {} /\ Taken(t, u) \subseteq Clusters
         /\ u # {} => LET f == Some(u) IN
              /\ f \in u /\ f \in Files /\ u \ {f} \in SUBSET Files
              /\ Cardinality(Taken(t, u)) = Cardinality(Taken(t, u \ {f})) + Cardinality(t[f])
<1>1. IsFiniteSet(Clusters) /\ Cardinality(Clusters) = m_numcl /\ m_numcl \in Nat
  <2>1. m_numcl \in Nat /\ m_numcl > 0
    BY Drive
  <2>2. IsFiniteSet(2 .. m_numcl + 1) /\ Cardinality(2 .. m_numcl + 1) = IF 2 > m_numcl + 1 THEN 0 ELSE m_numcl + 1 - 2 + 1
    BY <2>1, FS_Interval
  <2> QED
    BY <2>1, <2>2 DEF Clusters
<1>2. \A x \in SUBSET Files : Taken(t, x) \in SUBSET Clusters
  BY DEF Taken
<1>3. \A x \in SUBSET Clusters : IsFiniteSet(x) /\ Cardinality(x) \in 0 .. m_numcl
  <2> TAKE x \in SUBSET Clusters
  <2>1. IsFiniteSet(x) /\ Cardinality(x) <= m_numcl
    BY <1>1, FS_Subset
  <2>2. Cardinality(x) \in Nat
    BY <2>1, FS_CardinalityType
  <2> QED
    BY <1>1, <2>1, <2>2
<1>4. Taken(t, {}) = {}
  BY DEF Taken
<1>5. ASSUME u # {}
      PROVE  LET f == Some(u) IN
              /\ f \in u /\ f \in Files /\ u \ {f} \in SUBSET Files
              /\ Cardinality(Taken(t, u)) = Cardinality(Taken(t, u \ {f})) + Cardinality(t[f])
  <2>1. PICK f : f = Some(u)
    OBVIOUS
  <2>2. f \in u /\ f \in Files /\ u \ {f} \in SUBSET Files
    BY <1>5, <2>1 DEF Some
  <2>3. PICK a, b : a = Taken(t, u \ {f}) /\ b = t[f]
    OBVIOUS
  <2>4. Taken(t, u) = a \cup b /\ a \cap b = {}
    BY <2>2, <2>3 DEF Taken
  <2>5. /\ IsFiniteSet(a) /\ IsFiniteSet(b) /\ Cardinality(a) \in Nat /\ Cardinality(b) \in Nat
    <3>1. a \in SUBSET Clusters /\ b \in SUBSET Clusters
      BY <1>2, <2>2, <2>3
    <3> QED
      BY <1>1, <1>3, <3>1
  <2>6. Cardinality(a \cup b) = Cardinality(a) + Cardinality(b) - Cardinality(a \cap b)
    BY <2>5, FS_Union
  <2>7. Cardinality(a \cap b) = 0
    BY <2>4, FS_EmptySet
  <2>8. Cardinality(Taken(t, u)) = Cardinality(a) + Cardinality(b)
    BY <2>4, <2>5, <2>6, <2>7
  <2> QED
    BY <2>1, <2>2, <2>3, <2>8
<1> QED
  BY <1>2, <1>3, <1>4, <1>5

LEMMA UsedIs ==
  ASSUME NEW v, NEW t \in [Files -> SUBSET Clusters],
         \A f, g \in Files : f # g => t[f] \cap t[g] = {},
         \A f \in Files : File!Blocks(v[f]) = Cardinality(t[f])
  PROVE  File!Used(v) = Cardinality(Taken(t, Files))
<1> DEFINE E(g) == [u \in SUBSET Files |->
                      IF u = {} THEN 0
                      ELSE g[u \ {CHOOSE x \in u : TRUE}] + File!Blocks(v[CHOOSE x \in u : TRUE])]
           it == CHOOSE g : g = E(g)
           count == [u \in SUBSET Files |-> Cardinality(Taken(t, u))]
<1>1. \A h : [u \in SUBSET Files |-> UsedStep(v, h, u)] = E(h)
  BY DEF UsedStep, Some
<1>2. Useds(v, count)
  <2>1. ASSUME NEW u \in SUBSET Files
        PROVE  count[u] = UsedStep(v, count, u)
    <3>1. CASE u = {}
      <4>1. Cardinality({}) = 0
        BY FS_EmptySet
      <4>2. count[u] = 0
        BY <3>1, <4>1, TakenFacts
      <4> QED
        BY <3>1, <4>2 DEF UsedStep
    <3>2. CASE u # {}
      <4>1. PICK f : f = Some(u)
        OBVIOUS
      <4>2. /\ f \in u /\ f \in Files /\ u \ {f} \in SUBSET Files
            /\ Cardinality(Taken(t, u)) = Cardinality(Taken(t, u \ {f})) + Cardinality(t[f])
        BY <3>2, <4>1, TakenFacts
      <4>3. count[u] = count[u \ {f}] + File!Blocks(v[f])
        BY <4>2
      <4> HIDE DEF count
      <4> QED
        BY <3>2, <4>1, <4>3 DEF UsedStep
    <3> QED
      BY <3>1, <3>2
  <2>2. count = [u \in SUBSET Files |-> count[u]]
    OBVIOUS
  <2> HIDE DEF count
  <2>3. count = [u \in SUBSET Files |-> UsedStep(v, count, u)]
    BY <2>1, <2>2
  <2> QED
    BY <2>3 DEF Useds
<1>3. File!Used(v) = it[Files]
  BY DEF File!Used, File!FoldSet, File!MapThenFoldSet
<1> HIDE DEF E, count
<1>4. count = E(count)
  BY <1>1, <1>2 DEF Useds
<1>5. it = E(it)
  BY <1>4
<1> HIDE DEF it
<1>6. \A u \in SUBSET Files : it[u] = UsedStep(v, it, u)
  <2>1. it = [u \in SUBSET Files |-> UsedStep(v, it, u)]
    BY <1>1, <1>5
  <2> QED
    BY <2>1
<1> DEFINE Bad == {n \in Nat : \E u \in SUBSET Files : Cardinality(u) = n /\ it[u] # Cardinality(Taken(t, u))}
<1>7. Bad = {}
  <2> SUFFICES ASSUME Bad # {}
               PROVE  FALSE
    OBVIOUS
  <2>1. PICK n \in Bad : \A j \in Bad : n <= j
    <3>1. Bad \in SUBSET Nat
      OBVIOUS
    <3> HIDE DEF Bad
    <3> QED
      BY <3>1, MinFacts
  <2>2. PICK u \in SUBSET Files : Cardinality(u) = n /\ it[u] # Cardinality(Taken(t, u))
    BY <2>1
  <2>3. CASE u = {}
    <3>1. Cardinality(Taken(t, {})) = 0
      BY TakenFacts, FS_EmptySet
    <3>2. it[u] = 0
      BY <2>3, <1>6 DEF UsedStep
    <3> QED
      BY <2>2, <2>3, <3>1, <3>2
  <2>4. CASE u # {}
    <3>1. PICK f, y : f = Some(u) /\ y = u \ {f}
      OBVIOUS
    <3>2. /\ f \in u /\ f \in Files /\ y \in SUBSET Files
          /\ Cardinality(Taken(t, u)) = Cardinality(Taken(t, y)) + Cardinality(t[f])
      BY <2>4, <3>1, TakenFacts
    <3>3. it[u] = it[y] + File!Blocks(v[f])
      BY <1>6, <2>4, <3>1 DEF UsedStep
    <3>4. Cardinality(y) = n - 1 /\ n - 1 \in Nat
      <4>1. IsFiniteSet(Files) /\ IsFiniteSet(u)
        BY FileAssumption, FS_Subset
      <4>2. Cardinality(y) = Cardinality(u) - 1 /\ IsFiniteSet(y)
        BY <3>1, <3>2, <4>1, FS_RemoveElement
      <4>3. Cardinality(y) \in Nat /\ Cardinality(u) \in Nat
        BY <4>1, <4>2, FS_CardinalityType
      <4> QED
        BY <2>2, <4>2, <4>3
    <3>5. n - 1 \notin Bad
      <4>1. n \in Nat
        BY <2>1
      <4>2. n - 1 \in Bad => n <= n - 1
        <5> HIDE DEF Bad
        <5> QED
          BY <2>1
      <4> QED
        BY <4>1, <4>2
    <3>6. it[y] = Cardinality(Taken(t, y))
      BY <3>2, <3>4, <3>5
    <3> QED
      BY <2>2, <3>2, <3>3, <3>6
  <2> QED
    BY <2>3, <2>4
<1>8. it[Files] = Cardinality(Taken(t, Files))
  <2>1. Cardinality(Files) \in Nat
    BY FileAssumption, FS_CardinalityType
  <2>2. Cardinality(Files) \notin Bad
    <3> HIDE DEF Bad
    <3> QED
      BY <1>7
  <2> QED
    BY <2>1, <2>2
<1> QED
  BY <1>3, <1>8

(* What the files use of the drive, by their chains s.                     *)
LEMMA UsedCount ==
  ASSUME NEW v, NEW s \in [Files -> Seq(Clusters)],
         \A f \in Files : IsInjective(s[f]) /\ Len(s[f]) = File!Blocks(v[f]),
         \A f, g \in Files : f # g => Range(s[f]) \cap Range(s[g]) = {}
  PROVE  /\ File!Used(v) <= m_numcl
         /\ (\A c \in Clusters : \E f \in Files : c \in Range(s[f])) => File!Used(v) = m_numcl
<1>1. PICK t : t = [f \in Files |-> Range(s[f])]
  OBVIOUS
<1>2. \A f \in Files : s[f] \in Seq(Clusters) /\ t[f] = Range(s[f])
  BY <1>1
<1>3. t \in [Files -> SUBSET Clusters]
  <2>1. \A f \in Files : Range(s[f]) \in SUBSET Clusters
    BY <1>2, RangeIs
  <2> QED
    BY <1>1, <2>1
<1>4. \A f \in Files : File!Blocks(v[f]) = Cardinality(t[f])
  BY <1>2, RangeCount
<1>5. \A f, g \in Files : f # g => t[f] \cap t[g] = {}
  BY <1>2
<1>6. File!Used(v) = Cardinality(Taken(t, Files))
  BY <1>3, <1>4, <1>5, UsedIs
<1>7. Cardinality(Taken(t, Files)) \in 0 .. m_numcl /\ Taken(t, Files) \subseteq Clusters
  BY <1>3, <1>5, TakenFacts
<1>8. m_numcl \in Nat /\ m_numcl > 0
  BY Drive
<1>9. ASSUME \A c \in Clusters : \E f \in Files : c \in Range(s[f])
      PROVE  File!Used(v) = m_numcl
  <2>1. Taken(t, Files) = Clusters
    BY <1>2, <1>7, <1>9 DEF Taken
  <2>2. Cardinality(2 .. m_numcl + 1) = IF 2 > m_numcl + 1 THEN 0 ELSE m_numcl + 1 - 2 + 1
    BY <1>8, FS_Interval
  <2>3. Cardinality(Clusters) = m_numcl
    BY <1>8, <2>2 DEF Clusters
  <2> QED
    BY <1>6, <2>1, <2>3
<1>10. File!Used(v) <= m_numcl
  BY <1>6, <1>7, <1>8
<1> QED
  BY <1>9, <1>10

Lengths == [f \in Files |-> dfd[f].o_fileln]
Positions == [o \in Ofds |-> ofd[o].o_bytnum]

(* After a step the files fit on the drive, and fill it when no cluster    *)
(* is free.                                                                *)
LEMMA UsedAfter ==
  ASSUME FileInv'
  PROVE  /\ File!Used(Lengths') <= m_numcl
         /\ (\A c \in Clusters : fat'[c] # FREECLUSTER) => File!Used(Lengths') = m_numcl
<1>1. PICK v, s : v = Lengths' /\ s = [f \in Files |-> Chain(f)']
  OBVIOUS
<1>2. ASSUME NEW f \in Files
      PROVE  /\ s[f] = Chain(f)' /\ s[f] \in Seq(Clusters)
             /\ IsInjective(s[f]) /\ Len(s[f]) = File!Blocks(v[f])
  <2>1. PICK q, l : q = Chain(f)' /\ l = dfd'[f].o_fileln
    OBVIOUS
  <2>2. Linked(q, dfd'[f].o_strtcl, fat') /\ Fits(Len(q), l)
    BY <2>1 DEF FileInv, ChainsGood
  <2>3. Len(q) \in Int /\ q \in Seq(Clusters) /\ IsInjective(q)
    <3>1. Len(q) \in 0 .. m_numcl /\ q \in Seq(Clusters)
      BY <2>2, LinkedFacts
    <3> QED
      BY <2>2, <3>1 DEF Linked
  <2>4. l \in Nat
    <3>1. m_numcl * m_clsizb \in Nat
      BY Drive
    <3>2. dfd'[f] \in Dfd
      BY DEF FileInv, FileTypes
    <3> QED
      BY <2>1, <3>1, <3>2 DEF Dfd
  <2>5. ClustersFor(l) = Len(q)
    BY <2>2, <2>3, <2>4, FitsIs
  <2>6. s[f] = q /\ v[f] = l
    BY <1>1, <2>1 DEF Lengths
  <2> QED
    BY <2>1, <2>3, <2>5, <2>6 DEF File!Blocks, ClustersFor
<1>3. s \in [Files -> Seq(Clusters)]
  BY <1>1, <1>2
<1>4. \A f, g \in Files : f # g => Range(s[f]) \cap Range(s[g]) = {}
  BY <1>2 DEF FileInv, ChainsApart
<1>5. /\ File!Used(v) <= m_numcl
      /\ (\A c \in Clusters : \E f \in Files : c \in Range(s[f])) => File!Used(v) = m_numcl
  BY <1>2, <1>3, <1>4, UsedCount
<1>6. ASSUME \A c \in Clusters : fat'[c] # FREECLUSTER
      PROVE  \A c \in Clusters : \E f \in Files : c \in Range(s[f])
  BY <1>2, <1>6 DEF FileInv, AllOwned
<1> QED
  BY <1>1, <1>5, <1>6

(* What a transfer does to the lengths and the positions.                  *)
LEMMA CommitMoves ==
  ASSUME FileInv, NEW o \in Ofds, NEW n \in Nat, n > 0, NEW w \in BOOLEAN,
         ~w => ofd[o].o_bytnum + n <= dfd[FileOf[o]].o_fileln,
         NEW x, x = xrw(Transfer(o, n), w), Commit(o, x)
  PROVE  \E k \in 0 .. n :
           /\ Positions' = [Positions EXCEPT ![o] = Positions[o] + k]
           /\ Lengths' = [Lengths EXCEPT ![FileOf[o]] =
                            Longest(Lengths[FileOf[o]], Positions[o] + k)]
           /\ k < n => w /\ \A c \in Clusters : fat'[c] # FREECLUSTER
<1>0. PICK z, f, k, b : z = Transfer(o, n) /\ f = FileOf[o] /\ k = Len(x.moved) /\ b = ofd[o].o_bytnum
  OBVIOUS
<1>1. PICK s : Good(z, Chain(f), x, s, w)
  BY <1>0, TransferEnds
<1>2. x.ended \/ x.left = 0
  BY <1>0, TransferEnds
<1>3. /\ x \in Xfer /\ Did(z, x, s)
      /\ x.ended => w /\ \A c \in Clusters : x.fat[c] # FREECLUSTER
  BY <1>1 DEF Good
<1>4. z.left = n /\ z.p.o_bytnum = b /\ z.d.o_fileln = dfd[f].o_fileln
  BY <1>0 DEF Transfer
<1>5. k \in Nat /\ x.left \in Nat /\ n = x.left + k
  <2>1. x.moved \in Seq(Int)
    BY <1>3, XferFields
  <2> QED
    BY <1>0, <1>3, <1>4, <2>1, SeqFacts DEF Did
<1>6. x.p.o_bytnum = b + k /\ x.d.o_fileln = Longest(dfd[f].o_fileln, b + k)
  BY <1>0, <1>3, <1>4 DEF Did
<1>7. /\ f \in Files /\ fat' = x.fat
      /\ dfd' = [dfd EXCEPT ![f] = x.d] /\ ofd' = [ofd EXCEPT ![o] = x.p]
      /\ dfd \in [Files -> Dfd] /\ ofd \in [Ofds -> Ofd]
  <2>1. f \in Files
    BY <1>0, FileAssumption
  <2>2. fat' = x.fat /\ dfd' = [dfd EXCEPT ![f] = x.d] /\ ofd' = [ofd EXCEPT ![o] = x.p]
    BY <1>0 DEF Commit
  <2>3. dfd \in [Files -> Dfd] /\ ofd \in [Ofds -> Ofd]
    BY DEF FileInv, FileTypes
  <2> QED
    BY <2>1, <2>2, <2>3
<1>8. Positions' = [Positions EXCEPT ![o] = Positions[o] + k]
  <2>1. ofd'[o].o_bytnum = b + k /\ \A q \in Ofds : q # o => ofd'[q] = ofd[q]
    BY <1>6, <1>7
  <2>2. Positions[o] = b /\ \A q \in Ofds : Positions[q] = ofd[q].o_bytnum
    BY <1>0 DEF Positions
  <2>3. Positions' = [q \in Ofds |-> ofd'[q].o_bytnum]
    BY DEF Positions
  <2>4. Positions = [q \in Ofds |-> Positions[q]]
    BY DEF Positions
  <2>5. \A q \in Ofds : ofd'[q].o_bytnum = [Positions EXCEPT ![o] = b + k][q]
    BY <2>1, <2>2, <2>4
  <2> QED
    BY <2>2, <2>3, <2>4, <2>5
<1>9. Lengths' = [Lengths EXCEPT ![f] = Longest(Lengths[f], Positions[o] + k)]
  <2>1. dfd'[f].o_fileln = Longest(dfd[f].o_fileln, b + k) /\ \A g \in Files : g # f => dfd'[g] = dfd[g]
    BY <1>6, <1>7
  <2>2. Positions[o] = b /\ \A g \in Files : Lengths[g] = dfd[g].o_fileln
    BY <1>0 DEF Positions, Lengths
  <2>3. Lengths' = [g \in Files |-> dfd'[g].o_fileln]
    BY DEF Lengths
  <2>4. Lengths = [g \in Files |-> Lengths[g]]
    BY DEF Lengths
  <2>5. PICK m : m = Longest(Lengths[f], Positions[o] + k)
    OBVIOUS
  <2>6. \A g \in Files : dfd'[g].o_fileln = [Lengths EXCEPT ![f] = m][g]
    BY <1>7, <2>1, <2>2, <2>4, <2>5
  <2> QED
    BY <2>3, <2>4, <2>5, <2>6
<1>10. k < n => w /\ \A c \in Clusters : fat'[c] # FREECLUSTER
  <2>1. k < n => x.left # 0
    BY <1>5
  <2>2. fat' = x.fat
    BY <1>7
  <2> QED
    BY <1>2, <1>3, <2>1, <2>2
<1>11. k \in 0 .. n
  BY <1>5
<1> QED
  BY <1>0, <1>8, <1>9, <1>10, <1>11

-----------------------------------------------------------------------------
(***************************************************************************)
(* Every step is one of the abstract files, or none.                       *)
(***************************************************************************)
LEMMA LengthFacts ==
  ASSUME FileInv, NEW o \in Ofds
  PROVE  /\ FileOf[o] \in Files /\ Lengths \in [Files -> Nat] /\ Positions \in [Ofds -> Nat]
         /\ Positions[o] = ofd[o].o_bytnum /\ Lengths[FileOf[o]] = dfd[FileOf[o]].o_fileln
         /\ Positions[o] <= Lengths[FileOf[o]]
<1>1. FileOf[o] \in Files
  BY FileAssumption
<1>2. m_numcl * m_clsizb \in Nat
  BY Drive
<1>3. \A f \in Files : dfd[f].o_fileln \in Nat
  BY <1>2 DEF FileInv, FileTypes, Dfd
<1>4. \A q \in Ofds : ofd[q].o_bytnum \in Nat
  BY <1>2 DEF FileInv, FileTypes, Ofd
<1>5. Lengths \in [Files -> Nat] /\ Positions \in [Ofds -> Nat]
  BY <1>3, <1>4 DEF Lengths, Positions
<1>6. Positions[o] = ofd[o].o_bytnum /\ Lengths[FileOf[o]] = dfd[FileOf[o]].o_fileln
  BY <1>1 DEF Lengths, Positions
<1>7. ofd[o].o_bytnum <= dfd[FileOf[o]].o_fileln
  BY DEF FileInv, PlacesGood
<1> QED
  BY <1>1, <1>5, <1>6, <1>7

LEMMA ReadStep ==
  ASSUME FileInv, NEW o \in Ofds, NEW len \in 1 .. MaxRequest, ixread(o, len)
  PROVE  File!Read(o, len)
<1>0. len \in Nat
  BY Drive
<1>1. PICK n : n = Readable(o, len)
  OBVIOUS
<1>2. n \in Nat /\ n > 0 /\ ofd[o].o_bytnum + n <= dfd[FileOf[o]].o_fileln
  BY <1>0, <1>1, ReadableFacts DEF ixread
<1>3. PICK x : x = xrw(Transfer(o, n), FALSE) /\ Commit(o, x)
  BY <1>1 DEF ixread
<1>4. PICK k \in 0 .. n :
           /\ Positions' = [Positions EXCEPT ![o] = Positions[o] + k]
           /\ Lengths' = [Lengths EXCEPT ![FileOf[o]] =
                            Longest(Lengths[FileOf[o]], Positions[o] + k)]
           /\ ~(k < n)
  BY <1>2, <1>3, CommitMoves
<1>5. PICK b, l : b = Positions[o] /\ l = Lengths[FileOf[o]]
  OBVIOUS
<1>6. /\ FileOf[o] \in Files /\ Lengths \in [Files -> Nat] /\ Positions \in [Ofds -> Nat]
      /\ b = ofd[o].o_bytnum /\ l = dfd[FileOf[o]].o_fileln
  BY <1>5, LengthFacts
<1>7. b \in Nat /\ l \in Nat /\ k = n /\ b + n <= l
  <2>1. k = n
    BY <1>2, <1>4
  <2>2. b \in Nat /\ l \in Nat
    BY <1>5, <1>6
  <2>3. b + n <= l
    BY <1>2, <1>6
  <2> QED
    BY <2>1, <2>2, <2>3
<1>8. Longest(l, b + k) = l
  BY <1>7 DEF Longest
<1>9. Lengths' = Lengths
  BY <1>4, <1>5, <1>6, <1>8
<1>10. n = len \/ (b + n = l /\ n < len)
  BY <1>0, <1>1, <1>6, ReadableFacts
<1>11. File!Smaller(b + len, l) = b + k
  BY <1>0, <1>2, <1>7, <1>10 DEF File!Smaller
<1>12. Positions' = [Positions EXCEPT ![o] = File!Smaller(Positions[o] + len, Lengths[FileOf[o]])]
  BY <1>4, <1>5, <1>11
<1> QED
  BY <1>9, <1>12 DEF File!Read, Lengths, Positions

LEMMA WriteStep ==
  ASSUME FileInv, FileInv', NEW o \in Ofds, NEW len \in 1 .. MaxRequest, ixwrite(o, len)
  PROVE  File!Write(o, len)
<1>0. len \in Nat /\ len > 0
  BY Drive
<1>1. PICK x : x = xrw(Transfer(o, len), TRUE) /\ Commit(o, x)
  BY DEF ixwrite
<1>2. PICK k \in 0 .. len :
           /\ Positions' = [Positions EXCEPT ![o] = Positions[o] + k]
           /\ Lengths' = [Lengths EXCEPT ![FileOf[o]] =
                            Longest(Lengths[FileOf[o]], Positions[o] + k)]
           /\ k < len => \A c \in Clusters : fat'[c] # FREECLUSTER
  BY <1>0, <1>1, CommitMoves
<1>3. PICK b, l : b = Positions[o] /\ l = Lengths[FileOf[o]]
  OBVIOUS
<1>4. b \in Nat /\ l \in Nat /\ k \in Nat
  BY <1>0, <1>2, <1>3, LengthFacts
<1>5. Longest(l, b + k) = File!Larger(l, b + k)
  BY <1>4 DEF Longest, File!Larger
<1>6. Lengths' = [Lengths EXCEPT ![FileOf[o]] = File!Larger(Lengths[FileOf[o]], Positions[o] + k)]
  BY <1>2, <1>3, <1>5
<1>7. File!Used(Lengths') <= m_numcl /\ (k < len => File!Used(Lengths') = m_numcl)
  BY <1>2, UsedAfter
<1> QED
  BY <1>2, <1>6, <1>7 DEF File!Write, Lengths, Positions

LEMMA SeekStep ==
  ASSUME FileInv, NEW o \in Ofds, NEW n, xlseek(o, n)
  PROVE  File!Seek(o, n)
<1>1. PICK p : p = ixlseek(o, n)
  OBVIOUS
<1>2. /\ n \in 0 .. dfd[FileOf[o]].o_fileln
      /\ ofd' = [ofd EXCEPT ![o] = p] /\ dfd' = dfd /\ ofd \in [Ofds -> Ofd]
  BY <1>1 DEF xlseek, FileInv, FileTypes
<1>3. p.o_bytnum = n
  BY <1>1, <1>2, SeekGood
<1>4. Lengths' = Lengths
  BY <1>2 DEF Lengths
<1>5. Positions' = [Positions EXCEPT ![o] = n]
  <2>1. ofd'[o].o_bytnum = n /\ \A q \in Ofds : q # o => ofd'[q] = ofd[q]
    BY <1>2, <1>3
  <2>2. \A q \in Ofds : ofd'[q].o_bytnum = [Positions EXCEPT ![o] = n][q]
    BY <2>1 DEF Positions
  <2> QED
    BY <2>2 DEF Positions
<1>6. n \in 0 .. Lengths[FileOf[o]]
  BY <1>2, LengthFacts
<1> QED
  BY <1>4, <1>5, <1>6 DEF File!Seek, Lengths, Positions

LEMMA RecreateStep ==
  ASSUME FileInv, NEW f \in Files, recreate(f)
  PROVE  File!Recreate(f)
<1>0. PICK e : e = [o_strtcl |-> 0, o_fileln |-> 0]
  OBVIOUS
<1>1. /\ dfd' = [dfd EXCEPT ![f] = e] /\ e.o_fileln = 0 /\ dfd \in [Files -> Dfd]
      /\ ofd' = [o \in Ofds |-> IF FileOf[o] = f THEN AtStart ELSE ofd[o]]
  BY <1>0 DEF recreate, FileInv, FileTypes
<1>2. Lengths' = [Lengths EXCEPT ![f] = 0]
  <2>1. dfd'[f].o_fileln = 0 /\ \A g \in Files : g # f => dfd'[g] = dfd[g]
    BY <1>1
  <2>2. \A g \in Files : dfd'[g].o_fileln = [Lengths EXCEPT ![f] = 0][g]
    BY <2>1 DEF Lengths
  <2> QED
    BY <2>2 DEF Lengths
<1>3. Positions' = [o \in Ofds |-> IF FileOf[o] = f THEN 0 ELSE Positions[o]]
  <2>1. \A o \in Ofds : ofd'[o].o_bytnum = IF FileOf[o] = f THEN 0 ELSE Positions[o]
    BY <1>1 DEF Positions, AtStart
  <2> QED
    BY <2>1 DEF Positions
<1> QED
  BY <1>2, <1>3 DEF File!Recreate, Lengths, Positions

LEMMA FileStep ==
  ASSUME FileInv, FileInv', [FileNext]_filevars
  PROVE  [File!Next]_<<Lengths, Positions>>
<1>1. CASE UNCHANGED filevars
  BY <1>1 DEF filevars, Lengths, Positions
<1>2. ASSUME NEW o \in Ofds, NEW len \in 1 .. MaxRequest, ixread(o, len) \/ ixwrite(o, len)
      PROVE  File!Next
  <2>1. File!Read(o, len) \/ File!Write(o, len)
    BY <1>2, ReadStep, WriteStep
  <2> QED
    BY <2>1 DEF File!Next
<1>3. ASSUME NEW o \in Ofds, NEW n \in 0 .. m_numcl * m_clsizb, xlseek(o, n)
      PROVE  File!Next
  <2>1. File!Seek(o, n)
    BY <1>3, SeekStep
  <2> QED
    BY <2>1 DEF File!Next
<1>4. ASSUME NEW f \in Files, recreate(f)
      PROVE  File!Next
  <2>1. File!Recreate(f)
    BY <1>4, RecreateStep
  <2> QED
    BY <2>1 DEF File!Next
<1> QED
  BY <1>1, <1>2, <1>3, <1>4 DEF FileNext

(* Clusters, records and buffers of bytes are not seen from outside: a     *)
(* read, write or seek is one on a file that is a row of bytes, and only a *)
(* write that has filled the drive is cut short (xrw(), ixlseek()).        *)
THEOREM FileIORefines == FileSpec => ByteFileSpec
<1>1. FileInit => File!Init
  BY DEF FileInit, File!Init, AtStart
<1>2. FileInv /\ FileInv' /\ [FileNext]_filevars => [File!Next]_<<Lengths, Positions>>
  BY FileStep
<1>3. ASSUME FileInv, FileInv', [FileNext]_filevars
      PROVE  [File!Next]_<<[f \in Files |-> dfd[f].o_fileln], [o \in Ofds |-> ofd[o].o_bytnum]>>
  BY <1>2, <1>3 DEF Lengths, Positions
<1> QED
  BY <1>1, <1>3, SpecInv, PTL DEF FileSpec, ByteFileSpec, File!Spec

-----------------------------------------------------------------------------
(***************************************************************************)
(* BufferCache.                                                            *)
(***************************************************************************)
LEMMA AnyRecordType == AnyRecord \in Records
  BY BufferAssumption DEF AnyRecord

LEMMA EmptyType == Empty \in BCB
  BY AnyRecordType DEF Empty, BCB

LEMMA NoneApart == None \notin Drives /\ None \notin Media /\ None \notin Buffers
  BY BufferAssumption

Calls == [drv : Drives \cup {None}, handle : BOOLEAN, rec : Records,
          write : BOOLEAN, recs : SUBSET Records,
          victim : Buffers \cup {None}, then : Labels]

LEMMA NoCallType ==
  /\ NoCall \in Calls
  /\ \A c \in Calls : [NoCall EXCEPT !.drv = c.drv, !.handle = c.handle] \in Calls
  BY AnyRecordType DEF NoCall, Calls, Labels

LEMMA InitTypes == Init => TypeOK
  <1> SUFFICES ASSUME Init PROVE TypeOK
    OBVIOUS
  <1>1. bufl \in [Buffers -> BCB]
    BY EmptyType DEF Init
  <1>2. call \in Calls
    BY NoCallType DEF Init
  <1>3. place \in [Buffers -> Nat \ {0}]
    BY DEF Init
  <1>4. QED
    BY <1>1, <1>2, <1>3 DEF Init, TypeOK, Calls, Labels

-----------------------------------------------------------------------------
(* What the steps are made of keeps its type.                              *)

LEMMA InvalidTypes ==
  ASSUME NEW d \in Drives, NEW bcbs \in [Buffers -> BCB]
  PROVE  mark_bcbs_invalid(d, bcbs) \in [Buffers -> BCB]
  BY EmptyType DEF mark_bcbs_invalid

LEMMA ToHeadType ==
  ASSUME TypeOK, NEW b \in Buffers
  PROVE  ToHead(b) \in [Buffers -> Nat \ {0}]
  BY DEF ToHead, TypeOK

LEMMA ChangeType ==
  ASSUME clock \in Nat, NEW bcb \in BCB, NEW write \in BOOLEAN
  PROVE  Change(bcb, write) \in BCB
  <1>1. clock + 1 \in Nat
    OBVIOUS
  <1>2. CASE write
    <2>1. Change(bcb, write) = [bcb EXCEPT !.b_dirty = TRUE, !.b_bufr = clock + 1]
      BY <1>2 DEF Change
    <2>2. QED
      BY <1>1, <2>1 DEF BCB
  <1>3. CASE ~write
    BY <1>3 DEF Change
  <1>4. QED
    BY <1>2, <1>3

LEMMA CleanType ==
  ASSUME TypeOK, NEW b \in Buffers
  PROVE  [bufl EXCEPT ![b].b_dirty = FALSE] \in [Buffers -> BCB]
  <1>1. bufl \in [Buffers -> BCB]
    BY DEF TypeOK
  <1>2. [bufl[b] EXCEPT !.b_dirty = FALSE] \in BCB
    BY <1>1 DEF BCB
  <1>3. QED
    BY <1>1, <1>2

LEMMA CalmType ==
  ASSUME NEW f \in [Drives -> 0 .. 2], NEW d \in Drives
  PROVE  [f EXCEPT ![d] = 0] \in [Drives -> 0 .. 2]
  OBVIOUS

LEMMA TickType ==
  ASSUME clock \in Nat, NEW write \in BOOLEAN, Tick(write)
  PROVE  clock' \in Nat
  <1>1. clock' = clock + 1 \/ clock' = clock
    BY DEF Tick
  <1>2. QED
    BY <1>1

LEMMA FilledType ==
  ASSUME TypeOK, call.drv \in Drives
  PROVE  Filled \in BCB
  BY DEF Filled, TypeOK, BCB

LEMMA WrittenType ==
  ASSUME TypeOK, NEW d \in Drives, NEW r \in Records, NEW v \in Nat
  PROVE  /\ Written(disk, d, r, v) \in [Media -> [Records -> Nat]]
         /\ Written(copy, d, r, v) \in [Media -> [Records -> Nat]]
  BY DEF Written, TypeOK

LEMMA TransferredType ==
  ASSUME TypeOK, call.drv \in Drives
  PROVE  Transferred \in [Media -> [Records -> Nat]]
  <1>1. clock + 1 \in Nat /\ med[call.drv] \in Media
    BY DEF TypeOK
  <1>2. disk \in [Media -> [Records -> Nat]]
    BY DEF TypeOK
  <1>3. [r \in Records |-> IF r \in call.recs THEN clock + 1 ELSE disk[med[call.drv]][r]]
          \in [Records -> Nat]
    BY <1>1, <1>2
  <1>4. QED
    BY <1>1, <1>2, <1>3 DEF Transferred

-----------------------------------------------------------------------------
(* Parts of the invariant that steps leave alone.                          *)

LEMMA StillCoherent ==
  ASSUME Coherent, UNCHANGED <<disk, drvtbl, bufl, place>>
  PROVE  Coherent'
  BY DEF Coherent, Valid

LEMMA StillLoggedIn ==
  ASSUME LoggedIn, UNCHANGED <<med, media, drvtbl>>
  PROVE  LoggedIn'
  BY DEF LoggedIn

LEMMA ControlTypes ==
  ASSUME TypeOK, call' \in Calls, pc' \in Labels,
         UNCHANGED <<disk, copy, med, media, drvtbl, bufl, place, clock>>
  PROVE  TypeOK'
  BY DEF TypeOK, Calls

LEMMA ReturnReady ==
  ASSUME Return
  PROVE  CallReady' /\ call' \in Calls /\ pc' \in Labels
  <1>1. pc' = "idle" /\ call' = NoCall
    BY DEF Return
  <1>2. call'.recs = {} /\ call' \in Calls
    BY <1>1, NoCallType DEF NoCall
  <1>3. pc' \in Labels
    BY <1>1 DEF Labels
  <1>4. QED
    BY <1>1, <1>2, <1>3 DEF CallReady, Filling

(* Buffers are lost, those of drive d among them; the other drives stay    *)
(* logged in.                                                              *)
LEMMA LostCoherent ==
  ASSUME TypeOK, Coherent, NEW d \in Drives,
         UNCHANGED <<disk, place>>,
         \A b \in Buffers :
           bufl'[b] = Empty \/ (bufl'[b] = bufl[b] /\ bufl[b].b_bufdrv # d),
         \A e \in Drives \ {d} : drvtbl'[e] = drvtbl[e]
  PROVE  Coherent'
  <1>1. Empty.b_bufdrv = None
    BY DEF Empty
  <1>2. \A b \in Buffers : Valid(b)' =>
          Valid(b) /\ bufl'[b] = bufl[b] /\ bufl[b].b_bufdrv \in Drives \ {d}
    BY <1>1 DEF Valid, TypeOK, BCB
  <1>3. \A b \in Buffers : Valid(b)' =>
          drvtbl'[bufl'[b].b_bufdrv] = drvtbl[bufl[b].b_bufdrv]
    BY <1>2
  <1>4. QED
    BY <1>2, <1>3 DEF Coherent

Lost(bcbs) == \A b \in Buffers : bcbs[b] = bufl[b] \/ bcbs[b] = Empty

LEMMA InvalidLoses ==
  ASSUME NEW d \in Drives, NEW bcbs \in [Buffers -> BCB], Lost(bcbs),
         bufl' = mark_bcbs_invalid(d, bcbs)
  PROVE  \A b \in Buffers :
           bufl'[b] = Empty \/ (bufl'[b] = bufl[b] /\ bufl[b].b_bufdrv # d)
  BY DEF mark_bcbs_invalid, Lost

LEMMA RestartReady ==
  ASSUME TypeOK, CallReady, pc # "idle",
         Goto("start", [NoCall EXCEPT !.drv = call.drv, !.handle = call.handle]),
         call.handle => drvtbl'[call.drv] = drvtbl[call.drv]
  PROVE  CallReady' /\ call' \in Calls /\ pc' \in Labels
  <1>1. pc' = "start" /\ call' = [NoCall EXCEPT !.drv = call.drv, !.handle = call.handle]
    BY DEF Goto
  <1>2. call'.drv = call.drv /\ call'.handle = call.handle /\ call'.recs = {}
    BY <1>1 DEF NoCall
  <1>3. call' \in Calls
    BY <1>1, NoCallType DEF TypeOK, Calls
  <1>4. call.drv \in Drives
    BY DEF CallReady
  <1>5. call.handle => drvtbl[call.drv] # None
    BY DEF CallReady, TypeOK, Labels
  <1>6. pc' \in Labels
    BY <1>1 DEF Labels
  <1>7. QED
    BY <1>1, <1>2, <1>3, <1>4, <1>5, <1>6 DEF CallReady, Filling

LEMMA MediaChangeKeeps ==
  ASSUME IInv, NEW d \in Drives, NEW bcbs \in [Buffers -> BCB], Lost(bcbs),
         pc # "idle", MediaChange(d, bcbs)
  PROVE  IInv'
  <1> USE DEF IInv
  <1>1. /\ bufl' = mark_bcbs_invalid(d, bcbs)
        /\ media' = [media EXCEPT ![d] = 0]
        /\ UNCHANGED <<disk, copy, med, place, clock>>
    BY DEF MediaChange
  <1>2. \/ drvtbl' = [drvtbl EXCEPT ![d] = None]
        \/ drvtbl' = [drvtbl EXCEPT ![d] = med[d]]
    BY DEF MediaChange
  <1>a. drvtbl \in [Drives -> Media \cup {None}] /\ med[d] \in Media
    BY DEF TypeOK
  <1>b. /\ drvtbl' \in [Drives -> Media \cup {None}]
        /\ \A e \in Drives \ {d} : drvtbl'[e] = drvtbl[e]
    <2> HIDE DEF IInv
    <2>1. QED
      BY <1>2, <1>a
  <1>3. \A e \in Drives \ {d} : drvtbl'[e] = drvtbl[e]
    BY <1>b
  <1>4. Coherent'
    BY <1>1, <1>3, InvalidLoses, LostCoherent
  <1>5. LoggedIn'
    BY <1>1, <1>2, NoneApart DEF LoggedIn, TypeOK
  <1>6. CallReady' /\ call' \in Calls /\ pc' \in Labels
    <2>1. CASE Return
      BY <2>1, ReturnReady
    <2>2. CASE ~Return
      <3>1. ~(call.handle /\ call.drv = d)
        BY <2>2 DEF MediaChange
      <3>2. Goto("start", [NoCall EXCEPT !.drv = call.drv, !.handle = call.handle])
        BY <2>2, <3>1 DEF MediaChange
      <3>3. call.drv \in Drives
        BY DEF CallReady
      <3>4. call.handle => drvtbl'[call.drv] = drvtbl[call.drv]
        BY <3>1, <3>3, <1>3
      <3>5. QED
        BY <3>2, <3>4, RestartReady
    <2>3. QED
      BY <2>1, <2>2
  <1>7. TypeOK'
    <2>1. bufl' \in [Buffers -> BCB]
      BY <1>1, InvalidTypes
    <2>2. media' \in [Drives -> 0 .. 2]
      BY <1>1 DEF TypeOK
    <2>3. drvtbl' \in [Drives -> Media \cup {None}]
      BY <1>b
    <2>4. QED
      BY <1>1, <1>6, <2>1, <2>2, <2>3 DEF TypeOK, Calls
  <1>8. QED
    BY <1>4, <1>5, <1>6, <1>7

LEMMA HardErrorKeeps ==
  ASSUME IInv, NEW d \in Drives, NEW bcbs \in [Buffers -> BCB], Lost(bcbs),
         HardError(d, bcbs)
  PROVE  IInv'
  <1> USE DEF IInv
  <1>1. /\ bufl' = mark_bcbs_invalid(d, bcbs)
        /\ UNCHANGED <<disk, copy, med, media, drvtbl, place, clock>>
    BY DEF HardError
  <1>2. Coherent'
    BY <1>1, InvalidLoses, LostCoherent
  <1>3. LoggedIn'
    BY <1>1, StillLoggedIn
  <1>4. CallReady' /\ call' \in Calls /\ pc' \in Labels
    BY ReturnReady DEF HardError
  <1>5. bufl' \in [Buffers -> BCB]
    BY <1>1, InvalidTypes
  <1>6. TypeOK'
    BY <1>1, <1>4, <1>5 DEF TypeOK, Calls
  <1>7. QED
    BY <1>2, <1>3, <1>4, <1>6

LEMMA RwabsFailsKeeps ==
  ASSUME IInv, NEW d \in Drives, NEW bcbs \in [Buffers -> BCB], Lost(bcbs),
         pc # "idle", RwabsFails(d, bcbs)
  PROVE  IInv'
  BY MediaChangeKeeps, HardErrorKeeps DEF RwabsFails

-----------------------------------------------------------------------------
(* The steps that only direct the call.                                    *)

LEMMA ControlKeeps ==
  ASSUME IInv, call' \in Calls, pc' \in Labels, CallReady',
         UNCHANGED <<disk, copy, med, media, drvtbl, bufl, place, clock>>
  PROVE  IInv'
  BY ControlTypes, StillCoherent, StillLoggedIn DEF IInv

LEMMA ReturnKeeps ==
  ASSUME IInv, Return,
         UNCHANGED <<disk, copy, med, media, drvtbl, bufl, place, clock>>
  PROVE  IInv'
  BY ReturnReady, ControlKeeps

LEMMA BeginKeeps ==
  ASSUME IInv, NEW d \in Drives, NEW handle \in BOOLEAN, Begin(d, handle)
  PROVE  IInv'
  <1>1. /\ pc' = "start" /\ call' = [NoCall EXCEPT !.drv = d, !.handle = handle]
        /\ handle => drvtbl[d] # None
        /\ UNCHANGED <<disk, copy, med, media, drvtbl, bufl, place, clock>>
    BY DEF Begin, Goto
  <1>2. call'.drv = d /\ call'.handle = handle /\ call'.recs = {}
    BY <1>1 DEF NoCall
  <1>3. call' \in Calls /\ pc' \in Labels
    BY <1>1, AnyRecordType DEF NoCall, Calls, Labels
  <1>4. CallReady'
    BY <1>1, <1>2 DEF CallReady, Filling
  <1>5. QED
    BY <1>1, <1>3, <1>4, ControlKeeps

(* The call goes on with a label at which nothing is asked of it but its   *)
(* drive.                                                                  *)
LEMMA GoesOn ==
  ASSUME IInv, pc' \in {"busy", "close", "usrio"}, call' \in Calls,
         call'.drv \in Drives, drvtbl'[call'.drv] # None,
         call'.recs \subseteq Runs
  PROVE  CallReady'
  BY DEF CallReady, Filling

LEMMA ckdrvKeeps ==
  ASSUME IInv, ckdrv
  PROVE  IInv'
  <1> USE DEF IInv
  <1> DEFINE d == call.drv
  <1>1. pc = "start" /\ d \in Drives /\ call \in Calls /\ call.recs \subseteq Runs
    BY DEF ckdrv, CallReady, TypeOK, Calls
  <1>2. CASE /\ call.handle \/ (drvtbl[d] # None /\ (d \notin Removable \/ media[d] = 0))
             /\ Goto("busy", call)
             /\ UNCHANGED <<disk, copy, med, media, drvtbl, bufl, place, clock>>
    <2>1. drvtbl[d] # None
      BY <1>1, <1>2 DEF CallReady
    <2>2. pc' = "busy" /\ call' = call /\ drvtbl' = drvtbl
      BY <1>2 DEF Goto
    <2>3. CallReady'
      BY <1>1, <2>1, <2>2, GoesOn
    <2>4. pc' \in Labels
      BY <2>2 DEF Labels
    <2>5. QED
      BY <1>1, <1>2, <2>2, <2>3, <2>4, ControlKeeps
  <1>3. CASE MediaChange(d, bufl)
    <2>1. Lost(bufl) /\ bufl \in [Buffers -> BCB]
      BY DEF Lost, TypeOK
    <2>2. QED
      BY <1>1, <1>3, <2>1, MediaChangeKeeps
  <1>4. CASE /\ drvtbl[d] = None
             /\ media' = [media EXCEPT ![d] = 0]
             /\ \/ Return /\ UNCHANGED drvtbl
                \/ Goto("busy", call) /\ drvtbl' = [drvtbl EXCEPT ![d] = med[d]]
             /\ UNCHANGED <<disk, copy, med, bufl, place, clock>>
    <2>1. drvtbl' = drvtbl \/ drvtbl' = [drvtbl EXCEPT ![d] = med[d]]
      BY <1>4
    <2>2. \A e \in Drives \ {d} : drvtbl'[e] = drvtbl[e]
      BY <2>1 DEF TypeOK
    <2>3. \A b \in Buffers : Valid(b) => bufl[b].b_bufdrv \in Drives \ {d}
      BY <1>4 DEF Coherent, Valid, TypeOK, BCB
    <2>4. \A b \in Buffers : Valid(b) =>
            drvtbl'[bufl[b].b_bufdrv] = drvtbl[bufl[b].b_bufdrv]
      BY <2>2, <2>3
    <2>5. Coherent'
      BY <1>4, <2>4 DEF Coherent, Valid
    <2>6. LoggedIn'
      BY <1>1, <1>4, <2>1, NoneApart DEF LoggedIn, TypeOK
    <2>7. CallReady' /\ call' \in Calls /\ pc' \in Labels
      <3>1. CASE Return
        BY <3>1, ReturnReady
      <3>2. CASE Goto("busy", call) /\ drvtbl' = [drvtbl EXCEPT ![d] = med[d]]
        <4>1. drvtbl'[d] = med[d] /\ med[d] # None
          BY <1>1, <3>2, NoneApart DEF TypeOK
        <4>2. pc' = "busy" /\ call' = call
          BY <3>2 DEF Goto
        <4>3. pc' \in Labels
          BY <4>2 DEF Labels
        <4>4. QED
          BY <1>1, <4>1, <4>2, <4>3, GoesOn
      <3>3. QED
        BY <1>4, <3>1, <3>2
    <2>8. TypeOK'
      <3>1. media' \in [Drives -> 0 .. 2]
        <4>1. media' = [media EXCEPT ![d] = 0] /\ media \in [Drives -> 0 .. 2]
          BY <1>4 DEF TypeOK
        <4>2. QED
          BY <1>1, <4>1, CalmType
      <3>2. drvtbl' \in [Drives -> Media \cup {None}]
        <4>1. drvtbl \in [Drives -> Media \cup {None}] /\ med[d] \in Media
          BY <1>1 DEF TypeOK
        <4> HIDE DEF IInv
        <4>2. QED
          BY <4>1, <2>1
      <3>3. /\ disk' \in [Media -> [Records -> Nat]] /\ copy' \in [Media -> [Records -> Nat]]
            /\ med' \in [Drives -> Media] /\ \A e \in Drives : DriveOf[med'[e]] = e
            /\ bufl' \in [Buffers -> BCB] /\ place' \in [Buffers -> Nat \ {0}] /\ clock' \in Nat
        <4>1. UNCHANGED <<disk, copy, med, bufl, place, clock>>
          BY <1>4
        <4>2. QED
          BY <4>1 DEF TypeOK
      <3>4. QED
        BY <2>7, <3>1, <3>2, <3>3 DEF TypeOK, Calls
    <2>9. QED
      BY <2>5, <2>6, <2>7, <2>8
  <1>5. QED
    BY <1>2, <1>3, <1>4 DEF ckdrv

LEMMA BeginUsrioKeeps ==
  ASSUME IInv, NEW R \in SUBSET Runs, NEW write \in BOOLEAN, Begin_usrio(R, write)
  PROVE  IInv'
  <1> USE DEF IInv
  <1>1. /\ pc = "busy" /\ pc' = "usrio"
        /\ call' = [call EXCEPT !.recs = R, !.write = write]
        /\ UNCHANGED <<disk, copy, med, media, drvtbl, bufl, place, clock>>
    BY DEF Begin_usrio, Goto
  <1>2. call' \in Calls /\ call'.recs = R /\ call'.drv = call.drv
    BY <1>1 DEF TypeOK, Calls, Runs
  <1>3. call.drv \in Drives /\ drvtbl[call.drv] # None
    BY <1>1 DEF CallReady
  <1>4. CallReady'
    BY <1>1, <1>2, <1>3, GoesOn
  <1>5. pc' \in Labels
    BY <1>1 DEF Labels
  <1>6. QED
    BY <1>1, <1>2, <1>4, <1>5, ControlKeeps

LEMMA BeginCloseKeeps ==
  ASSUME IInv, Begin_close
  PROVE  IInv'
  <1> USE DEF IInv
  <1>1. /\ pc = "busy" /\ pc' = "close" /\ call' = call
        /\ UNCHANGED <<disk, copy, med, media, drvtbl, bufl, place, clock>>
    BY DEF Begin_close, Goto
  <1>2. call' \in Calls /\ call.drv \in Drives /\ drvtbl[call.drv] # None
        /\ call.recs \subseteq Runs
    BY <1>1 DEF CallReady, TypeOK, Calls
  <1>3. CallReady'
    BY <1>1, <1>2, GoesOn
  <1>4. pc' \in Labels
    BY <1>1 DEF Labels
  <1>5. QED
    BY <1>1, <1>2, <1>3, <1>4, ControlKeeps

(* A dirty buffer is going to be flushed, in usrio() or at a close.        *)
LEMMA FlushKeeps ==
  ASSUME IInv, NEW b \in Buffers, Valid(b), bufl[b].b_dirty,
         NEW then \in {"usrio", "close"}, pc = then, Flush(b, then)
  PROVE  IInv'
  <1> USE DEF IInv
  <1>1. /\ pc' = "flush" /\ call' = [call EXCEPT !.victim = b, !.then = then]
        /\ UNCHANGED <<disk, copy, med, media, drvtbl, bufl, place, clock>>
    BY DEF Flush, Goto
  <1>2. call' \in Calls /\ pc' \in Labels
    BY <1>1 DEF TypeOK, Calls, Labels
  <1>3. call'.victim = b /\ call'.then = then /\ call'.recs = call.recs
        /\ call'.drv = call.drv
    BY <1>1 DEF TypeOK
  <1>4. call.drv \in Drives /\ drvtbl[call.drv] # None /\ call.recs \subseteq Runs
    BY DEF CallReady
  <1>5. CallReady'
    BY <1>1, <1>3, <1>4 DEF CallReady, Filling, Valid
  <1>6. QED
    BY <1>1, <1>2, <1>5, ControlKeeps

LEMMA ixcloseFlushKeeps ==
  ASSUME IInv, ixclose_flush
  PROVE  IInv'
  BY FlushKeeps DEF ixclose_flush, ToFlush

LEMMA usrioBufferKeeps ==
  ASSUME IInv, usrio_buffer
  PROVE  IInv'
  <1> USE DEF IInv
  <1>1. pc = "usrio"
    BY DEF usrio_buffer
  <1>2. PICK b \in Buffers :
          /\ Overlaps(b)
          /\ IF bufl[b].b_dirty THEN Flush(b, "usrio")
             ELSE /\ bufl' = [bufl EXCEPT ![b] = Empty]
                  /\ UNCHANGED <<disk, copy, med, media, drvtbl, place, call, pc, clock>>
    BY DEF usrio_buffer
  <1>3. call.drv \in Drives /\ bufl[b].b_bufdrv = call.drv
    BY <1>1, <1>2 DEF CallReady, Overlaps
  <1>4. Valid(b)
    BY <1>3, NoneApart DEF Valid
  <1>5. CASE bufl[b].b_dirty
    BY <1>1, <1>2, <1>4, <1>5, FlushKeeps
  <1>6. CASE ~bufl[b].b_dirty
    <2>1. /\ bufl' = [bufl EXCEPT ![b] = Empty]
          /\ UNCHANGED <<disk, copy, med, media, drvtbl, place, call, pc, clock>>
      BY <1>2, <1>6
    <2>2. bufl' \in [Buffers -> BCB]
      BY <2>1, EmptyType DEF TypeOK
    <2>3. TypeOK'
      BY <2>1, <2>2 DEF TypeOK
    <2>4. \A x \in Buffers : Valid(x)' => x # b /\ bufl'[x] = bufl[x] /\ Valid(x)
      BY <2>1 DEF Valid, Empty, TypeOK
    <2>5. Coherent'
      BY <2>1, <2>4 DEF Coherent
    <2>6. LoggedIn'
      BY <2>1, StillLoggedIn
    <2>7. CallReady'
      BY <1>1, <2>1 DEF CallReady, Filling
    <2>8. QED
      BY <2>3, <2>5, <2>6, <2>7
  <1>7. QED
    BY <1>5, <1>6

LEMMA OutsideKeeps ==
  ASSUME IInv, Outside
  PROVE  IInv'
  <1> USE DEF IInv
  <1>1. PICK d \in Drives :
          \/ \E m \in Media : Swap(d, m)
          \/ \E status \in {1, 2} : Suspect(d, status)
    BY DEF Outside
  <1>2. CASE \E m \in Media : Swap(d, m)
    <2>1. PICK m \in Media : Swap(d, m)
      BY <1>2
    <2>2. TypeOK'
      BY <2>1 DEF Swap, TypeOK
    <2>3. Coherent'
      BY <2>1, StillCoherent DEF Swap
    <2>4. LoggedIn'
      BY <2>1 DEF Swap, LoggedIn, TypeOK
    <2>5. CallReady'
      BY <2>1 DEF Swap, CallReady, Filling, Valid, Holds
    <2>6. QED
      BY <2>2, <2>3, <2>4, <2>5
  <1>3. CASE \E status \in {1, 2} : Suspect(d, status)
    <2>1. PICK status \in {1, 2} : Suspect(d, status)
      BY <1>3
    <2>2. TypeOK'
      BY <2>1 DEF Suspect, TypeOK
    <2>3. Coherent'
      BY <2>1, StillCoherent DEF Suspect
    <2>4. LoggedIn'
      BY <2>1 DEF Suspect, LoggedIn, TypeOK
    <2>5. CallReady'
      BY <2>1 DEF Suspect, CallReady, Filling, Valid, Holds
    <2>6. QED
      BY <2>2, <2>3, <2>4, <2>5
  <1>4. QED
    BY <1>1, <1>2, <1>3

-----------------------------------------------------------------------------
(* The steps that write to a medium.                                       *)

(* A medium in a drive belongs to no other drive.                          *)
LEMMA OneDrive ==
  ASSUME IInv, NEW d \in Drives, NEW b \in Buffers, Valid(b),
         bufl[b].b_dm = med[d]
  PROVE  bufl[b].b_bufdrv = d
  <1> USE DEF IInv
  <1>1. /\ bufl[b].b_bufdrv \in Drives
        /\ bufl[b].b_dm = drvtbl[bufl[b].b_bufdrv]
        /\ bufl[b].b_dm # None
    BY DEF Coherent, Valid, TypeOK, BCB
  <1>2. drvtbl[bufl[b].b_bufdrv] # None
    BY <1>1
  <1>3. DriveOf[drvtbl[bufl[b].b_bufdrv]] = bufl[b].b_bufdrv
    BY <1>1, <1>2 DEF LoggedIn
  <1>4. DriveOf[med[d]] = d
    BY DEF TypeOK
  <1>5. QED
    BY <1>1, <1>3, <1>4

(* The drive of a valid buffer that its drive has no change of.            *)
LEMMA InDrive ==
  ASSUME IInv, NEW b \in Buffers, Valid(b), media[bufl[b].b_bufdrv] = 0
  PROVE  /\ bufl[b].b_bufdrv \in Drives
         /\ bufl[b].b_dm = med[bufl[b].b_bufdrv]
         /\ bufl[b].b_dm \in Media
  <1> USE DEF IInv
  <1>1. /\ bufl[b].b_bufdrv \in Drives
        /\ bufl[b].b_dm = drvtbl[bufl[b].b_bufdrv]
        /\ bufl[b].b_dm # None
    BY DEF Coherent, Valid, TypeOK, BCB
  <1>2. drvtbl[bufl[b].b_bufdrv] = med[bufl[b].b_bufdrv]
    BY <1>1 DEF LoggedIn
  <1>3. QED
    BY <1>1, <1>2 DEF TypeOK

(* The buffer b is written to its medium, and is dirty or clean then.      *)
LEMMA StoredCoherent ==
  ASSUME IInv, NEW b \in Buffers, Valid(b), NEW dirty \in BOOLEAN,
         media[bufl[b].b_bufdrv] = 0,
         disk' = Written(disk, bufl[b].b_bufdrv, bufl[b].b_rec, bufl[b].b_bufr),
         bufl' = [bufl EXCEPT ![b].b_dirty = dirty],
         UNCHANGED <<drvtbl, place>>
  PROVE  /\ Coherent'
         /\ bufl[b].b_bufr = disk'[bufl[b].b_dm][bufl[b].b_rec]
  <1> USE DEF IInv
  <1>1. /\ bufl[b].b_bufdrv \in Drives
        /\ bufl[b].b_dm = med[bufl[b].b_bufdrv]
        /\ bufl[b].b_dm \in Media
    BY InDrive
  <1>2. disk' = [disk EXCEPT ![bufl[b].b_dm][bufl[b].b_rec] = bufl[b].b_bufr]
    BY <1>1 DEF Written
  <1>3. bufl[b].b_rec \in Records
    BY DEF TypeOK, BCB
  <1>4. disk'[bufl[b].b_dm][bufl[b].b_rec] = bufl[b].b_bufr
    BY <1>1, <1>2, <1>3 DEF TypeOK
  <1>5. \A x \in Buffers :
          /\ bufl'[x].b_bufdrv = bufl[x].b_bufdrv
          /\ bufl'[x].b_rec = bufl[x].b_rec
          /\ bufl'[x].b_dm = bufl[x].b_dm
          /\ bufl'[x].b_bufr = bufl[x].b_bufr
          /\ x # b => bufl'[x].b_dirty = bufl[x].b_dirty
    BY DEF TypeOK, BCB
  <1>6. \A x \in Buffers : Valid(x)' <=> Valid(x)
    BY <1>5 DEF Valid
  <1>7. ASSUME NEW x \in Buffers, x # b, Valid(x)
        PROVE  disk'[bufl[x].b_dm][bufl[x].b_rec] = disk[bufl[x].b_dm][bufl[x].b_rec]
    <2>1. ~(bufl[x].b_dm = bufl[b].b_dm /\ bufl[x].b_rec = bufl[b].b_rec)
      <3>1. SUFFICES ASSUME bufl[x].b_dm = bufl[b].b_dm, bufl[x].b_rec = bufl[b].b_rec
                     PROVE  FALSE
        OBVIOUS
      <3>2. bufl[x].b_bufdrv = bufl[b].b_bufdrv
        BY <1>1, <1>7, <3>1, OneDrive
      <3>3. QED
        BY <1>7, <3>1, <3>2 DEF Coherent
    <2>2. bufl[x].b_dm \in Media /\ bufl[x].b_rec \in Records
      BY <1>7 DEF Coherent, TypeOK, BCB
    <2>3. disk \in [Media -> [Records -> Nat]]
      BY DEF TypeOK
    <2>4. QED
      BY <1>1, <1>2, <1>3, <2>1, <2>2, <2>3
  <1>8. ASSUME NEW x \in Buffers, Valid(x)'
        PROVE  /\ bufl'[x].b_dm # None
               /\ bufl'[x].b_dm = drvtbl'[bufl'[x].b_bufdrv]
               /\ ListOf[x] = ListFor(bufl'[x].b_rec)
               /\ ~bufl'[x].b_dirty => bufl'[x].b_bufr = disk'[bufl'[x].b_dm][bufl'[x].b_rec]
    <2>1. Valid(x)
      BY <1>6, <1>8
    <2>2. /\ bufl'[x].b_dm # None
          /\ bufl'[x].b_dm = drvtbl'[bufl'[x].b_bufdrv]
          /\ ListOf[x] = ListFor(bufl'[x].b_rec)
      BY <1>5, <2>1 DEF Coherent
    <2>3. CASE x = b
      BY <1>4, <1>5, <2>2, <2>3
    <2>4. CASE x # b
      BY <1>5, <1>7, <2>1, <2>2, <2>4 DEF Coherent
    <2>5. QED
      BY <2>3, <2>4
  <1>9. Coherent'
    BY <1>5, <1>6, <1>8 DEF Coherent
  <1>10. QED
    BY <1>4, <1>9

(* After a flush the call goes on where it wanted to.                      *)
LEMMA FlushedReady ==
  ASSUME IInv, pc \in {"flush", "copy"}, pc' = call.then,
         UNCHANGED <<call, drvtbl>>,
         bufl' = [bufl EXCEPT ![call.victim].b_dirty = FALSE]
  PROVE  CallReady' /\ pc' \in Labels
  <1> USE DEF IInv
  <1>1. /\ call.drv \in Drives /\ drvtbl[call.drv] # None
        /\ call.victim \in Buffers /\ call.then \in {"fill", "usrio", "close"}
        /\ call.recs \subseteq Runs
    BY DEF CallReady
  <1>2. \A x \in Buffers :
          /\ bufl'[x].b_bufdrv = bufl[x].b_bufdrv
          /\ bufl'[x].b_rec = bufl[x].b_rec
          /\ x = call.victim => ~bufl'[x].b_dirty
    BY DEF TypeOK, BCB
  <1>3. pc' \in {"fill", "usrio", "close"} /\ pc' \in Labels
    BY <1>1 DEF Labels
  <1>4. call.then = "fill" =>
          /\ ListOf[call.victim] = ListFor(call.rec)
          /\ \A x \in Buffers \ {call.victim} : ~Holds(x, call.drv, call.rec)
    BY DEF CallReady, Filling
  <1>5. \A x \in Buffers : Holds(x, call.drv, call.rec)' => Holds(x, call.drv, call.rec)
    BY <1>2 DEF Holds, Valid
  <1>6. QED
    BY <1>1, <1>2, <1>3, <1>4, <1>5 DEF CallReady, Filling

LEMMA flushKeeps ==
  ASSUME IInv, flush
  PROVE  IInv'
  <1> USE DEF IInv
  <1> DEFINE b == call.victim
             d == bufl[call.victim].b_bufdrv
  <1>1. pc = "flush" /\ b \in Buffers /\ Valid(b) /\ bufl[b].b_dirty
    BY DEF flush, CallReady
  <1>2. d \in Drives
    BY <1>1 DEF Valid, TypeOK, BCB
  <1>3. CASE RwabsFails(d, bufl)
    <2>1. Lost(bufl) /\ bufl \in [Buffers -> BCB]
      BY DEF Lost, TypeOK
    <2>2. QED
      BY <1>1, <1>2, <1>3, <2>1, RwabsFailsKeeps
  <1>4. CASE ~RwabsFails(d, bufl)
    <2>1. /\ media[d] = 0
          /\ disk' = Written(disk, d, bufl[b].b_rec, bufl[b].b_bufr)
          /\ UNCHANGED <<copy, med, media, drvtbl, place, call, clock>>
      BY <1>4 DEF flush
    <2>2. \/ pc' = "copy" /\ UNCHANGED bufl
          \/ pc' = call.then /\ bufl' = [bufl EXCEPT ![b].b_dirty = FALSE]
      BY <1>4 DEF flush
    <2>3. disk' \in [Media -> [Records -> Nat]]
      BY <1>1, <1>2, <2>1, WrittenType DEF TypeOK, BCB
    <2>4. LoggedIn'
      BY <2>1, StillLoggedIn
    <2>5. CASE pc' = "copy" /\ UNCHANGED bufl
      <3>1. bufl' = [bufl EXCEPT ![b].b_dirty = TRUE]
        BY <1>1, <2>5 DEF TypeOK, BCB
      <3>2. Coherent' /\ bufl[b].b_bufr = disk'[bufl[b].b_dm][bufl[b].b_rec]
        BY <1>1, <2>1, <3>1, StoredCoherent
      <3>3. CallReady'
        BY <1>1, <2>1, <2>5, <3>2 DEF CallReady, Filling, Valid, Holds
      <3>4. TypeOK'
        BY <2>1, <2>3, <2>5 DEF TypeOK, Labels
      <3>5. QED
        BY <2>4, <3>2, <3>3, <3>4
    <2>6. CASE pc' = call.then /\ bufl' = [bufl EXCEPT ![b].b_dirty = FALSE]
      <3>1. Coherent'
        BY <1>1, <2>1, <2>6, StoredCoherent
      <3>2. CallReady' /\ pc' \in Labels
        BY <1>1, <2>1, <2>6, FlushedReady
      <3>3. bufl' \in [Buffers -> BCB]
        BY <1>1, <2>6, CleanType
      <3>4. TypeOK'
        BY <2>1, <2>3, <3>2, <3>3 DEF TypeOK
      <3>5. QED
        BY <2>4, <3>1, <3>2, <3>4
    <2>7. QED
      BY <2>2, <2>5, <2>6
  <1>5. QED
    BY <1>3, <1>4

LEMMA flushCopyKeeps ==
  ASSUME IInv, flush_copy
  PROVE  IInv'
  <1> USE DEF IInv
  <1> DEFINE b == call.victim
             d == bufl[call.victim].b_bufdrv
  <1>1. /\ pc = "copy" /\ b \in Buffers /\ Valid(b) /\ bufl[b].b_dirty
        /\ bufl[b].b_bufr = disk[bufl[b].b_dm][bufl[b].b_rec]
    BY DEF flush_copy, CallReady
  <1>2. d \in Drives
    BY <1>1 DEF Valid, TypeOK, BCB
  <1>3. CASE RwabsFails(d, bufl)
    <2>1. Lost(bufl) /\ bufl \in [Buffers -> BCB]
      BY DEF Lost, TypeOK
    <2>2. QED
      BY <1>1, <1>2, <1>3, <2>1, RwabsFailsKeeps
  <1>4. CASE ~RwabsFails(d, bufl)
    <2>1. /\ copy' = Written(copy, d, bufl[b].b_rec, bufl[b].b_bufr)
          /\ bufl' = [bufl EXCEPT ![b].b_dirty = FALSE]
          /\ pc' = call.then
          /\ UNCHANGED <<disk, med, media, drvtbl, place, call, clock>>
      BY <1>4 DEF flush_copy
    <2>2. copy' \in [Media -> [Records -> Nat]]
      BY <1>1, <1>2, <2>1, WrittenType DEF TypeOK, BCB
    <2>3. LoggedIn'
      BY <2>1, StillLoggedIn
    <2>4. \A x \in Buffers :
            /\ bufl'[x].b_bufdrv = bufl[x].b_bufdrv
            /\ bufl'[x].b_rec = bufl[x].b_rec
            /\ bufl'[x].b_dm = bufl[x].b_dm
            /\ bufl'[x].b_bufr = bufl[x].b_bufr
            /\ x # b => bufl'[x].b_dirty = bufl[x].b_dirty
      <3>1. bufl \in [Buffers -> BCB] /\ b \in Buffers
        BY <1>1 DEF TypeOK
      <3> HIDE DEF b, IInv
      <3>2. bufl' = [bufl EXCEPT ![b] = [bufl[b] EXCEPT !.b_dirty = FALSE]]
        BY <2>1, <3>1
      <3>3. ASSUME NEW x \in Buffers, x # b PROVE bufl'[x] = bufl[x]
        BY <3>1, <3>2, <3>3
      <3>4. bufl'[b] = [bufl[b] EXCEPT !.b_dirty = FALSE] /\ bufl[b] \in BCB
        BY <3>1, <3>2
      <3>5. /\ bufl'[b].b_bufdrv = bufl[b].b_bufdrv /\ bufl'[b].b_rec = bufl[b].b_rec
            /\ bufl'[b].b_dm = bufl[b].b_dm /\ bufl'[b].b_bufr = bufl[b].b_bufr
        BY <3>4 DEF BCB
      <3>6. QED
        BY <3>3, <3>5
    <2>5. Coherent'
      <3>1. \A x \in Buffers : Valid(x)' <=> Valid(x)
        BY <2>4 DEF Valid
      <3>2. ASSUME NEW x \in Buffers, Valid(x)
            PROVE  /\ bufl[x].b_dm # None
                   /\ bufl[x].b_dm = drvtbl[bufl[x].b_bufdrv]
                   /\ ListOf[x] = ListFor(bufl[x].b_rec)
                   /\ ~bufl'[x].b_dirty => bufl[x].b_bufr = disk[bufl[x].b_dm][bufl[x].b_rec]
        <4>1. CASE x = b
          BY <1>1, <3>2, <4>1 DEF Coherent
        <4>2. CASE x # b
          BY <2>4, <3>2, <4>2 DEF Coherent
        <4>3. QED
          BY <4>1, <4>2
      <3>3. QED
        BY <2>1, <2>4, <3>1, <3>2 DEF Coherent
    <2>6. CallReady' /\ pc' \in Labels
      BY <1>1, <2>1, FlushedReady
    <2>7. bufl' \in [Buffers -> BCB]
      BY <1>1, <2>1, CleanType
    <2>8. TypeOK'
      BY <2>1, <2>2, <2>6, <2>7 DEF TypeOK
    <2>9. QED
      BY <2>3, <2>5, <2>6, <2>8
  <1>5. QED
    BY <1>3, <1>4

-----------------------------------------------------------------------------
(* The steps that fill buffers and write into them.                        *)

LEMMA ToHeadApart ==
  ASSUME IInv, NEW b \in Buffers, place' = ToHead(b)
  PROVE  \A x, y \in Buffers :
           ListOf[x] = ListOf[y] /\ place'[x] = place'[y] => x = y
  <1> USE DEF IInv
  <1>1. place \in [Buffers -> Nat \ {0}]
    BY DEF TypeOK
  <1>2. \A x, y \in Buffers : ListOf[x] = ListOf[y] /\ place[x] = place[y] => x = y
    BY DEF Coherent
  <1>3. \A x \in Buffers : place[x] \in Nat /\ place[x] >= 1
    BY <1>1
  <1>4. \A x \in Buffers :
          place'[x] = IF x = b THEN 1
                      ELSE IF ListOf[x] = ListOf[b] /\ place[x] < place[b]
                           THEN place[x] + 1
                      ELSE place[x]
    BY DEF ToHead
  <1> SUFFICES ASSUME NEW x \in Buffers, NEW y \in Buffers,
                      ListOf[x] = ListOf[y], place'[x] = place'[y], x # y
               PROVE  FALSE
    OBVIOUS
  <1>5. place[x] # place[y]
    BY <1>2
  <1>6. x # b => place[x] # place[b] \/ ListOf[x] # ListOf[b]
    BY <1>2
  <1>7. y # b => place[y] # place[b] \/ ListOf[y] # ListOf[b]
    BY <1>2
  <1>8. QED
    BY <1>3, <1>4, <1>5, <1>6, <1>7

(* Buffer b holds a record of the drive of the call then, and no other     *)
(* buffer holds the same.                                                  *)
LEMMA PutCoherent ==
  ASSUME IInv, NEW b \in Buffers, place' = ToHead(b), UNCHANGED <<disk, drvtbl>>,
         NEW bcb \in BCB, bufl' = [bufl EXCEPT ![b] = bcb],
         bcb.b_dm # None, bcb.b_dm = drvtbl[bcb.b_bufdrv],
         ListOf[b] = ListFor(bcb.b_rec),
         ~bcb.b_dirty => bcb.b_bufr = disk[bcb.b_dm][bcb.b_rec],
         \A x \in Buffers \ {b} : ~Holds(x, bcb.b_bufdrv, bcb.b_rec)
  PROVE  Coherent'
  <1> USE DEF IInv
  <1>1. \A x \in Buffers : bufl'[x] = IF x = b THEN bcb ELSE bufl[x]
    BY DEF TypeOK
  <1>2. \A x \in Buffers \ {b} : Valid(x)' <=> Valid(x)
    BY <1>1 DEF Valid
  <1>3. ASSUME NEW x \in Buffers, Valid(x)'
        PROVE  /\ bufl'[x].b_dm # None
               /\ bufl'[x].b_dm = drvtbl[bufl'[x].b_bufdrv]
               /\ ListOf[x] = ListFor(bufl'[x].b_rec)
               /\ ~bufl'[x].b_dirty => bufl'[x].b_bufr = disk[bufl'[x].b_dm][bufl'[x].b_rec]
    <2>1. CASE x = b
      BY <1>1, <2>1
    <2>2. CASE x # b
      BY <1>1, <1>2, <1>3, <2>2 DEF Coherent
    <2>3. QED
      BY <2>1, <2>2
  <1>4. ASSUME NEW x \in Buffers, NEW y \in Buffers, x # y, Valid(x)', Valid(y)',
               bufl'[x].b_bufdrv = bufl'[y].b_bufdrv, bufl'[x].b_rec = bufl'[y].b_rec
        PROVE  FALSE
    <2>1. CASE x # b /\ y # b
      BY <1>1, <1>2, <1>4, <2>1 DEF Coherent
    <2>2. CASE x = b
      BY <1>1, <1>2, <1>4, <2>2 DEF Holds
    <2>3. CASE y = b
      BY <1>1, <1>2, <1>4, <2>3 DEF Holds
    <2>4. QED
      BY <2>1, <2>2, <2>3
  <1>5. \A x, y \in Buffers :
          ListOf[x] = ListOf[y] /\ place'[x] = place'[y] => x = y
    BY ToHeadApart
  <1>6. QED
    BY <1>3, <1>4, <1>5 DEF Coherent

LEMMA ChangeFields ==
  ASSUME NEW bcb \in BCB, NEW write \in BOOLEAN
  PROVE  /\ Change(bcb, write).b_bufdrv = bcb.b_bufdrv
         /\ Change(bcb, write).b_rec = bcb.b_rec
         /\ Change(bcb, write).b_dm = bcb.b_dm
         /\ Change(bcb, write).b_dirty <=> (write \/ bcb.b_dirty)
         /\ ~Change(bcb, write).b_dirty => Change(bcb, write) = bcb
         /\ Change(bcb, write).b_bufr = IF write THEN clock + 1 ELSE bcb.b_bufr
  <1>1. CASE write
    <2>1. Change(bcb, write) = [bcb EXCEPT !.b_dirty = TRUE, !.b_bufr = clock + 1]
      BY <1>1 DEF Change
    <2>2. QED
      BY <1>1, <2>1 DEF BCB
  <1>2. CASE ~write
    <2>1. Change(bcb, write) = bcb
      BY <1>2 DEF Change
    <2>2. bcb.b_dirty \in BOOLEAN
      BY DEF BCB
    <2>3. QED
      BY <1>2, <2>1, <2>2
  <1>3. QED
    BY <1>1, <1>2

LEMMA HitKeeps ==
  ASSUME IInv, pc = "busy", NEW b \in Buffers, NEW write \in BOOLEAN,
         Valid(b), Hit(b, write)
  PROVE  IInv'
  <1> USE DEF IInv
  <1> DEFINE bcb == Change(bufl[b], write)
  <1>1. /\ bufl' = [bufl EXCEPT ![b] = bcb]
        /\ place' = ToHead(b)
        /\ Tick(write)
        /\ UNCHANGED <<disk, copy, med, media, drvtbl, call, pc>>
    BY DEF Hit
  <1>2. bufl[b] \in BCB /\ clock \in Nat
    BY DEF TypeOK
  <1>3. bcb \in BCB /\ clock' \in Nat
    BY <1>1, <1>2, ChangeType, TickType
  <1>4. /\ bcb.b_bufdrv = bufl[b].b_bufdrv /\ bcb.b_rec = bufl[b].b_rec
        /\ bcb.b_dm = bufl[b].b_dm
        /\ ~bcb.b_dirty => ~bufl[b].b_dirty /\ bcb.b_bufr = bufl[b].b_bufr
    BY <1>2, ChangeFields
  <1>5. \A x \in Buffers \ {b} : ~Holds(x, bcb.b_bufdrv, bcb.b_rec)
    BY <1>4 DEF Coherent, Holds
  <1>6. /\ bcb.b_dm # None /\ bcb.b_dm = drvtbl[bcb.b_bufdrv]
        /\ ListOf[b] = ListFor(bcb.b_rec)
        /\ ~bcb.b_dirty => bcb.b_bufr = disk[bcb.b_dm][bcb.b_rec]
    BY <1>4 DEF Coherent
  <1>7. Coherent'
    <2> HIDE DEF bcb
    <2>1. QED
      BY <1>1, <1>3, <1>5, <1>6, PutCoherent
  <1>8. bufl' \in [Buffers -> BCB] /\ place' \in [Buffers -> Nat \ {0}]
    BY <1>1, <1>3, ToHeadType DEF TypeOK
  <1>9. TypeOK'
    BY <1>1, <1>3, <1>8 DEF TypeOK
  <1>10. LoggedIn'
    BY <1>1, StillLoggedIn
  <1>11. CallReady'
    BY <1>1 DEF CallReady, Filling
  <1>12. QED
    BY <1>7, <1>9, <1>10, <1>11

(* Nobody else holds what b is going to be filled with.                    *)
LEMMA ReplaceKeeps ==
  ASSUME IInv, pc = "busy", NEW b \in Buffers, NEW r \in Records, NEW write \in BOOLEAN,
         ListOf[b] = ListFor(r),
         \A x \in Buffers \ {b} : ~Holds(x, call.drv, r),
         Replace(b, r, write)
  PROVE  IInv'
  <1> USE DEF IInv
  <1>1. /\ pc' = IF Valid(b) /\ bufl[b].b_dirty THEN "flush" ELSE "fill"
        /\ call' = [call EXCEPT !.rec = r, !.write = write, !.victim = b, !.then = "fill"]
        /\ UNCHANGED <<disk, copy, med, media, drvtbl, bufl, place, clock>>
    BY DEF Replace, Goto
  <1>2. call' \in Calls /\ pc' \in Labels
    BY <1>1 DEF TypeOK, Calls, Labels
  <1>3. /\ call'.rec = r /\ call'.victim = b /\ call'.then = "fill"
        /\ call'.drv = call.drv /\ call'.recs = call.recs
    BY <1>1 DEF TypeOK
  <1>4. call.drv \in Drives /\ drvtbl[call.drv] # None /\ call.recs \subseteq Runs
    BY DEF CallReady
  <1>5. CallReady'
    <2>1. \A x \in Buffers : Valid(x)' <=> Valid(x)
      BY <1>1 DEF Valid
    <2>2. \A x \in Buffers \ {b} : ~Holds(x, call.drv, r)'
      BY <1>1 DEF Holds, Valid
    <2>3. pc' \in {"flush", "fill"}
      BY <1>1
    <2>4. pc' = "flush" => Valid(b)' /\ bufl'[b].b_dirty
      BY <1>1, <2>1
    <2>5. pc' = "fill" => ~(Valid(b)' /\ bufl'[b].b_dirty)
      BY <1>1, <2>1
    <2>6. QED
      BY <1>1, <1>3, <1>4, <2>2, <2>3, <2>4, <2>5 DEF CallReady, Filling, Holds
  <1>6. QED
    BY <1>1, <1>2, <1>5, ControlKeeps

LEMMA getrecKeeps ==
  ASSUME IInv, NEW r \in Records, NEW write \in BOOLEAN, getrec(r, write)
  PROVE  IInv'
  <1> USE DEF IInv
  <1> DEFINE d == call.drv
  <1>1. pc = "busy" /\ d \in Drives
    BY DEF getrec, CallReady
  <1>2. CASE \E b \in On(ListFor(r)) :
               /\ Holds(b, d, r)
               /\ \/ media[d] = 0 /\ Hit(b, write)
                  \/ media[d] = 1 /\ Replace(b, r, write)
                  \/ media[d] = 2 /\ MediaChange(d, bufl)
    <2>1. PICK b \in On(ListFor(r)) :
               /\ Holds(b, d, r)
               /\ \/ media[d] = 0 /\ Hit(b, write)
                  \/ media[d] = 1 /\ Replace(b, r, write)
                  \/ media[d] = 2 /\ MediaChange(d, bufl)
      BY <1>2
    <2>2. b \in Buffers /\ ListOf[b] = ListFor(r) /\ Valid(b)
      BY <2>1 DEF On, Holds
    <2>3. \A x \in Buffers \ {b} : ~Holds(x, d, r)
      BY <2>1, <2>2 DEF Holds, Coherent
    <2>4. CASE Hit(b, write)
      BY <1>1, <2>2, <2>4, HitKeeps
    <2>5. CASE Replace(b, r, write)
      BY <1>1, <2>2, <2>3, <2>5, ReplaceKeeps
    <2>6. CASE MediaChange(d, bufl)
      <3>1. Lost(bufl) /\ bufl \in [Buffers -> BCB]
        BY DEF Lost, TypeOK
      <3>2. QED
        BY <1>1, <2>6, <3>1, MediaChangeKeeps
    <2>7. QED
      BY <2>1, <2>4, <2>5, <2>6
  <1>3. CASE /\ \A b \in On(ListFor(r)) : ~Holds(b, d, r)
             /\ \E b \in Candidates(ListFor(r)) : Replace(b, r, write)
    <2>1. PICK b \in Candidates(ListFor(r)) : Replace(b, r, write)
      BY <1>3
    <2>2. b \in Buffers /\ ListOf[b] = ListFor(r)
      BY <2>1 DEF Candidates, On
    <2>3. \A x \in Buffers : ~Holds(x, d, r)
      BY <1>3 DEF Holds, Coherent, On
    <2>4. QED
      BY <1>1, <2>1, <2>2, <2>3, ReplaceKeeps
  <1>4. QED
    BY <1>2, <1>3 DEF getrec

LEMMA fillKeeps ==
  ASSUME IInv, fill
  PROVE  IInv'
  <1> USE DEF IInv
  <1> DEFINE b == call.victim
             d == call.drv
             bcb == Change(Filled, call.write)
  <1>1. /\ pc = "fill" /\ d \in Drives /\ b \in Buffers /\ drvtbl[d] # None
        /\ ListOf[b] = ListFor(call.rec)
        /\ \A x \in Buffers \ {b} : ~Holds(x, d, call.rec)
        /\ call.recs \subseteq Runs
    BY DEF fill, CallReady, Filling
  <1>2. CASE RwabsFails(d, [bufl EXCEPT ![b] = Empty])
    <2>1. [bufl EXCEPT ![b] = Empty] \in [Buffers -> BCB]
      BY EmptyType DEF TypeOK
    <2>2. Lost([bufl EXCEPT ![b] = Empty])
      BY DEF Lost, TypeOK
    <2>3. QED
      BY <1>1, <1>2, <2>1, <2>2, RwabsFailsKeeps
  <1>3. CASE ~RwabsFails(d, [bufl EXCEPT ![b] = Empty])
    <2>1. /\ media[d] = 0
          /\ bufl' = [bufl EXCEPT ![b] = bcb]
          /\ place' = ToHead(b)
          /\ Tick(call.write)
          /\ pc' = "busy"
          /\ call' = [NoCall EXCEPT !.drv = d, !.handle = call.handle]
          /\ UNCHANGED <<disk, copy, med, media, drvtbl>>
      BY <1>3 DEF fill, Goto
    <2>2. Filled \in BCB /\ clock \in Nat /\ call.write \in BOOLEAN /\ call \in Calls
      BY <1>1, FilledType DEF TypeOK, Calls
    <2>3. bcb \in BCB /\ clock' \in Nat
      BY <2>1, <2>2, ChangeType, TickType
    <2>4. /\ Filled.b_bufdrv = d /\ Filled.b_rec = call.rec /\ Filled.b_dm = drvtbl[d]
          /\ Filled.b_bufr = disk[med[d]][call.rec]
      BY DEF Filled
    <2>5. drvtbl[d] = med[d]
      BY <1>1, <2>1 DEF LoggedIn
    <2>6. /\ bcb.b_bufdrv = d /\ bcb.b_rec = call.rec /\ bcb.b_dm = drvtbl[d]
          /\ ~bcb.b_dirty => bcb.b_bufr = disk[drvtbl[d]][call.rec]
      BY <2>2, <2>4, <2>5, ChangeFields
    <2>7. Coherent'
      <3> HIDE DEF bcb
      <3>1. /\ bcb.b_dm # None /\ bcb.b_dm = drvtbl[bcb.b_bufdrv]
            /\ ListOf[b] = ListFor(bcb.b_rec)
            /\ ~bcb.b_dirty => bcb.b_bufr = disk[bcb.b_dm][bcb.b_rec]
            /\ \A x \in Buffers \ {b} : ~Holds(x, bcb.b_bufdrv, bcb.b_rec)
        BY <1>1, <2>6
      <3>2. QED
        BY <1>1, <2>1, <2>3, <3>1, PutCoherent
    <2>8. bufl' \in [Buffers -> BCB] /\ place' \in [Buffers -> Nat \ {0}]
      BY <1>1, <2>1, <2>3, ToHeadType DEF TypeOK
    <2>9. call' \in Calls /\ call'.drv = d /\ call'.recs = {}
      BY <2>1, <2>2, NoCallType DEF NoCall
    <2>10. CallReady'
      BY <1>1, <2>1, <2>9, GoesOn
    <2>11. TypeOK'
      BY <2>1, <2>3, <2>8, <2>9 DEF TypeOK, Calls, Labels
    <2>12. LoggedIn'
      BY <2>1, StillLoggedIn
    <2>13. QED
      BY <2>7, <2>10, <2>11, <2>12
  <1>4. QED
    BY <1>2, <1>3

LEMMA usrioKeeps ==
  ASSUME IInv, usrio
  PROVE  IInv'
  <1> USE DEF IInv
  <1> DEFINE d == call.drv
  <1>1. /\ pc = "usrio" /\ d \in Drives /\ drvtbl[d] # None
        /\ call.recs \subseteq Runs
        /\ \A b \in Buffers : ~Overlaps(b)
    BY DEF usrio, CallReady
  <1>2. CASE RwabsFails(d, bufl)
    <2>1. Lost(bufl) /\ bufl \in [Buffers -> BCB]
      BY DEF Lost, TypeOK
    <2>2. QED
      BY <1>1, <1>2, <2>1, RwabsFailsKeeps
  <1>3. CASE ~RwabsFails(d, bufl)
    <2>1. /\ media[d] = 0
          /\ disk' = IF call.write THEN Transferred ELSE disk
          /\ Tick(call.write)
          /\ pc' = "busy"
          /\ call' = [NoCall EXCEPT !.drv = d, !.handle = call.handle]
          /\ UNCHANGED <<copy, med, media, drvtbl, bufl, place>>
      BY <1>3 DEF usrio, Goto
    <2>2. disk \in [Media -> [Records -> Nat]] /\ med[d] \in Media
          /\ clock \in Nat /\ call.write \in BOOLEAN /\ call \in Calls
      BY <1>1 DEF TypeOK, Calls
    <2>3. disk' \in [Media -> [Records -> Nat]] /\ clock' \in Nat
      BY <1>1, <2>1, <2>2, TransferredType, TickType
    <2>4. \A m \in Media, r \in Records :
            ~(m = med[d] /\ r \in call.recs) => disk'[m][r] = disk[m][r]
      BY <2>1, <2>2 DEF Transferred
    <2>5. ASSUME NEW x \in Buffers, Valid(x)
          PROVE  disk'[bufl[x].b_dm][bufl[x].b_rec] = disk[bufl[x].b_dm][bufl[x].b_rec]
      <3>1. bufl[x].b_dm \in Media /\ bufl[x].b_rec \in Records
        BY <2>5 DEF Coherent, TypeOK, BCB
      <3>2. ~(bufl[x].b_dm = med[d] /\ bufl[x].b_rec \in call.recs)
        <4>1. SUFFICES ASSUME bufl[x].b_dm = med[d], bufl[x].b_rec \in call.recs
                       PROVE  FALSE
          OBVIOUS
        <4>2. bufl[x].b_bufdrv = d
          BY <1>1, <2>5, <4>1, OneDrive
        <4>3. bufl[x].b_rec.b_buftyp = BT_DATA
          BY <1>1, <4>1 DEF Runs
        <4>4. ListOf[x] = BI_DATA
          BY <2>5, <4>3 DEF Coherent, ListFor, BT_FAT, BT_DATA
        <4>5. QED
          BY <1>1, <4>1, <4>2, <4>4 DEF Overlaps
      <3>3. QED
        BY <2>4, <3>1, <3>2
    <2>6. Coherent'
      BY <2>1, <2>5 DEF Coherent, Valid
    <2>7. call' \in Calls /\ call'.drv = d /\ call'.recs = {}
      BY <2>1, <2>2, NoCallType DEF NoCall
    <2>8. CallReady'
      BY <1>1, <2>1, <2>7, GoesOn
    <2>9. TypeOK'
      BY <2>1, <2>3, <2>7 DEF TypeOK, Calls, Labels
    <2>10. LoggedIn'
      BY <2>1, StillLoggedIn
    <2>11. QED
      BY <2>6, <2>8, <2>9, <2>10
  <1>4. QED
    BY <1>2, <1>3

-----------------------------------------------------------------------------
(* The invariant.                                                          *)

LEMMA NextKeeps == IInv /\ [Next]_vars => IInv'
  <1> SUFFICES ASSUME IInv, [Next]_vars PROVE IInv'
    OBVIOUS
  <1>1. CASE UNCHANGED vars
    <2>1. TypeOK' /\ Coherent' /\ LoggedIn'
      BY <1>1 DEF IInv, vars, TypeOK, Coherent, LoggedIn, Valid
    <2>2. CallReady'
      BY <1>1 DEF IInv, vars, CallReady, Filling, Valid, Holds
    <2>3. QED
      BY <2>1, <2>2 DEF IInv
  <1>2. CASE Outside
    BY <1>2, OutsideKeeps
  <1>3. CASE Call
    <2>1. CASE \E d \in Drives, handle \in BOOLEAN : Begin(d, handle)
      BY <2>1, BeginKeeps
    <2>2. CASE ckdrv
      BY <2>2, ckdrvKeeps
    <2>3. CASE Done
      BY <2>3, ReturnKeeps DEF Done
    <2>4. CASE flush
      BY <2>4, flushKeeps
    <2>5. CASE flush_copy
      BY <2>5, flushCopyKeeps
    <2>6. CASE \E r \in Records, write \in BOOLEAN : getrec(r, write)
      BY <2>6, getrecKeeps
    <2>7. CASE fill
      BY <2>7, fillKeeps
    <2>8. CASE \E R \in SUBSET Runs, write \in BOOLEAN : Begin_usrio(R, write)
      BY <2>8, BeginUsrioKeeps
    <2>9. CASE usrio_buffer
      BY <2>9, usrioBufferKeeps
    <2>10. CASE usrio
      BY <2>10, usrioKeeps
    <2>11. CASE Begin_close
      BY <2>11, BeginCloseKeeps
    <2>12. CASE ixclose_flush
      BY <2>12, ixcloseFlushKeeps
    <2>13. CASE ixclose
      BY <2>13, ReturnKeeps DEF ixclose
    <2>14. QED
      BY <1>3, <2>1, <2>2, <2>3, <2>4, <2>5, <2>6, <2>7, <2>8, <2>9, <2>10,
         <2>11, <2>12, <2>13 DEF Call
  <1>4. QED
    BY <1>1, <1>2, <1>3 DEF Next

LEMMA InitInv == Init => IInv
  <1> SUFFICES ASSUME Init PROVE IInv
    OBVIOUS
  <1>1. TypeOK
    BY InitTypes
  <1>2. \A b \in Buffers : ~Valid(b)
    BY DEF Init, Valid, Empty
  <1>3. ASSUME NEW x \in Buffers, NEW y \in Buffers, ListOf[x] = ListOf[y],
               place[x] = place[y]
        PROVE  x = y
    <2> DEFINE S == On(ListOf[x])
               T == 1 .. Cardinality(S)
               f == [b \in S |-> place[b]]
    <2>1. x \in S /\ y \in S /\ ListOf[x] \in Lists
      BY <1>3, BufferAssumption DEF On
    <2>2. {place[b] : b \in S} = T
      BY <2>1 DEF Init
    <2>3. IsFiniteSet(S)
      BY BufferAssumption, FS_Subset DEF On
    <2>4. Cardinality(S) \in Nat
      BY <2>3, FS_CardinalityType
    <2>5. Cardinality(T) = Cardinality(S)
      BY <2>4, FS_Interval
    <2>6. f \in Surjection(S, T)
      BY <2>2 DEF Surjection
    <2>7. f \in Injection(S, T)
      BY <2>3, <2>5, <2>6, FS_Surjection
    <2>8. f[x] = f[y]
      BY <1>3, <2>1
    <2>9. QED
      BY <2>1, <2>7, <2>8 DEF Injection, IsInjective
  <1>4. Coherent
    BY <1>2, <1>3 DEF Coherent
  <1>5. LoggedIn
    BY DEF LoggedIn, Init
  <1>6. pc = "idle" /\ call.recs = {}
    BY DEF Init, NoCall
  <1>7. CallReady
    BY <1>6 DEF CallReady, Filling
  <1>8. QED
    BY <1>1, <1>4, <1>5, <1>7 DEF IInv

LEMMA Invariance == Spec => []IInv
  BY InitInv, NextKeeps, PTL DEF Spec

(* Media, buffers and the running call stay in their ranges.               *)
THEOREM TypesKept == Spec => []TypeOK
  <1>1. IInv => TypeOK
    BY DEF IInv
  <1>2. QED
    BY <1>1, Invariance, PTL

(* Whatever the disks in the drives do, no valid buffer is of a medium     *)
(* other than the one its drive is logged in with, no record is in two     *)
(* buffers, and a clean buffer has what is on its medium.                  *)
THEOREM CoherentAlways == Spec => []Coherent
  <1>1. IInv => Coherent
    BY DEF IInv
  <1>2. QED
    BY <1>1, Invariance, PTL

-----------------------------------------------------------------------------
(* What the file system has for a record.                                  *)

LEMMA HeldContent ==
  ASSUME NEW bcbs, NEW store, NEW m, NEW r, NEW b \in HeldIn(bcbs, m, r),
         \A x \in HeldIn(bcbs, m, r) : x = b
  PROVE  ContentIn(bcbs, store, m, r) = bcbs[b].b_bufr
  <1>1. (CHOOSE x \in HeldIn(bcbs, m, r) : TRUE) \in HeldIn(bcbs, m, r)
    OBVIOUS
  <1>2. QED
    BY <1>1 DEF ContentIn

LEMMA FreeContent ==
  ASSUME NEW bcbs, NEW store, NEW m, NEW r, HeldIn(bcbs, m, r) = {}
  PROVE  ContentIn(bcbs, store, m, r) = store[m][r]
  BY DEF ContentIn

(* No record of a medium is in two buffers.                                *)
OneHolder ==
  \A m \in Media, r \in Records :
    \A b, x \in HeldIn(bufl, m, r) : b = x

LEMMA InvOneHolder == IInv => OneHolder
  <1> SUFFICES ASSUME IInv, NEW m \in Media, NEW r \in Records,
                      NEW b \in HeldIn(bufl, m, r), NEW x \in HeldIn(bufl, m, r)
               PROVE  b = x
    BY DEF OneHolder
  <1> USE DEF IInv
  <1>1. /\ b \in Buffers /\ x \in Buffers /\ Valid(b) /\ Valid(x)
        /\ bufl[b].b_dm = m /\ bufl[x].b_dm = m
        /\ bufl[b].b_rec = r /\ bufl[x].b_rec = r
    BY DEF HeldIn, Valid
  <1>2. /\ bufl[b].b_bufdrv \in Drives /\ drvtbl[bufl[b].b_bufdrv] = m
        /\ bufl[x].b_bufdrv \in Drives /\ drvtbl[bufl[x].b_bufdrv] = m
    BY <1>1 DEF Coherent, Valid, TypeOK, BCB
  <1>3. bufl[b].b_bufdrv = DriveOf[m] /\ bufl[x].b_bufdrv = DriveOf[m]
    BY <1>2, NoneApart DEF LoggedIn
  <1>4. QED
    BY <1>1, <1>3 DEF Coherent

LEMMA InvOneHolderNext == IInv' => OneHolder'
  BY InvOneHolder, PTL

(* Clean buffers, and those of other media, can go.                        *)
LEMMA FadedContent ==
  ASSUME IInv, UNCHANGED disk, NEW m \in Media, NEW r \in Records,
         \A x \in Buffers :
           \/ bufl'[x] = bufl[x]
           \/ bufl'[x] = Empty /\ (Valid(x) /\ bufl[x].b_dm = m => ~bufl[x].b_dirty)
  PROVE  Content(m, r)' = Content(m, r)
  <1> USE DEF IInv
  <1>1. Empty.b_bufdrv = None
    BY DEF Empty
  <1>2. \A x \in HeldIn(bufl', m, r) : x \in HeldIn(bufl, m, r) /\ bufl'[x] = bufl[x]
    BY <1>1 DEF HeldIn
  <1>3. \A b, x \in HeldIn(bufl, m, r) : b = x
    BY InvOneHolder DEF OneHolder
  <1>4. Content(m, r)' = ContentIn(bufl', disk, m, r)
    BY DEF Content
  <1>5. CASE HeldIn(bufl, m, r) = {}
    <2>1. HeldIn(bufl', m, r) = {}
      BY <1>2, <1>5
    <2>2. QED
      BY <1>4, <1>5, <2>1, FreeContent DEF Content
  <1>6. CASE HeldIn(bufl', m, r) # {}
    <2>1. PICK b \in HeldIn(bufl', m, r) : TRUE
      BY <1>6
    <2>2. ContentIn(bufl', disk, m, r) = bufl'[b].b_bufr
      BY <1>2, <1>3, <2>1, HeldContent
    <2>3. ContentIn(bufl, disk, m, r) = bufl[b].b_bufr
      BY <1>2, <1>3, <2>1, HeldContent
    <2>4. QED
      BY <1>2, <1>4, <2>1, <2>2, <2>3 DEF Content
  <1>7. CASE HeldIn(bufl, m, r) # {} /\ HeldIn(bufl', m, r) = {}
    <2>1. PICK b \in HeldIn(bufl, m, r) : TRUE
      BY <1>7
    <2>2. b \in Buffers /\ Valid(b) /\ bufl[b].b_dm = m /\ bufl[b].b_rec = r
      BY <2>1 DEF HeldIn, Valid
    <2>3. bufl'[b] = Empty
      BY <1>7, <2>1, <2>2 DEF HeldIn
    <2>4. bufl[b] # Empty
      BY <1>1, <2>2 DEF Valid
    <2>5. ~bufl[b].b_dirty
      BY <2>2, <2>3, <2>4
    <2>6. bufl[b].b_bufr = disk[m][r]
      BY <2>2, <2>5 DEF Coherent
    <2>7. ContentIn(bufl, disk, m, r) = bufl[b].b_bufr
      BY <1>3, <2>1, HeldContent
    <2>8. ContentIn(bufl', disk, m, r) = disk[m][r]
      BY <1>7, FreeContent
    <2>9. QED
      BY <1>4, <2>6, <2>7, <2>8 DEF Content
  <1>8. QED
    BY <1>5, <1>6, <1>7

(* When Fclose() reports success every write that was not given up is on   *)
(* its medium: no buffer of any drive is dirty.                            *)
THEOREM StoredAtClose == Spec => ClosedIsStored
  <1>1. ASSUME IInv, ixclose
        PROVE  \A m \in Media, r \in Records : Content(m, r) = disk[m][r]
    <2> USE DEF IInv
    <2> SUFFICES ASSUME NEW m \in Media, NEW r \in Records
                 PROVE  Content(m, r) = disk[m][r]
      OBVIOUS
    <2>1. CASE HeldIn(bufl, m, r) = {}
      BY <2>1, FreeContent DEF Content
    <2>2. CASE HeldIn(bufl, m, r) # {}
      <3>1. PICK b \in HeldIn(bufl, m, r) : TRUE
        BY <2>2
      <3>2. b \in Buffers /\ Valid(b) /\ bufl[b].b_dm = m /\ bufl[b].b_rec = r
        BY <3>1 DEF HeldIn, Valid
      <3>3. ~bufl[b].b_dirty
        BY <1>1, <3>2 DEF ixclose, ToFlush
      <3>4. bufl[b].b_bufr = disk[m][r]
        BY <1>1, <3>2, <3>3 DEF Coherent
      <3>5. Content(m, r) = bufl[b].b_bufr
        BY <1>1, <3>1, InvOneHolder, HeldContent DEF OneHolder, Content
      <3>6. QED
        BY <3>4, <3>5
    <2>3. QED
      BY <2>1, <2>2
  <1>2. IInv /\ [Next]_vars =>
          [ixclose => \A m \in Media, r \in Records : Content(m, r) = disk[m][r]]_vars
    BY <1>1
  <1>3. QED
    BY <1>2, Invariance, PTL DEF Spec, ClosedIsStored

-----------------------------------------------------------------------------
(* The buffers implement RecordStore.                                      *)

Contents == [m \in Media |-> [r \in Records |-> Content(m, r)]]

LEMMA ContentsNext ==
  \A m \in Media, r \in Records : Contents'[m][r] = Content(m, r)'
  BY DEF Contents

(* A step that changes no content, no medium and writes nothing.           *)
LEMMA StutterStep ==
  ASSUME UNCHANGED <<disk, clock>>,
         \A m \in Media, r \in Records : Content(m, r)' = Content(m, r)
  PROVE  UNCHANGED <<Contents, disk, clock>>
  BY DEF Contents

LEMMA QuietStep ==
  ASSUME UNCHANGED <<bufl, disk, clock>>
  PROVE  UNCHANGED <<Contents, disk, clock>>
  BY DEF Contents, Content

(* The buffers of a drive are given up.                                    *)
LEMMA RevertStep ==
  ASSUME IInv, NEW d \in Drives, UNCHANGED <<disk, clock>>,
         NEW bcbs \in [Buffers -> BCB], bufl' = mark_bcbs_invalid(d, bcbs),
         \A x \in Buffers :
           bcbs[x] = bufl[x] \/ (bcbs[x] = Empty /\ ~(Valid(x) /\ bufl[x].b_dirty))
  PROVE  \/ UNCHANGED <<Contents, disk, clock>>
         \/ \E m \in Media : Contents' = [Contents EXCEPT ![m] = disk[m]]
  <1> USE DEF IInv
  <1>1. \A x \in Buffers : Valid(x) /\ bufl[x].b_bufdrv = d =>
          drvtbl[d] # None /\ bufl[x].b_dm = drvtbl[d]
    BY DEF Coherent
  <1>2. \A x \in Buffers :
          \/ bufl'[x] = bufl[x] /\ bufl[x].b_bufdrv # d
          \/ bufl'[x] = Empty /\ (bufl[x].b_bufdrv = d \/ ~(Valid(x) /\ bufl[x].b_dirty))
    BY DEF mark_bcbs_invalid
  <1>3. ASSUME NEW m \in Media, NEW r \in Records, m # drvtbl[d]
        PROVE  Content(m, r)' = Content(m, r)
    <2>1. \A x \in Buffers :
           \/ bufl'[x] = bufl[x]
           \/ bufl'[x] = Empty /\ (Valid(x) /\ bufl[x].b_dm = m => ~bufl[x].b_dirty)
      BY <1>1, <1>2, <1>3
    <2>2. QED
      BY <2>1, FadedContent
  <1>4. CASE drvtbl[d] \notin Media
    BY <1>3, <1>4, StutterStep
  <1>5. CASE drvtbl[d] \in Media
    <2> PICK m0 \in Media : m0 = drvtbl[d]
      BY <1>5
    <2>1. ASSUME NEW r \in Records
          PROVE  Content(m0, r)' = disk[m0][r]
      <3>1. HeldIn(bufl', m0, r) = {}
        <4>1. SUFFICES ASSUME NEW x \in HeldIn(bufl', m0, r) PROVE FALSE
          OBVIOUS
        <4>2. x \in Buffers /\ bufl'[x].b_bufdrv # None /\ bufl'[x].b_dm = m0
          BY <4>1 DEF HeldIn
        <4>3. bufl'[x] = bufl[x] /\ bufl[x].b_bufdrv # d
          BY <1>2, <4>2 DEF Empty
        <4>4. Valid(x) /\ bufl[x].b_dm = m0 /\ bufl[x].b_bufdrv \in Drives
          BY <4>2, <4>3 DEF Valid, TypeOK, BCB
        <4>5. drvtbl[bufl[x].b_bufdrv] = m0
          BY <4>2, <4>4 DEF Coherent
        <4>6. DriveOf[m0] = bufl[x].b_bufdrv /\ DriveOf[m0] = d
          BY <1>5, <4>4, <4>5, NoneApart DEF LoggedIn
        <4>7. QED
          BY <4>3, <4>6
      <3>2. QED
        BY <3>1, FreeContent DEF Content
    <2>2. disk \in [Media -> [Records -> Nat]]
      BY DEF TypeOK
    <2>3. Contents' = [m \in Media |-> IF m = m0 THEN disk[m0] ELSE Contents[m]]
      <3>1. ASSUME NEW m \in Media
            PROVE  Contents'[m] = IF m = m0 THEN disk[m0] ELSE Contents[m]
        <4>1. Contents'[m] = [r \in Records |-> Content(m, r)']
          BY DEF Contents
        <4>2. Contents[m] = [r \in Records |-> Content(m, r)]
          BY DEF Contents
        <4>3. CASE m = m0
          <5>1. \A r \in Records : Content(m, r)' = disk[m0][r]
            BY <2>1, <4>3
          <5>2. disk[m0] = [r \in Records |-> disk[m0][r]]
            BY <1>5, <2>2
          <5>3. QED
            BY <4>1, <4>3, <5>1, <5>2
        <4>4. CASE m # m0
          BY <1>3, <4>1, <4>2, <4>4
        <4>5. QED
          BY <4>3, <4>4
      <3>2. Contents' = [m \in Media |-> Contents'[m]]
        BY DEF Contents
      <3>3. QED
        BY <3>1, <3>2
    <2>4. Contents = [m \in Media |-> Contents[m]]
      BY DEF Contents
    <2>5. Contents' = [Contents EXCEPT ![m0] = disk[m0]]
      BY <1>5, <2>3, <2>4
    <2>6. QED
      BY <1>5, <2>5
  <1>6. QED
    BY <1>4, <1>5

(* Contents that are written over, record by record.                       *)
LEMMA OverwriteContents ==
  ASSUME NEW m \in Media, NEW R \in SUBSET Records, NEW v,
         \A n \in Media, r \in Records :
           Content(n, r)' = IF n = m /\ r \in R THEN v ELSE Content(n, r)
  PROVE  Contents' = Records_!Overwrite(Contents, m, R, v)
  <1> DEFINE over == [r \in Records |-> IF r \in R THEN v ELSE Contents[m][r]]
  <1>1. Records_!Overwrite(Contents, m, R, v) = [Contents EXCEPT ![m] = over]
    BY DEF Records_!Overwrite
  <1>2. [Contents EXCEPT ![m] = over] =
          [n \in Media |-> IF n = m THEN over ELSE Contents[n]]
    BY DEF Contents
  <1>3. ASSUME NEW n \in Media
        PROVE  Contents'[n] = IF n = m THEN over ELSE Contents[n]
    <2>1. Contents'[n] = [r \in Records |-> Content(n, r)']
      BY DEF Contents
    <2>2. Contents[n] = [r \in Records |-> Content(n, r)]
      BY DEF Contents
    <2>3. CASE n = m
      <3>1. \A r \in Records : Content(n, r)' = IF r \in R THEN v ELSE Contents[m][r]
        BY <2>2, <2>3
      <3>2. QED
        BY <2>1, <2>3, <3>1
    <2>4. CASE n # m
      BY <2>1, <2>2, <2>4
    <2>5. QED
      BY <2>3, <2>4
  <1>4. Contents' = [n \in Media |-> Contents'[n]]
    BY DEF Contents
  <1>5. QED
    BY <1>1, <1>2, <1>3, <1>4

(* A buffer has, and no other buffer has, what its record's content is.    *)
LEMMA PutStep ==
  ASSUME IInv, IInv', NEW b \in Buffers, NEW bcb \in BCB, NEW write \in BOOLEAN,
         bcb.b_bufdrv # None, bcb.b_dm \in Media,
         \A x \in Buffers : bufl'[x] = IF x = b THEN Change(bcb, write) ELSE bufl[x],
         UNCHANGED disk, Tick(write),
         \/ bcb = bufl[b]
         \/ /\ ~(Valid(b) /\ bufl[b].b_dirty)
            /\ bcb.b_bufr = disk[bcb.b_dm][bcb.b_rec]
            /\ \A x \in Buffers \ {b} : x \notin HeldIn(bufl, bcb.b_dm, bcb.b_rec)
  PROVE  \/ UNCHANGED <<Contents, disk, clock>>
         \/ \E m \in Media, r \in Records :
              /\ clock' = clock + 1
              /\ Contents' = Records_!Overwrite(Contents, m, {r}, clock')
              /\ UNCHANGED disk
  <1> USE DEF IInv
  <1> DEFINE dm == bcb.b_dm
             rec == bcb.b_rec
             new == Change(bcb, write)
  <1>1. /\ rec \in Records /\ dm \in Media
        /\ new.b_bufdrv = bcb.b_bufdrv /\ new.b_rec = rec /\ new.b_dm = dm
        /\ new.b_bufr = IF write THEN clock + 1 ELSE bcb.b_bufr
    BY ChangeFields DEF BCB
  <1> HIDE DEF new
  <1>2. \A x \in Buffers : bufl'[x] = IF x = b THEN new ELSE bufl[x]
    BY DEF new
  <1>3. OneHolder /\ OneHolder'
    BY InvOneHolder, InvOneHolderNext
  <1>4. Content(dm, rec)' = new.b_bufr
    <2>1. b \in HeldIn(bufl', dm, rec)
      BY <1>1, <1>2 DEF HeldIn
    <2>2. \A x \in HeldIn(bufl', dm, rec) : x = b
      BY <1>1, <1>3, <2>1 DEF OneHolder
    <2>3. ContentIn(bufl', disk', dm, rec) = bufl'[b].b_bufr
      BY <2>1, <2>2, HeldContent
    <2>4. QED
      BY <1>2, <2>3 DEF Content
  <1>5. Content(dm, rec) = bcb.b_bufr
    <2>1. CASE b \in HeldIn(bufl, dm, rec)
      <3>1. Content(dm, rec) = bufl[b].b_bufr
        BY <1>1, <1>3, <2>1, HeldContent DEF OneHolder, Content
      <3>2. CASE bcb = bufl[b]
        BY <3>1, <3>2
      <3>3. CASE ~(Valid(b) /\ bufl[b].b_dirty) /\ bcb.b_bufr = disk[dm][rec]
        <4>1. Valid(b) /\ bufl[b].b_dm = dm /\ bufl[b].b_rec = rec
          BY <2>1 DEF HeldIn, Valid
        <4>2. bufl[b].b_bufr = disk[dm][rec]
          BY <3>3, <4>1 DEF Coherent
        <4>3. QED
          BY <3>1, <3>3, <4>2
      <3>4. QED
        BY <3>2, <3>3
    <2>2. CASE b \notin HeldIn(bufl, dm, rec)
      <3>1. bcb # bufl[b]
        BY <2>2 DEF HeldIn
      <3>2. HeldIn(bufl, dm, rec) = {}
        BY <2>2, <3>1 DEF HeldIn
      <3>3. QED
        BY <3>1, <3>2, FreeContent DEF Content
    <2>3. QED
      BY <2>1, <2>2
  <1>6. ASSUME NEW m \in Media, NEW r \in Records, ~(m = dm /\ r = rec)
        PROVE  Content(m, r)' = Content(m, r)
    <2>1. HeldIn(bufl', m, r) = HeldIn(bufl, m, r) \ {b}
      BY <1>1, <1>2, <1>6 DEF HeldIn
    <2>2. CASE b \in HeldIn(bufl, m, r)
      <3>1. Valid(b) /\ bufl[b].b_dm = m /\ bufl[b].b_rec = r
        BY <2>2 DEF HeldIn, Valid
      <3>2. ~bufl[b].b_dirty
        BY <1>6, <3>1
      <3>3. bufl[b].b_bufr = disk[m][r]
        BY <3>1, <3>2 DEF Coherent
      <3>4. Content(m, r) = disk[m][r]
        BY <1>3, <2>2, <3>3, HeldContent DEF OneHolder, Content
      <3>5. HeldIn(bufl', m, r) = {}
        BY <1>3, <2>1, <2>2 DEF OneHolder
      <3>6. QED
        BY <3>4, <3>5, FreeContent DEF Content
    <2>3. CASE b \notin HeldIn(bufl, m, r)
      <3>1. HeldIn(bufl', m, r) = HeldIn(bufl, m, r)
        BY <2>1, <2>3
      <3>2. \A x \in HeldIn(bufl, m, r) : bufl'[x] = bufl[x]
        BY <1>2, <2>3 DEF HeldIn
      <3>3. ContentIn(bufl', disk, m, r) = ContentIn(bufl, disk, m, r)
        BY <3>1, <3>2 DEF ContentIn
      <3>4. QED
        BY <3>3 DEF Content
    <2>4. QED
      BY <2>2, <2>3
  <1>7. CASE write
    <2>1. clock' = clock + 1
      BY <1>7 DEF Tick
    <2>2. \A n \in Media, r \in Records :
            Content(n, r)' = IF n = dm /\ r \in {rec} THEN clock' ELSE Content(n, r)
      BY <1>1, <1>4, <1>6, <1>7, <2>1
    <2>3. Contents' = Records_!Overwrite(Contents, dm, {rec}, clock')
      BY <1>1, <2>2, OverwriteContents
    <2>4. QED
      BY <1>1, <2>1, <2>3
  <1>8. CASE ~write
    <2>1. clock' = clock
      BY <1>8 DEF Tick
    <2>2. \A n \in Media, r \in Records : Content(n, r)' = Content(n, r)
      BY <1>1, <1>4, <1>5, <1>6, <1>8
    <2>3. QED
      BY <2>1, <2>2, StutterStep
  <1>9. QED
    BY <1>7, <1>8

(* A dirty buffer reaches its medium.                                      *)
LEMMA SettleStep ==
  ASSUME IInv, IInv', NEW b \in Buffers, Valid(b), UNCHANGED clock,
         NEW m \in Media, NEW r \in Records, m = bufl[b].b_dm, r = bufl[b].b_rec,
         \A n \in Media, s \in Records :
           disk'[n][s] = IF n = m /\ s = r THEN bufl[b].b_bufr ELSE disk[n][s],
         \A x \in Buffers :
           /\ bufl'[x].b_bufdrv = bufl[x].b_bufdrv
           /\ bufl'[x].b_rec = bufl[x].b_rec
           /\ bufl'[x].b_dm = bufl[x].b_dm
           /\ bufl'[x].b_bufr = bufl[x].b_bufr
  PROVE  Content(m, r) = bufl[b].b_bufr /\ UNCHANGED <<Contents, clock>>
  <1> USE DEF IInv
  <1>1. b \in HeldIn(bufl, m, r)
    BY DEF HeldIn, Valid
  <1>2. \A x \in HeldIn(bufl, m, r) : x = b
    BY <1>1, InvOneHolder DEF OneHolder
  <1>3. Content(m, r) = bufl[b].b_bufr
    BY <1>1, <1>2, HeldContent DEF Content
  <1>4. ASSUME NEW n \in Media, NEW s \in Records
        PROVE  Content(n, s)' = Content(n, s)
    <2>1. /\ HeldIn(bufl', n, s) = HeldIn(bufl, n, s)
          /\ ContentIn(bufl', disk', n, s) = ContentIn(bufl, disk', n, s)
      <3>1. HeldIn(bufl', n, s) = HeldIn(bufl, n, s)
        BY DEF HeldIn
      <3>2. HeldIn(bufl, n, s) # {} =>
              (CHOOSE x \in HeldIn(bufl, n, s) : TRUE) \in Buffers
        BY DEF HeldIn
      <3>3. QED
        BY <3>1, <3>2 DEF ContentIn
    <2>2. CASE HeldIn(bufl, n, s) = {}
      <3>1. ~(n = m /\ s = r)
        BY <1>1, <2>2
      <3>2. disk'[n][s] = disk[n][s]
        BY <3>1
      <3>3. QED
        BY <2>1, <2>2, <3>2, FreeContent DEF Content
    <2>3. CASE HeldIn(bufl, n, s) # {}
      BY <2>1, <2>3 DEF Content, ContentIn
    <2>4. QED
      BY <2>2, <2>3
  <1>5. UNCHANGED Contents
    BY <1>4 DEF Contents
  <1>6. QED
    BY <1>3, <1>5

(* A transfer past the buffers, when no buffer has one of its records.     *)
LEMMA StoreStep ==
  ASSUME IInv, NEW m \in Media, NEW R \in SUBSET Records, NEW v, UNCHANGED bufl,
         \A n \in Media, s \in Records :
           disk'[n][s] = IF n = m /\ s \in R THEN v ELSE disk[n][s],
         \A r \in R : HeldIn(bufl, m, r) = {}
  PROVE  Contents' = Records_!Overwrite(Contents, m, R, v)
  <1>1. ASSUME NEW n \in Media, NEW s \in Records
        PROVE  Content(n, s)' = IF n = m /\ s \in R THEN v ELSE Content(n, s)
    <2>1. Content(n, s)' = ContentIn(bufl, disk', n, s)
      BY DEF Content
    <2>2. CASE HeldIn(bufl, n, s) = {}
      BY <2>1, <2>2, FreeContent DEF Content
    <2>3. CASE HeldIn(bufl, n, s) # {}
      BY <2>1, <2>3 DEF Content, ContentIn
    <2>4. QED
      BY <2>2, <2>3
  <1>2. QED
    BY <1>1, OverwriteContents

-----------------------------------------------------------------------------
(* Each step of the buffers is a step of RecordStore, or none.             *)

LEMMA LoseImplements ==
  ASSUME IInv, NEW d \in Drives, NEW bcbs \in [Buffers -> BCB],
         \A x \in Buffers :
           bcbs[x] = bufl[x] \/ (bcbs[x] = Empty /\ ~(Valid(x) /\ bufl[x].b_dirty)),
         MediaChange(d, bcbs) \/ HardError(d, bcbs)
  PROVE  [Records_!Next]_(Records_!vars)
  <1>1. bufl' = mark_bcbs_invalid(d, bcbs) /\ UNCHANGED <<disk, clock>>
    BY DEF MediaChange, HardError
  <1>2. \/ UNCHANGED <<Contents, disk, clock>>
        \/ \E m \in Media : Contents' = [Contents EXCEPT ![m] = disk[m]]
    BY <1>1, RevertStep
  <1>3. CASE UNCHANGED <<Contents, disk, clock>>
    BY <1>3 DEF Records_!vars, Contents
  <1>4. CASE \E m \in Media : Contents' = [Contents EXCEPT ![m] = disk[m]]
    <2>1. PICK m \in Media : Contents' = [Contents EXCEPT ![m] = disk[m]]
      BY <1>4
    <2>2. Records_!Revert(m)
      BY <1>1, <2>1 DEF Records_!Revert, Contents
    <2>3. QED
      BY <2>2 DEF Records_!Next
  <1>5. QED
    BY <1>2, <1>3, <1>4

LEMMA RwabsFailsImplements ==
  ASSUME IInv, NEW d \in Drives, NEW bcbs \in [Buffers -> BCB],
         \A x \in Buffers :
           bcbs[x] = bufl[x] \/ (bcbs[x] = Empty /\ ~(Valid(x) /\ bufl[x].b_dirty)),
         RwabsFails(d, bcbs)
  PROVE  [Records_!Next]_(Records_!vars)
  BY LoseImplements DEF RwabsFails

LEMMA QuietImplements ==
  ASSUME UNCHANGED <<bufl, disk, clock>>
  PROVE  [Records_!Next]_(Records_!vars)
  BY QuietStep DEF Records_!vars, Contents

LEMMA PutImplements ==
  ASSUME IInv, IInv', NEW b \in Buffers, NEW bcb \in BCB, NEW write \in BOOLEAN,
         bcb.b_bufdrv # None, bcb.b_dm \in Media,
         \A x \in Buffers : bufl'[x] = IF x = b THEN Change(bcb, write) ELSE bufl[x],
         UNCHANGED disk, Tick(write),
         \/ bcb = bufl[b]
         \/ /\ ~(Valid(b) /\ bufl[b].b_dirty)
            /\ bcb.b_bufr = disk[bcb.b_dm][bcb.b_rec]
            /\ \A x \in Buffers \ {b} : x \notin HeldIn(bufl, bcb.b_dm, bcb.b_rec)
  PROVE  [Records_!Next]_(Records_!vars)
  <1>1. \/ UNCHANGED <<Contents, disk, clock>>
        \/ \E m \in Media, r \in Records :
              /\ clock' = clock + 1
              /\ Contents' = Records_!Overwrite(Contents, m, {r}, clock')
              /\ UNCHANGED disk
    BY PutStep
  <1>2. CASE UNCHANGED <<Contents, disk, clock>>
    BY <1>2 DEF Records_!vars, Contents
  <1>3. CASE \E m \in Media, r \in Records :
              /\ clock' = clock + 1
              /\ Contents' = Records_!Overwrite(Contents, m, {r}, clock')
              /\ UNCHANGED disk
    <2>1. \E m \in Media, r \in Records : Records_!Write(m, r)
      BY <1>3 DEF Records_!Write, Contents
    <2>2. QED
      BY <2>1 DEF Records_!Next
  <1>4. QED
    BY <1>1, <1>2, <1>3

LEMMA SettleImplements ==
  ASSUME IInv, IInv', NEW b \in Buffers, Valid(b), UNCHANGED clock,
         media[bufl[b].b_bufdrv] = 0,
         disk' = Written(disk, bufl[b].b_bufdrv, bufl[b].b_rec, bufl[b].b_bufr),
         \A x \in Buffers :
           /\ bufl'[x].b_bufdrv = bufl[x].b_bufdrv
           /\ bufl'[x].b_rec = bufl[x].b_rec
           /\ bufl'[x].b_dm = bufl[x].b_dm
           /\ bufl'[x].b_bufr = bufl[x].b_bufr
  PROVE  [Records_!Next]_(Records_!vars)
  <1> USE DEF IInv
  <1>1. PICK m \in Media, r \in Records : m = bufl[b].b_dm /\ r = bufl[b].b_rec
    BY InDrive DEF TypeOK, BCB
  <1>2. disk' = [disk EXCEPT ![m][r] = bufl[b].b_bufr]
    BY <1>1, InDrive DEF Written
  <1>3. \A n \in Media, s \in Records :
          disk'[n][s] = IF n = m /\ s = r THEN bufl[b].b_bufr ELSE disk[n][s]
    BY <1>2 DEF TypeOK
  <1>4. Content(m, r) = bufl[b].b_bufr /\ UNCHANGED <<Contents, clock>>
    BY <1>1, <1>3, SettleStep
  <1>5. disk' = [disk EXCEPT ![m][r] = Contents[m][r]]
    BY <1>2, <1>4 DEF Contents
  <1>6. Records_!Settle(m, r)
    BY <1>4, <1>5 DEF Records_!Settle, Contents
  <1>7. QED
    BY <1>6 DEF Records_!Next

LEMMA flushImplements ==
  ASSUME IInv, IInv', flush \/ flush_copy
  PROVE  [Records_!Next]_(Records_!vars)
  <1> USE DEF IInv
  <1> DEFINE b == call.victim
             d == bufl[call.victim].b_bufdrv
  <1>1. b \in Buffers /\ Valid(b) /\ d \in Drives
    BY DEF flush, flush_copy, CallReady, Valid, TypeOK, BCB
  <1>2. CASE RwabsFails(d, bufl)
    BY <1>1, <1>2, RwabsFailsImplements DEF TypeOK
  <1>3. CASE ~RwabsFails(d, bufl)
    <2>1. bufl' = bufl \/ bufl' = [bufl EXCEPT ![b].b_dirty = FALSE]
      BY <1>3 DEF flush, flush_copy
    <2>2. \A x \in Buffers :
            /\ bufl'[x].b_bufdrv = bufl[x].b_bufdrv
            /\ bufl'[x].b_rec = bufl[x].b_rec
            /\ bufl'[x].b_dm = bufl[x].b_dm
            /\ bufl'[x].b_bufr = bufl[x].b_bufr
      <3>1. CASE bufl' = bufl
        BY <3>1
      <3>2. CASE bufl' = [bufl EXCEPT ![b].b_dirty = FALSE]
        BY <3>2 DEF TypeOK, BCB
      <3>3. QED
        BY <2>1, <3>1, <3>2
    <2>3. CASE flush
      <3>1. /\ media[d] = 0 /\ UNCHANGED clock
            /\ disk' = Written(disk, d, bufl[b].b_rec, bufl[b].b_bufr)
        BY <1>3, <2>3 DEF flush
      <3>2. QED
        BY <1>1, <2>2, <3>1, SettleImplements
    <2>4. CASE flush_copy
      <3>1. UNCHANGED <<disk, clock>>
        BY <1>3, <2>4 DEF flush_copy
      <3>2. ASSUME NEW m \in Media, NEW r \in Records
            PROVE  Content(m, r)' = Content(m, r)
        <4>1. HeldIn(bufl', m, r) = HeldIn(bufl, m, r)
          BY <2>2 DEF HeldIn
        <4>2. HeldIn(bufl, m, r) # {} =>
                (CHOOSE x \in HeldIn(bufl, m, r) : TRUE) \in Buffers
          BY DEF HeldIn
        <4>3. ContentIn(bufl', disk', m, r) = ContentIn(bufl, disk, m, r)
          BY <2>2, <3>1, <4>1, <4>2 DEF ContentIn
        <4>4. QED
          BY <4>3 DEF Content
      <3>3. UNCHANGED <<Contents, disk, clock>>
        BY <3>1, <3>2, StutterStep
      <3>4. QED
        BY <3>3 DEF Records_!vars, Contents
    <2>5. QED
      BY <2>3, <2>4
  <1>4. QED
    BY <1>2, <1>3

LEMMA HitImplements ==
  ASSUME IInv, IInv', NEW b \in Buffers, Valid(b), NEW write \in BOOLEAN, Hit(b, write)
  PROVE  [Records_!Next]_(Records_!vars)
  <1> USE DEF IInv
  <1>1. PICK bcb \in BCB : bcb = bufl[b]
    BY DEF TypeOK
  <1>2. \A x \in Buffers : bufl'[x] = IF x = b THEN Change(bcb, write) ELSE bufl[x]
    BY <1>1 DEF Hit, TypeOK
  <1>3. bcb.b_bufdrv # None /\ bcb.b_dm \in Media
    BY <1>1 DEF Valid, Coherent, BCB
  <1>4. UNCHANGED disk /\ Tick(write)
    BY DEF Hit
  <1>5. QED
    BY <1>1, <1>2, <1>3, <1>4, PutImplements

LEMMA getrecImplements ==
  ASSUME IInv, IInv', NEW r \in Records, NEW write \in BOOLEAN, getrec(r, write)
  PROVE  [Records_!Next]_(Records_!vars)
  <1> USE DEF IInv
  <1>1. call.drv \in Drives
    BY DEF getrec, CallReady
  <1>2. CASE \E b \in Buffers : Valid(b) /\ Hit(b, write)
    BY <1>2, HitImplements
  <1>3. CASE \E b \in Buffers : Replace(b, r, write)
    BY <1>3, QuietImplements DEF Replace
  <1>4. CASE MediaChange(call.drv, bufl)
    BY <1>1, <1>4, LoseImplements DEF TypeOK
  <1>5. \/ \E b \in Buffers : Valid(b) /\ Hit(b, write)
        \/ \E b \in Buffers : Replace(b, r, write)
        \/ MediaChange(call.drv, bufl)
    BY DEF getrec, Candidates, On, Holds
  <1>6. QED
    BY <1>2, <1>3, <1>4, <1>5

LEMMA fillImplements ==
  ASSUME IInv, IInv', fill
  PROVE  [Records_!Next]_(Records_!vars)
  <1> USE DEF IInv
  <1>1. PICK d \in Drives, b \in Buffers, write \in BOOLEAN :
          d = call.drv /\ b = call.victim /\ write = call.write
    BY DEF fill, CallReady, Filling, TypeOK
  <1>2. /\ pc = "fill" /\ drvtbl[d] # None
        /\ ~(Valid(b) /\ bufl[b].b_dirty)
        /\ \A x \in Buffers \ {b} : ~Holds(x, d, call.rec)
    BY <1>1 DEF fill, CallReady, Filling
  <1>3. CASE RwabsFails(d, [bufl EXCEPT ![b] = Empty])
    <2>1. PICK bcbs \in [Buffers -> BCB] : bcbs = [bufl EXCEPT ![b] = Empty]
      BY EmptyType DEF TypeOK
    <2>2. \A x \in Buffers :
            bcbs[x] = bufl[x] \/ (bcbs[x] = Empty /\ ~(Valid(x) /\ bufl[x].b_dirty))
      BY <1>2, <2>1 DEF TypeOK
    <2>3. RwabsFails(d, bcbs)
      BY <1>3, <2>1
    <2>4. QED
      BY <2>2, <2>3, RwabsFailsImplements
  <1>4. CASE ~RwabsFails(d, [bufl EXCEPT ![b] = Empty])
    <2>1. PICK bcb \in BCB : bcb = Filled
      BY <1>1, FilledType
    <2>2. /\ media[d] = 0
          /\ bufl' = [bufl EXCEPT ![b] = Change(bcb, write)]
          /\ UNCHANGED disk /\ Tick(write)
      BY <1>1, <1>4, <2>1 DEF fill
    <2>3. \A x \in Buffers : bufl'[x] = IF x = b THEN Change(bcb, write) ELSE bufl[x]
      BY <2>2 DEF TypeOK
    <2>4. drvtbl[d] = med[d]
      BY <1>2, <2>2 DEF LoggedIn
    <2>5. /\ bcb.b_bufdrv = d /\ bcb.b_rec = call.rec /\ bcb.b_dm = med[d]
          /\ bcb.b_bufr = disk[bcb.b_dm][bcb.b_rec]
      BY <1>1, <2>1, <2>4 DEF Filled
    <2>6. bcb.b_bufdrv # None /\ bcb.b_dm \in Media
      BY <2>5, NoneApart DEF TypeOK
    <2>7. \A x \in Buffers \ {b} : x \notin HeldIn(bufl, bcb.b_dm, bcb.b_rec)
      <3>1. SUFFICES ASSUME NEW x \in Buffers \ {b}, x \in HeldIn(bufl, bcb.b_dm, bcb.b_rec)
                     PROVE  FALSE
        OBVIOUS
      <3>2. Valid(x) /\ bufl[x].b_dm = med[d] /\ bufl[x].b_rec = call.rec
        BY <2>5, <3>1 DEF HeldIn, Valid
      <3>3. bufl[x].b_bufdrv = d
        BY <3>2, OneDrive
      <3>4. QED
        BY <1>2, <3>2, <3>3 DEF Holds
    <2>8. QED
      BY <1>2, <2>2, <2>3, <2>5, <2>6, <2>7, PutImplements
  <1>5. QED
    BY <1>3, <1>4

LEMMA usrioImplements ==
  ASSUME IInv, IInv', usrio
  PROVE  [Records_!Next]_(Records_!vars)
  <1> USE DEF IInv
  <1>1. PICK d \in Drives, R \in SUBSET Records : d = call.drv /\ R = call.recs
    BY DEF usrio, CallReady, TypeOK
  <1>2. CASE RwabsFails(d, bufl)
    BY <1>2, RwabsFailsImplements DEF TypeOK
  <1>3. CASE ~RwabsFails(d, bufl)
    <2>1. /\ disk' = IF call.write THEN Transferred ELSE disk
          /\ Tick(call.write) /\ UNCHANGED bufl
      BY <1>1, <1>3 DEF usrio
    <2>2. CASE ~call.write
      BY <2>1, <2>2, QuietImplements DEF Tick
    <2>3. CASE call.write
      <3>1. disk' = Transferred /\ clock' = clock + 1
        BY <2>1, <2>3 DEF Tick
      <3>2. PICK m \in Media : m = med[d]
        BY DEF TypeOK
      <3>3. \A n \in Media, s \in Records :
              disk'[n][s] = IF n = m /\ s \in R THEN clock' ELSE disk[n][s]
        BY <1>1, <3>1, <3>2 DEF Transferred, TypeOK
      <3>4. ASSUME NEW r \in R, NEW x \in HeldIn(bufl, m, r)
            PROVE  FALSE
        <4>1. x \in Buffers /\ Valid(x) /\ bufl[x].b_dm = med[d] /\ bufl[x].b_rec = r
          BY <3>2, <3>4 DEF HeldIn, Valid
        <4>2. bufl[x].b_bufdrv = d
          BY <4>1, OneDrive
        <4>3. r.b_buftyp = BT_DATA
          BY <1>1, <3>4 DEF CallReady, Runs
        <4>4. ListOf[x] = BI_DATA
          BY <4>1, <4>3 DEF Coherent, ListFor, BT_FAT, BT_DATA
        <4>5. Overlaps(x)
          BY <1>1, <3>4, <4>1, <4>2, <4>4 DEF Overlaps
        <4>6. QED
          BY <4>1, <4>5 DEF usrio
      <3>5. \A r \in R : HeldIn(bufl, m, r) = {}
        BY <3>4
      <3>6. Contents' = Records_!Overwrite(Contents, m, R, clock')
        BY <2>1, <3>3, <3>5, StoreStep
      <3>7. disk' = Records_!Overwrite(disk, m, R, clock')
        <4>1. disk' = [disk EXCEPT ![m] =
                         [r \in Records |-> IF r \in R THEN clock' ELSE disk[m][r]]]
          BY <1>1, <3>1, <3>2 DEF Transferred
        <4>2. QED
          BY <4>1 DEF Records_!Overwrite
      <3>8. Records_!Store(m, R)
        BY <3>1, <3>6, <3>7 DEF Records_!Store, Contents
      <3>9. QED
        BY <3>8 DEF Records_!Next
    <2>4. QED
      BY <2>2, <2>3
  <1>4. QED
    BY <1>2, <1>3

LEMMA usrioBufferImplements ==
  ASSUME IInv, usrio_buffer
  PROVE  [Records_!Next]_(Records_!vars)
  <1>1. PICK b \in Buffers :
          IF bufl[b].b_dirty THEN Flush(b, "usrio")
          ELSE /\ bufl' = [bufl EXCEPT ![b] = Empty]
               /\ UNCHANGED <<disk, copy, med, media, drvtbl, place, call, pc, clock>>
    BY DEF usrio_buffer
  <1>2. CASE bufl[b].b_dirty
    BY <1>1, <1>2, QuietImplements DEF Flush
  <1>3. CASE ~bufl[b].b_dirty
    <2>1. UNCHANGED <<disk, clock>>
      BY <1>1, <1>3
    <2>2. \A x \in Buffers : bufl'[x] = bufl[x] \/ (bufl'[x] = Empty /\ ~bufl[x].b_dirty)
      BY <1>1, <1>3 DEF IInv, TypeOK
    <2>3. \A m \in Media, r \in Records : Content(m, r)' = Content(m, r)
      BY <2>1, <2>2, FadedContent
    <2>4. UNCHANGED <<Contents, disk, clock>>
      BY <2>1, <2>3, StutterStep
    <2>5. QED
      BY <2>4 DEF Records_!vars, Contents
  <1>4. QED
    BY <1>2, <1>3

LEMMA NextImplements == IInv /\ IInv' /\ [Next]_vars => [Records_!Next]_(Records_!vars)
  <1> SUFFICES ASSUME IInv, IInv', [Next]_vars PROVE [Records_!Next]_(Records_!vars)
    OBVIOUS
  <1>1. CASE UNCHANGED vars
    BY <1>1, QuietImplements DEF vars
  <1>2. CASE Outside
    BY <1>2, QuietImplements DEF Outside, Swap, Suspect
  <1>3. CASE Call
    <2>1. CASE (\E d \in Drives, handle \in BOOLEAN : Begin(d, handle)) \/ Done
               \/ Begin_close \/ ixclose_flush \/ ixclose
      BY <2>1, QuietImplements DEF Begin, Done, Begin_close, ixclose_flush, Flush, ixclose
    <2>2. CASE ckdrv
      <3>1. CASE MediaChange(call.drv, bufl)
        <4>1. call.drv \in Drives /\ bufl \in [Buffers -> BCB]
          BY <2>2 DEF ckdrv, IInv, CallReady, TypeOK
        <4>2. QED
          BY <3>1, <4>1, LoseImplements
      <3>2. CASE ~MediaChange(call.drv, bufl)
        BY <2>2, <3>2, QuietImplements DEF ckdrv
      <3>3. QED
        BY <3>1, <3>2
    <2>3. CASE flush \/ flush_copy
      BY <2>3, flushImplements
    <2>4. CASE \E r \in Records, write \in BOOLEAN : getrec(r, write)
      BY <2>4, getrecImplements
    <2>5. CASE fill
      BY <2>5, fillImplements
    <2>6. CASE \E R \in SUBSET Runs, write \in BOOLEAN : Begin_usrio(R, write)
      BY <2>6, QuietImplements DEF Begin_usrio
    <2>7. CASE usrio_buffer
      BY <2>7, usrioBufferImplements
    <2>8. CASE usrio
      BY <2>8, usrioImplements
    <2>9. QED
      BY <1>3, <2>1, <2>2, <2>3, <2>4, <2>5, <2>6, <2>7, <2>8 DEF Call
  <1>4. QED
    BY <1>1, <1>2, <1>3 DEF Next

(* The buffers show in no content, a write changes the one record it is    *)
(* for, and only what was not written yet can be lost.                     *)
THEOREM ImplementsRecordStore == Spec => RecordStoreSpec
  <1>1. Init => Records_!Init
    <2> SUFFICES ASSUME Init PROVE Records_!Init
      OBVIOUS
    <2>1. ASSUME NEW m \in Media, NEW r \in Records
          PROVE  Content(m, r) = 0
      <3>1. HeldIn(bufl, m, r) = {}
        BY DEF Init, HeldIn, Empty
      <3>2. QED
        BY <3>1, FreeContent DEF Content, Init
    <2>2. QED
      BY <2>1 DEF Init, Records_!Init
  <1>2. QED
    BY <1>1, NextImplements, Invariance, PTL DEF Spec, RecordStoreSpec, Records_!Spec
===============================================================================
