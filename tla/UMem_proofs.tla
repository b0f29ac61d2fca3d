---------------------------- MODULE UMem_proofs ----------------------------
(***************************************************************************)
(* Proofs about GEMDOS memory, for any partitions, boards, alignments,     *)
(* sizes and number of memory descriptors: the lists partition the memory, *)
(* each descriptor is accounted for, and blocks belong to the living.      *)
(*                                                                         *)
(* The blocks of all lists are looked at as one set A. What the operators  *)
(* of the model do comes down to a few changes of A: a block is replaced   *)
(* by one in the same place, split, joined with the next, added, or taken  *)
(* out; each is a lemma. What they do to the free lists, as sequences, is  *)
(* proved apart.                                                           *)
(***************************************************************************)
EXTENDS UMem, SequenceTheorems, FiniteSetTheorems, TLAPS

MD == Blocks \cup {themd}
Osm == [used : [MD -> 0 .. MDS_PER_BLOCK], mdbroot : Seq(MD),
        taken : SUBSET Blocks]

(* Descriptors: how many of the blocks A have theirs in MDBLOCK b.         *)
Count(A, b) == Cardinality({m \in A : m.md = b})

Accounted(A, o) ==
  /\ A \subseteq Block /\ IsFiniteSet(A)
  /\ o \in Osm
  /\ \A b \in Blocks : o.used[b] = Count(A, b)
  /\ \A b \in o.taken : o.used[b] = 0
  /\ o.used[themd] \in MDS_PER_BLOCK - 1 .. MDS_PER_BLOCK
  /\ Count(A, themd) = 0 \/ (Count(A, themd) = 1 /\ o.used[themd] = MDS_PER_BLOCK)
  /\ \A b \in MD : (\E i \in DOMAIN o.mdbroot : o.mdbroot[i] = b)
                     <=> o.used[b] \notin {0, MDS_PER_BLOCK}
  /\ \A i, j \in DOMAIN o.mdbroot : o.mdbroot[i] = o.mdbroot[j] => i = j
  /\ \A m \in A : m.start = StStart => m.md = themd

(* No two blocks have a byte in common. *)
Apart(m, n) ==
  m.start + m.length <= n.start \/ n.start + n.length <= m.start

Tidy(A) ==
  /\ \A m, n \in A : m # n => Apart(m, n)
  /\ \A m \in A : StStart <= m.start

Cover(A) == UNION {Bytes(m) : m \in A}

Sound(A, o) == Tidy(A) /\ Accounted(A, o)

(* The whole memory. *)
InPool(p, m) ==
  IF p = "st" THEN m.start + m.length <= StStart + StSize
  ELSE StStart + StSize <= m.start

Once(fl) == \A i, j \in DOMAIN fl : fl[i] = fl[j] => i = j

Sorted(fl) ==
  \A i, j \in DOMAIN fl : i < j => fl[i].start + fl[i].length < fl[j].start

InList(s, p) == ToSet(s.mfl[p]) \cup s.mal[p]
All(s) == InList(s, "st") \cup InList(s, "alt")

MemOK(s) ==
  /\ s \in [mfl : [Pools -> Seq(Block)], mal : [Pools -> SUBSET Block],
            osm : Osm]
  /\ \A p \in Pools : /\ Once(s.mfl[p])
                      /\ ToSet(s.mfl[p]) \cap s.mal[p] = {}
                      /\ \A m \in InList(s, p) : InPool(p, m)
  /\ Sorted(s.mfl["st"])
  /\ Sound(All(s), s.osm)

(* The programs, when the allocated blocks are A, the stack of basepages   *)
(* is st and the basepages not yet run are ld. Each program but the first  *)
(* is in a block that belongs to it or to the one that started it. An      *)
(* environment is no basepage.                                             *)
BlockStarts(A, a) == \E m \in A : m.start = a

Blocky(A) ==
  /\ A \subseteq Block
  /\ \A m, n \in A : m.start = n.start => m = n
  /\ \A m \in A : StStart <= m.start

StackOK(st) ==
  /\ st \in Seq(Nat) /\ st # <<>>
  /\ st[Len(st)] = initial_basepage
  /\ \A i, j \in 1 .. Len(st) : st[i] = st[j] => i = j

Owned(A, st) == \A m \in A : \E i \in 1 .. Len(st) : m.own = st[i]

Housed(A, st) ==
  \A i \in 1 .. Len(st) - 1 :
    \E m \in A : m.start = st[i] /\ m.own \in {st[i], st[i + 1]}

Ready(A, st, ld) ==
  /\ ld \subseteq [pd : Nat, env : Nat]
  /\ \A l \in ld : BlockStarts(A, l.pd) /\ BlockStarts(A, l.env)
  /\ \A k, l \in ld : k.env # l.pd
  /\ \A l \in ld : \A i \in 1 .. Len(st) - 1 : l.env # st[i]

Live(A, st, ld) ==
  Blocky(A) /\ StackOK(st) /\ Owned(A, st) /\ Housed(A, st) /\ Ready(A, st, ld)

Alloc(s) == s.mal["st"] \cup s.mal["alt"]

Covered ==
  /\ added \subseteq Boards
  /\ \A b \in added : StStart + StSize <= b.start
  /\ resident \subseteq Memory
  /\ Cover(All(mem)) = Memory \ resident

MemInv ==
  /\ MemOK(mem)
  /\ Covered
  /\ Live(Alloc(mem), stack, loaded)
  /\ rc \in BOOLEAN

(***************************************************************************)
(* Least elements, searches, chains.                                       *)
(***************************************************************************)
LEMMA MinFacts ==
  ASSUME NEW I \in SUBSET Nat, I # {}
  PROVE  Min(I) \in I /\ \A j \in I : Min(I) <= j
<1>1. PICK i \in I : \A j \in I : ~(<<j, i>> \in OpToRel(<, Nat))
  BY NatLessThanWellFounded, WFMin, Zenon
<1>2. ASSUME NEW j \in I
      PROVE  i <= j
  <2> SUFFICES ASSUME j < i
               PROVE  FALSE
    OBVIOUS
  <2>1. <<j, i>> \in OpToRel(<, Nat)
    BY Zenon DEF OpToRel
  <2> QED
    BY <2>1, <1>1
<1> QED
  BY <1>2 DEF Min

LEMMA Constants ==
  /\ AlignST \in Nat \ {0} /\ AlignAlt \in Nat \ {0} /\ EnvSize \in Nat \ {0}
  /\ StSize \in Nat \ {0} /\ StStart \in Nat /\ StStart > 1
  /\ Amounts \subseteq Nat \ {0}
  /\ Blocks \subseteq Nat \ {0} /\ MD \subseteq Nat
  /\ themd = 0 /\ NULL = 0 /\ NoMD = -1 /\ initial_basepage = 1
  /\ MDS_PER_BLOCK = 3
BY UMemAssumption DEF themd, NULL, NoMD, initial_basepage, MD, MDS_PER_BLOCK

(***************************************************************************)
(* Memory descriptors.                                                     *)
(***************************************************************************)
LEMMA CountType ==
  ASSUME NEW A, IsFiniteSet(A), NEW b
  PROVE  Count(A, b) \in Nat
<1>1. IsFiniteSet({m \in A : m.md = b})
  BY FS_Subset
<1> QED
  BY <1>1, FS_CardinalityType DEF Count

LEMMA CountAdd ==
  ASSUME NEW A, IsFiniteSet(A), NEW f, f \notin A
  PROVE  /\ IsFiniteSet(A \cup {f})
         /\ \A b : Count(A \cup {f}, b)
                     = IF f.md = b THEN Count(A, b) + 1 ELSE Count(A, b)
<1>1. ASSUME NEW b
      PROVE  Count(A \cup {f}, b)
               = IF f.md = b THEN Count(A, b) + 1 ELSE Count(A, b)
  <2> DEFINE S == {m \in A : m.md = b}
             T == {m \in A \cup {f} : m.md = b}
  <2>1. IsFiniteSet(S) /\ f \notin S
    BY FS_Subset
  <2>2. CASE f.md = b
    <3>1. T = S \cup {f}
      BY <2>2
    <3> HIDE DEF S, T
    <3>2. Cardinality(T) = Cardinality(S) + 1
      BY <2>1, <3>1, FS_AddElement
    <3> QED
      BY <3>2, <2>2 DEF Count, S, T
  <2>3. CASE f.md # b
    <3>1. T = S
      BY <2>3
    <3> QED
      BY <3>1, <2>3 DEF Count
  <2> QED
    BY <2>2, <2>3
<1> QED
  BY <1>1, FS_AddElement

LEMMA CountDel ==
  ASSUME NEW A, IsFiniteSet(A), NEW q \in A
  PROVE  /\ IsFiniteSet(A \ {q})
         /\ \A b : Count(A, b)
                     = IF q.md = b THEN Count(A \ {q}, b) + 1
                       ELSE Count(A \ {q}, b)
<1> DEFINE B == A \ {q}
<1>1. IsFiniteSet(B) /\ q \notin B /\ A = B \cup {q}
  BY FS_RemoveElement
<1> HIDE DEF B
<1>2. \A b : Count(B \cup {q}, b)
               = IF q.md = b THEN Count(B, b) + 1 ELSE Count(B, b)
  BY <1>1, CountAdd, Zenon
<1> QED
  BY <1>1, <1>2 DEF B

(* A block is replaced by one with its descriptor. *)
LEMMA Replaced ==
  ASSUME NEW A, NEW o, Accounted(A, o), NEW q \in A, NEW r \in Block,
         r \notin A \ {q}, r.md = q.md, r.start = StStart <=> q.start = StStart
  PROVE  Accounted((A \ {q}) \cup {r}, o)
<1> DEFINE B == A \ {q}
           C == B \cup {r}
<1>1. IsFiniteSet(A) /\ A \subseteq Block
  BY DEF Accounted
<1>2. IsFiniteSet(B) /\ \A b : Count(A, b)
         = IF q.md = b THEN Count(B, b) + 1 ELSE Count(B, b)
  BY <1>1, CountDel
<1> HIDE DEF B
<1>3. IsFiniteSet(C) /\ \A b : Count(C, b)
         = IF r.md = b THEN Count(B, b) + 1 ELSE Count(B, b)
  BY <1>2, CountAdd DEF B
<1>4. \A b : Count(C, b) = Count(A, b)
  BY <1>2, <1>3
<1>5. C \subseteq Block /\ \A m \in C : m.start = StStart => m.md = themd
  BY <1>1 DEF Accounted, B
<1> HIDE DEF C
<1>6. Accounted(C, o)
  BY <1>3, <1>4, <1>5 DEF Accounted
<1> QED
  BY <1>6 DEF C, B

(* A slot for a new block. *)
LEMMA SlotGot ==
  ASSUME NEW A, NEW o, Accounted(A, o), xmgetmd(o).md # NoMD
  PROVE  LET got == xmgetmd(o)
         IN  /\ got.md \in MD
             /\ \A f \in Block : f \notin A /\ f.md = got.md /\ f.start # StStart
                  => Accounted(A \cup {f}, got.osm)
<1> DEFINE got == xmgetmd(o)
<1>1. /\ A \subseteq Block /\ IsFiniteSet(A) /\ o \in Osm
      /\ o.used \in [MD -> 0 .. 3] /\ o.mdbroot \in Seq(MD)
      /\ o.taken \subseteq Blocks
  BY Constants DEF Accounted, Osm
<1> DEFINE b == got.md
           chain == IF o.mdbroot # <<>> THEN o.mdbroot ELSE <<b>>
<1>2. /\ b \in MD /\ o.used[b] \in 0 .. 2 /\ b \notin o.taken
      /\ chain \in Seq(MD) /\ chain # <<>> /\ chain[1] = b
      /\ \A i, j \in DOMAIN chain : chain[i] = chain[j] => i = j
      /\ \A c \in MD \ {b} : (\E i \in DOMAIN chain : chain[i] = c)
                               <=> o.used[c] \notin {0, MDS_PER_BLOCK}
      /\ got.osm = [o EXCEPT !.used[b] = @ + 1,
                             !.mdbroot = IF o.used[b] + 1 = MDS_PER_BLOCK
                                         THEN Tail(chain) ELSE chain]
      /\ b = themd => o.used[b] # MDS_PER_BLOCK
  <2>1. CASE o.mdbroot # <<>>
    <3>1. got = Slot(o, Head(o.mdbroot), o.mdbroot)
      BY <2>1 DEF xmgetmd
    <3>2. b = Head(o.mdbroot)
      BY <3>1 DEF Slot
    <3>3. 1 \in DOMAIN o.mdbroot /\ o.mdbroot[1] = b /\ b \in MD
      BY <2>1, <3>2, <1>1, EmptySeq, LenProperties, HeadTailProperties
    <3>4. o.used[b] \notin {0, MDS_PER_BLOCK}
      BY <3>3 DEF Accounted
    <3>5. o.used[b] \in 1 .. 2
      <4> HIDE DEF got
      <4>1. o.used[b] \in 0 .. 3 /\ MDS_PER_BLOCK = 3
        BY <3>3, <1>1, Constants
      <4> QED
        BY <4>1, <3>4
    <3>6. b \notin o.taken
      BY <3>5 DEF Accounted
    <3>7. got.osm = [o EXCEPT !.used[b] = @ + 1,
                              !.mdbroot = IF o.used[b] + 1 = MDS_PER_BLOCK
                                          THEN Tail(o.mdbroot) ELSE o.mdbroot]
      BY <3>1, <3>2 DEF Slot
    <3> HIDE DEF got
    <3> QED
      BY <2>1, <3>3, <3>4, <3>5, <3>6, <3>7, <1>1 DEF Accounted
  <2>2. CASE o.mdbroot = <<>>
    <3> DEFINE c == Min(FreeBlocks(o))
    <3>1. FreeBlocks(o) # {} /\ got = Slot(o, c, <<c>>)
      BY <2>2 DEF xmgetmd
    <3>2. b = c /\ chain = <<b>>
      BY <2>2, <3>1 DEF Slot
    <3>3. FreeBlocks(o) \in SUBSET Nat /\ FreeBlocks(o) \subseteq Blocks
      BY Constants DEF FreeBlocks
    <3>4. c \in FreeBlocks(o)
      BY <3>1, <3>3, MinFacts
    <3>5. c \in Blocks /\ c \in MD /\ o.used[c] = 0 /\ c \notin o.taken
          /\ c # themd
      BY <3>4, Constants DEF FreeBlocks, MD
    <3>6. got.osm = [o EXCEPT !.used[c] = @ + 1,
                              !.mdbroot = IF o.used[c] + 1 = MDS_PER_BLOCK
                                          THEN Tail(<<c>>) ELSE <<c>>]
      BY <3>1 DEF Slot
    <3>7. <<c>> \in Seq(MD) /\ <<c>> # <<>> /\ <<c>>[1] = c /\ DOMAIN <<c>> = {1}
      BY <3>5
    <3>8. \A d \in MD : o.used[d] \in {0, MDS_PER_BLOCK}
      <4>1. DOMAIN o.mdbroot = {}
        BY <2>2
      <4> QED
        BY <4>1 DEF Accounted
    <3> HIDE DEF got, c
    <3>9. /\ b \in MD /\ b \notin o.taken /\ o.used[b] = 0
          /\ b # themd
      BY <3>2, <3>5
    <3>10. chain \in Seq(MD) /\ chain # <<>> /\ chain[1] = b /\ DOMAIN chain = {1}
      BY <3>2, <3>7
    <3>11. got.osm = [o EXCEPT !.used[b] = @ + 1,
                               !.mdbroot = IF o.used[b] + 1 = MDS_PER_BLOCK
                                           THEN Tail(chain) ELSE chain]
      BY <3>2, <3>6
    <3> HIDE DEF b, chain
    <3>12. \A d \in MD \ {b} : (\E i \in DOMAIN chain : chain[i] = d)
                                <=> o.used[d] \notin {0, MDS_PER_BLOCK}
      BY <3>8, <3>10
    <3> QED
      BY <3>9, <3>10, <3>11, <3>12
  <2> QED
    BY <2>1, <2>2
<1> HIDE DEF got, chain
<1> DEFINE u == got.osm
<1>3. /\ u.used = [o.used EXCEPT ![b] = @ + 1]
      /\ u.mdbroot = IF o.used[b] + 1 = MDS_PER_BLOCK THEN Tail(chain) ELSE chain
      /\ u.taken = o.taken
      /\ u = [used |-> u.used, mdbroot |-> u.mdbroot, taken |-> u.taken]
  BY <1>1, <1>2 DEF Osm
<1>4. /\ Tail(chain) \in Seq(MD)
      /\ DOMAIN chain = 1 .. Len(chain) /\ Len(chain) \in Nat
      /\ DOMAIN Tail(chain) = 1 .. Len(chain) - 1
      /\ \A i \in DOMAIN Tail(chain) : Tail(chain)[i] = chain[i + 1]
  BY <1>2, HeadTailProperties, LenProperties
<1>5. /\ u.used \in [MD -> 0 .. 3] /\ u.mdbroot \in Seq(MD)
      /\ u.used[b] = o.used[b] + 1
      /\ \A c \in MD \ {b} : u.used[c] = o.used[c]
  BY <1>1, <1>2, <1>3, <1>4
<1>6. u \in Osm
  BY <1>1, <1>3, <1>5, Constants DEF Osm
<1>7. \A i, j \in DOMAIN u.mdbroot : u.mdbroot[i] = u.mdbroot[j] => i = j
  <2>1. CASE o.used[b] + 1 = MDS_PER_BLOCK
    <3> SUFFICES ASSUME NEW i \in DOMAIN Tail(chain), NEW j \in DOMAIN Tail(chain),
                        Tail(chain)[i] = Tail(chain)[j]
                 PROVE  i = j
      BY <1>3, <2>1
    <3>1. /\ i + 1 \in DOMAIN chain /\ j + 1 \in DOMAIN chain
          /\ i \in Int /\ j \in Int
      BY <1>4
    <3>2. i + 1 = j + 1
      BY <3>1, <1>2, <1>4
    <3> QED
      BY <3>1, <3>2
  <2>2. CASE o.used[b] + 1 # MDS_PER_BLOCK
    BY <2>2, <1>2, <1>3
  <2> QED
    BY <2>1, <2>2
<1>8. ASSUME NEW c \in MD
      PROVE  (\E i \in DOMAIN u.mdbroot : u.mdbroot[i] = c)
               <=> u.used[c] \notin {0, MDS_PER_BLOCK}
  <2>0. 1 \in DOMAIN chain
    BY <1>2, <1>4, EmptySeq
  <2>1. CASE c = b /\ o.used[b] + 1 = MDS_PER_BLOCK
    <3>1. \A i \in DOMAIN Tail(chain) : Tail(chain)[i] # b
      <4> TAKE i \in DOMAIN Tail(chain)
      <4>1. i + 1 \in DOMAIN chain /\ i + 1 # 1
        BY <1>4
      <4> QED
        BY <4>1, <2>0, <1>2, <1>4
    <3> QED
      BY <3>1, <2>1, <1>3, <1>5
  <2>2. CASE c = b /\ o.used[b] + 1 # MDS_PER_BLOCK
    <3>1. u.mdbroot = chain /\ u.mdbroot[1] = b
      BY <2>2, <1>2, <1>3
    <3>2. u.used[c] \notin {0, MDS_PER_BLOCK}
      BY <2>2, <1>2, <1>5, Constants
    <3> QED
      BY <3>1, <3>2, <2>0, <2>2
  <2>3. CASE c # b /\ o.used[b] + 1 = MDS_PER_BLOCK
    <3>1. (\E i \in DOMAIN chain : chain[i] = c)
            <=> \E i \in DOMAIN Tail(chain) : Tail(chain)[i] = c
      <4>1. ASSUME NEW i \in DOMAIN chain, chain[i] = c
            PROVE  i - 1 \in DOMAIN Tail(chain) /\ Tail(chain)[i - 1] = c
        <5>1. i # 1 /\ i \in 1 .. Len(chain)
          BY <4>1, <2>3, <1>2, <1>4
        <5>2. i - 1 \in DOMAIN Tail(chain) /\ (i - 1) + 1 = i
          BY <5>1, <1>4
        <5> QED
          BY <5>2, <4>1, <1>4
      <4>2. ASSUME NEW i \in DOMAIN Tail(chain), Tail(chain)[i] = c
            PROVE  i + 1 \in DOMAIN chain /\ chain[i + 1] = c
        BY <4>2, <1>4
      <4> QED
        BY <4>1, <4>2
    <3> QED
      BY <3>1, <2>3, <1>2, <1>3, <1>5
  <2>4. CASE c # b /\ o.used[b] + 1 # MDS_PER_BLOCK
    BY <2>4, <1>2, <1>3, <1>5
  <2> QED
    BY <2>1, <2>2, <2>3, <2>4
<1>9. ASSUME NEW f \in Block, f \notin A, f.md = b, f.start # StStart
      PROVE  Accounted(A \cup {f}, u)
  <2> DEFINE C == A \cup {f}
  <2>1. IsFiniteSet(C) /\ \A c : Count(C, c)
           = IF f.md = c THEN Count(A, c) + 1 ELSE Count(A, c)
    BY <1>1, <1>9, CountAdd
  <2>2. C \subseteq Block /\ \A m \in C : m.start = StStart => m.md = themd
    BY <1>1, <1>9 DEF Accounted
  <2> HIDE DEF C, u
  <2>3. \A c \in Blocks : u.used[c] = Count(C, c)
    <3> TAKE c \in Blocks
    <3>1. c \in MD /\ o.used[c] = Count(A, c)
      BY DEF MD, Accounted
    <3> QED
      BY <3>1, <2>1, <1>5, <1>9
  <2>4. \A c \in u.taken : u.used[c] = 0
    <3> TAKE c \in u.taken
    <3>1. c \in MD /\ c # b /\ o.used[c] = 0
      BY <1>1, <1>2, <1>3 DEF MD, Accounted
    <3> QED
      BY <3>1, <1>5
  <2>5. Count(C, themd) = 0
          \/ (Count(C, themd) = 1 /\ u.used[themd] = MDS_PER_BLOCK)
    <3>1. CASE b = themd
      <4>1. o.used[b] = 2
        BY <3>1, <1>2, Constants DEF Accounted
      <4>2. Count(A, themd) = 0
        BY <3>1, <4>1, Constants DEF Accounted
      <4> QED
        BY <3>1, <4>1, <4>2, <2>1, <1>5, <1>9, Constants
    <3>2. CASE b # themd
      <4>1. themd \in MD
        BY DEF MD
      <4> QED
        BY <3>2, <4>1, <2>1, <1>5, <1>9 DEF Accounted
    <3> QED
      BY <3>1, <3>2
  <2>6. u.used[themd] \in MDS_PER_BLOCK - 1 .. MDS_PER_BLOCK
    <3>1. themd \in MD /\ o.used[themd] \in 2 .. 3
      BY Constants DEF Accounted, MD
    <3>2. u.used[themd] \in 2 .. 3
      BY <3>1, <1>2, <1>5
    <3> QED
      BY <3>2, Constants
  <2>7. Accounted(C, u)
    BY <1>6, <1>7, <1>8, <2>1, <2>2, <2>3, <2>4, <2>5, <2>6 DEF Accounted
  <2> QED
    BY <2>7 DEF C
<1>10. /\ b \in MD
       /\ \A f \in Block : f \notin A /\ f.md = b /\ f.start # StStart
            => Accounted(A \cup {f}, u)
  BY <1>2, <1>9
<1> QED
  BY <1>10 DEF got

(* Parts of sequences, and sequences with an element less or more. *)
LEMMA SubSeqFacts ==
  ASSUME NEW S, NEW s \in Seq(S), NEW m \in Nat \ {0}, NEW n \in Nat,
         m <= n + 1, n <= Len(s)
  PROVE  LET t == SubSeq(s, m, n)
         IN  /\ t \in Seq(S) /\ Len(t) = n + 1 - m
             /\ DOMAIN t = 1 .. n + 1 - m
             /\ \A i \in 1 .. n + 1 - m : t[i] = s[m + i - 1]
OBVIOUS

LEMMA ConcatFacts ==
  ASSUME NEW S, NEW s \in Seq(S), NEW t \in Seq(S)
  PROVE  /\ s \o t \in Seq(S) /\ Len(s \o t) = Len(s) + Len(t)
         /\ DOMAIN (s \o t) = 1 .. Len(s) + Len(t)
         /\ \A i \in 1 .. Len(s) : (s \o t)[i] = s[i]
         /\ \A i \in 1 .. Len(t) : (s \o t)[Len(s) + i] = t[i]
OBVIOUS

LEMMA ConsFacts ==
  ASSUME NEW S, NEW s \in Seq(S), NEW x \in S
  PROVE  LET t == <<x>> \o s
         IN  /\ t \in Seq(S) /\ Len(t) = Len(s) + 1
             /\ DOMAIN t = 1 .. Len(s) + 1
             /\ t[1] = x
             /\ \A i \in 1 .. Len(s) : t[i + 1] = s[i]
OBVIOUS

LEMMA RemoveAtFacts ==
  ASSUME NEW S, NEW s \in Seq(S), NEW k \in 1 .. Len(s)
  PROVE  LET t == RemoveAt(s, k)
         IN  /\ t \in Seq(S) /\ Len(t) = Len(s) - 1
             /\ DOMAIN t = 1 .. Len(s) - 1
             /\ \A i \in 1 .. Len(s) - 1 :
                  t[i] = IF i < k THEN s[i] ELSE s[i + 1]
<1> DEFINE a == SubSeq(s, 1, k - 1)
           b == SubSeq(s, k + 1, Len(s))
           n == Len(s)
           t == a \o b
<1>1. n \in Nat /\ k \in Nat \ {0} /\ k <= n
  BY LenProperties
<1>2. /\ a \in Seq(S) /\ Len(a) = k - 1
      /\ \A i \in 1 .. k - 1 : a[i] = s[i]
  BY <1>1
<1>3. /\ b \in Seq(S) /\ Len(b) = n - k
      /\ \A i \in 1 .. n - k : b[i] = s[k + i]
  BY <1>1
<1> HIDE DEF a, b, n
<1>4. /\ t \in Seq(S) /\ Len(t) = n - 1 /\ DOMAIN t = 1 .. n - 1
      /\ \A i \in 1 .. k - 1 : t[i] = a[i]
      /\ \A i \in 1 .. n - k : t[(k - 1) + i] = b[i]
  <2>1. /\ t \in Seq(S) /\ Len(t) = Len(a) + Len(b)
        /\ DOMAIN t = 1 .. Len(a) + Len(b)
        /\ \A i \in 1 .. Len(a) : t[i] = a[i]
        /\ \A i \in 1 .. Len(b) : t[Len(a) + i] = b[i]
    <3>1. a \in Seq(S) /\ b \in Seq(S)
      BY <1>2, <1>3
    <3>2. \A i \in 1 .. Len(b) : t[Len(a) + i] = b[i]
      BY <3>1, ConcatFacts
    <3>3. /\ t \in Seq(S) /\ Len(t) = Len(a) + Len(b)
          /\ DOMAIN t = 1 .. Len(a) + Len(b)
          /\ \A i \in 1 .. Len(a) : t[i] = a[i]
      BY <3>1, ConcatFacts, Zenon
    <3> QED
      BY <3>2, <3>3
  <2> HIDE DEF t
  <2>2. Len(a) = k - 1 /\ Len(b) = n - k /\ Len(a) + Len(b) = n - 1
    BY <1>1, <1>2, <1>3
  <2> QED
    BY <2>1, <2>2
<1> HIDE DEF t
<1>5. ASSUME NEW i \in 1 .. n - 1
      PROVE  t[i] = IF i < k THEN s[i] ELSE s[i + 1]
  <2>1. CASE i < k
    <3>1. i \in 1 .. k - 1
      BY <2>1, <1>1
    <3> QED
      BY <3>1, <2>1, <1>2, <1>4
  <2>2. CASE ~(i < k)
    <3>1. i - k + 1 \in 1 .. n - k /\ (k - 1) + (i - k + 1) = i
          /\ k + (i - k + 1) = i + 1
      BY <2>2, <1>1
    <3> QED
      BY <3>1, <2>2, <1>3, <1>4
  <2> QED
    BY <2>1, <2>2
<1>6. RemoveAt(s, k) = t
  BY DEF RemoveAt, t, a, b, n
<1> QED
  BY <1>4, <1>5, <1>6 DEF n

LEMMA RemoveFirstIs ==
  ASSUME NEW S, NEW s \in Seq(S), NEW k \in 1 .. Len(s),
         \A i \in 1 .. Len(s) : s[i] = s[k] => i = k
  PROVE  RemoveFirst(s, s[k]) = RemoveAt(s, k)
<1> DEFINE I == {i \in 1 .. Len(s) : s[i] = s[k]}
<1>1. I = {k}
  OBVIOUS
<1>2. SelectInSeq(s, LAMBDA v : v = s[k]) = IF I # {} THEN Min(I) ELSE 0
  BY DEF SelectInSeq
<1>3. k \in Nat
  BY LenProperties
<1>4. Min(I) = k
  <2>1. I \in SUBSET Nat /\ I # {}
    BY <1>1, <1>3
  <2> HIDE DEF I
  <2>2. Min(I) \in I
    BY <2>1, MinFacts
  <2> QED
    BY <2>2, <1>1
<1>5. SelectInSeq(s, LAMBDA v : v = s[k]) = k
  BY <1>1, <1>2, <1>4
<1> QED
  BY <1>5 DEF RemoveFirst

(* The slot of a block goes back. *)
LEMMA SlotBack ==
  ASSUME NEW A, NEW o, Accounted(A, o), NEW q \in A
  PROVE  Accounted(A \ {q}, xmfremd(o, q.md))
<1> DEFINE b == q.md
           left == o.used[b] - 1
           u == xmfremd(o, b)
           B == A \ {q}
<1>1. /\ A \subseteq Block /\ IsFiniteSet(A)
      /\ o \in [used : [MD -> 0 .. 3], mdbroot : Seq(MD), taken : SUBSET Blocks]
      /\ DOMAIN o.mdbroot = 1 .. Len(o.mdbroot) /\ Len(o.mdbroot) \in Nat
  BY Constants, LenProperties DEF Accounted, Osm
<1>2. b \in MD /\ themd \in MD
  BY <1>1 DEF Block, MD
<1>3. IsFiniteSet(B) /\ \A c : Count(A, c)
         = IF b = c THEN Count(B, c) + 1 ELSE Count(B, c)
  BY <1>1, CountDel
<1>4. \A c : Count(B, c) \in Nat
  BY <1>3, CountType
<1> HIDE DEF b, B
<1>5. o.used[b] \in 1 .. 3 /\ (b = themd => o.used[b] = 3)
  <2>1. Count(A, b) >= 1
    BY <1>3, <1>4
  <2>2. CASE b = themd
    <3>1. o.used[themd] = 3
      BY <2>1, <2>2, Constants DEF Accounted
    <3> QED
      BY <3>1, <2>2
  <2>3. CASE b # themd
    <3>1. b \in Blocks
      BY <1>2, <2>3 DEF MD
    <3>2. o.used[b] = Count(A, b) /\ o.used[b] \in 0 .. 3
      BY <3>1, <1>1, <1>2 DEF Accounted
    <3> QED
      BY <3>2, <2>1, <2>3
  <2> QED
    BY <2>2, <2>3
<1>6. /\ u.used = [o.used EXCEPT ![b] = left]
      /\ left = 0 => u.mdbroot = RemoveFirst(o.mdbroot, b)
      /\ left = 2 => u.mdbroot = <<b>> \o o.mdbroot
      /\ left = 1 => u.mdbroot = o.mdbroot
      /\ u.taken = o.taken
      /\ u = [used |-> u.used, mdbroot |-> u.mdbroot, taken |-> u.taken]
  <2> DEFINE c == CASE left = 0 -> RemoveFirst(o.mdbroot, b)
                    [] left = MDS_PER_BLOCK - 1 -> <<b>> \o o.mdbroot
                    [] OTHER -> o.mdbroot
  <2>1. u = [o EXCEPT !.used[b] = left, !.mdbroot = c]
    BY DEF xmfremd
  <2>2. left \in 0 .. 2
    BY <1>5
  <2> HIDE DEF left
  <2>3. /\ left = 0 => c = RemoveFirst(o.mdbroot, b)
        /\ left = 2 => c = <<b>> \o o.mdbroot
        /\ left = 1 => c = o.mdbroot
    BY <2>2, Constants
  <2> HIDE DEF c, u
  <2>4. /\ u.used = [o.used EXCEPT ![b] = left] /\ u.mdbroot = c
        /\ u.taken = o.taken
        /\ u = [used |-> u.used, mdbroot |-> u.mdbroot, taken |-> u.taken]
    BY <2>1, <1>1
  <2> QED
    BY <2>3, <2>4
<1> HIDE DEF u
<1>7. (\E i \in DOMAIN o.mdbroot : o.mdbroot[i] = b) <=> o.used[b] # 3
  BY <1>2, <1>5, Constants DEF Accounted
<1>8. \A i, j \in DOMAIN o.mdbroot : o.mdbroot[i] = o.mdbroot[j] => i = j
  BY DEF Accounted
<1> DEFINE r == u.mdbroot
<1>9. /\ r \in Seq(MD)
      /\ \A i, j \in DOMAIN r : r[i] = r[j] => i = j
      /\ \A c \in MD \ {b} : (\E i \in DOMAIN r : r[i] = c)
                               <=> \E i \in DOMAIN o.mdbroot : o.mdbroot[i] = c
      /\ (\E i \in DOMAIN r : r[i] = b) <=> left # 0
  <2> DEFINE s == o.mdbroot
             n == Len(s)
  <2>1. CASE left = 0
    <3>1. PICK k \in 1 .. n : s[k] = b
      BY <1>1, <1>5, <1>7, <2>1
    <3>2. \A i \in 1 .. n : s[i] = s[k] => i = k
      BY <1>1, <1>8
    <3>3. r = RemoveAt(s, k)
      <4>1. RemoveFirst(s, s[k]) = RemoveAt(s, k)
        BY <1>1, <3>2, RemoveFirstIs
      <4>2. r = RemoveFirst(s, b)
        BY <1>6, <2>1
      <4> QED
        BY <4>1, <4>2, <3>1
    <3>4. /\ r \in Seq(MD) /\ DOMAIN r = 1 .. n - 1
          /\ \A i \in 1 .. n - 1 : r[i] = IF i < k THEN s[i] ELSE s[i + 1]
      <4>1. s \in Seq(MD)
        BY <1>1
      <4> HIDE DEF r, s
      <4> QED
        BY <4>1, <3>3, RemoveAtFacts
    <3> HIDE DEF r
    <3>5. n \in Nat /\ k \in Nat /\ DOMAIN s = 1 .. n
      BY <1>1
    <3> HIDE DEF s, n, left
    <3>6. \A i \in 1 .. n - 1 : (IF i < k THEN i ELSE i + 1) \in 1 .. n \ {k}
      BY <3>5
    <3>7. ASSUME NEW i \in 1 .. n - 1, NEW j \in 1 .. n - 1, r[i] = r[j]
          PROVE  i = j
      <4>1. (IF i < k THEN i ELSE i + 1) = (IF j < k THEN j ELSE j + 1)
        BY <3>4, <3>5, <3>6, <3>7, <1>8 DEF s
      <4> QED
        BY <4>1, <3>5
    <3>8. \A i \in 1 .. n - 1 : r[i] # b
      BY <3>1, <3>2, <3>4, <3>6
    <3>9. ASSUME NEW c \in MD \ {b}
          PROVE  (\E i \in 1 .. n - 1 : r[i] = c) <=> \E i \in 1 .. n : s[i] = c
      <4>1. ASSUME NEW i \in 1 .. n - 1, r[i] = c
            PROVE  \E j \in 1 .. n : s[j] = c
        BY <4>1, <3>4, <3>6
      <4>2. ASSUME NEW j \in 1 .. n, s[j] = c
            PROVE  \E i \in 1 .. n - 1 : r[i] = c
        <5>1. j # k
          BY <4>2, <3>1
        <5>2. CASE j < k
          <6>1. j \in 1 .. n - 1
            BY <5>2, <3>5
          <6> QED
            BY <6>1, <5>2, <4>2, <3>4
        <5>3. CASE j > k
          <6>1. j - 1 \in 1 .. n - 1 /\ ~(j - 1 < k) /\ (j - 1) + 1 = j
            BY <5>3, <3>5
          <6> QED
            BY <6>1, <4>2, <3>4
        <5> QED
          BY <5>1, <5>2, <5>3, <3>5
      <4> QED
        BY <4>1, <4>2
    <3> QED
      BY <2>1, <3>4, <3>5, <3>7, <3>8, <3>9 DEF s
  <2>2. CASE left = 2
    <3>1. r = <<b>> \o s
      BY <1>6, <2>2
    <3>2. \A i \in DOMAIN s : s[i] # b
      BY <1>5, <1>7, <2>2
    <3>3. /\ r \in Seq(MD) /\ DOMAIN r = 1 .. n + 1 /\ r[1] = b
          /\ \A i \in 1 .. n : r[i + 1] = s[i]
      <4>1. s \in Seq(MD)
        BY <1>1
      <4> HIDE DEF r, s
      <4> QED
        BY <4>1, <3>1, <1>2, ConsFacts
    <3>4. n \in Nat /\ DOMAIN s = 1 .. n
      BY <1>1
    <3> HIDE DEF r, s, n, left
    <3>5. \A i \in 1 .. n + 1 : i # 1 => i - 1 \in 1 .. n /\ r[i] = s[i - 1]
      <4> SUFFICES ASSUME NEW i \in 1 .. n + 1, i # 1
                   PROVE  i - 1 \in 1 .. n /\ r[i] = s[i - 1]
        OBVIOUS
      <4>1. i - 1 \in 1 .. n /\ (i - 1) + 1 = i
        BY <3>4
      <4> QED
        BY <4>1, <3>3
    <3>6. ASSUME NEW i \in 1 .. n + 1, NEW j \in 1 .. n + 1, r[i] = r[j]
          PROVE  i = j
      <4>0. ASSUME NEW l \in 1 .. n + 1, l # 1
            PROVE  r[l] # r[1]
        <5>1. l - 1 \in DOMAIN s /\ r[l] = s[l - 1]
          BY <4>0, <3>4, <3>5
        <5>2. s[l - 1] # b
          BY <5>1, <3>2
        <5> QED
          BY <5>1, <5>2, <3>3
      <4>1. CASE i = 1
        BY <4>0, <4>1, <3>6
      <4>2. CASE j = 1
        BY <4>0, <4>2, <3>6
      <4>3. CASE i # 1 /\ j # 1
        <5>1. /\ i - 1 \in 1 .. n /\ r[i] = s[i - 1]
              /\ j - 1 \in 1 .. n /\ r[j] = s[j - 1]
          BY <4>3, <3>5
        <5>2. s[i - 1] = s[j - 1]
          BY <5>1, <3>6
        <5>3. i - 1 = j - 1
          BY <5>1, <5>2, <1>8, <3>4 DEF s
        <5> QED
          BY <5>3
      <4> QED
        BY <4>1, <4>2, <4>3
    <3>7. ASSUME NEW c \in MD \ {b}
          PROVE  (\E i \in 1 .. n + 1 : r[i] = c) <=> \E i \in 1 .. n : s[i] = c
      <4>1. \A i \in 1 .. n : i + 1 \in 1 .. n + 1
        BY <3>4
      <4> QED
        BY <4>1, <3>3, <3>5
    <3>8. 1 \in 1 .. n + 1
      BY <3>4
    <3>9. (\E i \in 1 .. n + 1 : r[i] = b) /\ left # 0
      BY <2>2, <3>3, <3>8
    <3> QED
      BY <3>3, <3>4, <3>6, <3>7, <3>9 DEF s
  <2>3. CASE left = 1
    <3>1. r = s
      BY <1>6, <2>3
    <3>2. \E i \in DOMAIN s : s[i] = b
      BY <1>5, <1>7, <2>3
    <3> QED
      BY <3>1, <3>2, <1>1, <1>8, <2>3
  <2> QED
    BY <2>1, <2>2, <2>3, <1>5
<1>10. /\ u.used \in [MD -> 0 .. 3] /\ u.used[b] = left /\ left \in 0 .. 2
       /\ \A c \in MD \ {b} : u.used[c] = o.used[c]
  BY <1>1, <1>2, <1>5, <1>6
<1>11. u \in Osm
  BY <1>1, <1>6, <1>9, <1>10, Constants DEF Osm
<1> HIDE DEF left, r
<1>12. \A c \in MD : (\E i \in DOMAIN u.mdbroot : u.mdbroot[i] = c)
                       <=> u.used[c] \notin {0, MDS_PER_BLOCK}
  <2> TAKE c \in MD
  <2>1. CASE c = b
    BY <2>1, <1>9, <1>10, Constants DEF r
  <2>2. CASE c # b
    BY <2>2, <1>9, <1>10 DEF r, Accounted
  <2> QED
    BY <2>1, <2>2
<1>13. \A c \in Blocks : u.used[c] = Count(B, c)
  <2> TAKE c \in Blocks
  <2>1. c \in MD /\ o.used[c] = Count(A, c) /\ Count(B, c) \in Nat
    BY <1>4 DEF MD, Accounted
  <2>2. CASE c = b
    BY <2>1, <2>2, <1>3, <1>10 DEF left
  <2>3. CASE c # b
    BY <2>1, <2>3, <1>3, <1>10
  <2> QED
    BY <2>2, <2>3
<1>14. \A c \in u.taken : u.used[c] = 0
  <2> TAKE c \in u.taken
  <2>1. c \in MD /\ o.used[c] = 0
    BY <1>1, <1>6 DEF MD, Accounted
  <2>2. c # b
    BY <2>1, <1>5
  <2> QED
    BY <2>1, <2>2, <1>10
<1>15. /\ u.used[themd] \in MDS_PER_BLOCK - 1 .. MDS_PER_BLOCK
       /\ Count(B, themd) = 0
            \/ (Count(B, themd) = 1 /\ u.used[themd] = MDS_PER_BLOCK)
  <2>1. CASE b = themd
    <3>1. u.used[themd] = 2
      BY <2>1, <1>5, <1>10 DEF left
    <3>2. Count(A, themd) <= 1 /\ Count(B, themd) = 0
      BY <2>1, <1>3, <1>4 DEF Accounted
    <3> QED
      BY <3>1, <3>2, Constants
  <2>2. CASE b # themd
    BY <2>2, <1>2, <1>3, <1>10 DEF Accounted
  <2> QED
    BY <2>1, <2>2
<1>16. B \subseteq Block /\ \A m \in B : m.start = StStart => m.md = themd
  BY <1>1 DEF B, Accounted
<1>17. Accounted(B, u)
  BY <1>3, <1>9, <1>11, <1>12, <1>13, <1>14, <1>15, <1>16 DEF Accounted, r
<1> QED
  BY <1>17 DEF B, u, b

(* Or it is lost with themd, which is no slot. *)
LEMMA SlotKept ==
  ASSUME NEW A, NEW o, Accounted(A, o), NEW q \in A, q.md = themd
  PROVE  Accounted(A \ {q}, o)
<1> DEFINE B == A \ {q}
<1>1. A \subseteq Block /\ IsFiniteSet(A)
  BY DEF Accounted
<1>2. IsFiniteSet(B) /\ \A c : Count(A, c)
         = IF q.md = c THEN Count(B, c) + 1 ELSE Count(B, c)
  BY <1>1, CountDel
<1>3. \A c : Count(B, c) \in Nat
  BY <1>2, CountType
<1>4. B \subseteq Block /\ \A m \in B : m.start = StStart => m.md = themd
  BY <1>1 DEF Accounted
<1> HIDE DEF B
<1>5. themd \notin Blocks
  BY Constants
<1>6. \A c \in Blocks : Count(B, c) = Count(A, c)
  BY <1>2, <1>5
<1>7. Count(B, themd) = 0
  <2>1. Count(A, themd) = Count(B, themd) + 1 /\ Count(B, themd) \in Nat
    BY <1>2, <1>3
  <2>2. Count(A, themd) = 0 \/ Count(A, themd) = 1
    BY DEF Accounted
  <2> QED
    BY <2>1, <2>2
<1>8. Accounted(B, o)
  BY <1>2, <1>4, <1>6, <1>7 DEF Accounted
<1> QED
  BY <1>8 DEF B

(***************************************************************************)
(* The blocks as a set.                                                    *)
(***************************************************************************)
LEMMA BlockFacts ==
  ASSUME NEW m \in Block
  PROVE  /\ m.md \in MD /\ m.start \in Nat /\ m.length \in Nat \ {0}
         /\ m.own \in Nat
         /\ m = [md |-> m.md, start |-> m.start, length |-> m.length,
                 own |-> m.own]
         /\ \A a : a \in Bytes(m) <=> /\ a \in Int /\ m.start <= a
                                      /\ a < m.start + m.length
<1>1. /\ m.md \in MD /\ m.start \in Nat /\ m.length \in Nat \ {0}
      /\ m.own \in Nat
      /\ m = [md |-> m.md, start |-> m.start, length |-> m.length,
              own |-> m.own]
  BY DEF Block, MD
<1> QED
  BY <1>1 DEF Bytes

LEMMA OwnChanged ==
  ASSUME NEW m \in Block, NEW x \in Nat
  PROVE  LET r == [m EXCEPT !.own = x]
         IN  /\ r \in Block /\ r.md = m.md /\ r.start = m.start
             /\ r.length = m.length /\ r.own = x
BY DEF Block

LEMMA LengthChanged ==
  ASSUME NEW m \in Block, NEW x \in Nat \ {0}
  PROVE  LET r == [m EXCEPT !.length = x]
         IN  /\ r \in Block /\ r.md = m.md /\ r.start = m.start
             /\ r.length = x /\ r.own = m.own
BY DEF Block

(* A block in bytes that are not in use is new. *)
LEMMA NewBlock ==
  ASSUME NEW A, A \subseteq Block, NEW f \in Block,
         \A m \in A : Apart(m, f)
  PROVE  f \notin A
<1> SUFFICES ASSUME f \in A
             PROVE  FALSE
  OBVIOUS
<1>1. Apart(f, f) /\ f.start \in Nat /\ f.length \in Nat \ {0}
  BY BlockFacts
<1> QED
  BY <1>1 DEF Apart

(* A block is put where another one, or part of it, has been. *)
LEMMA Within ==
  ASSUME NEW A, A \subseteq Block, Tidy(A), NEW q \in A, NEW r \in Block,
         q.start <= r.start, r.start + r.length <= q.start + q.length
  PROVE  /\ \A m \in A \ {q} : Apart(m, r) /\ Apart(r, m)
         /\ r \notin A \ {q}
         /\ Tidy((A \ {q}) \cup {r})
<1>1. q \in Block
  OBVIOUS
<1>2. /\ q.start \in Nat /\ q.length \in Nat \ {0}
      /\ r.start \in Nat /\ r.length \in Nat \ {0} /\ StStart <= q.start
      /\ StStart \in Nat
  BY <1>1, BlockFacts, Constants DEF Tidy
<1>3. ASSUME NEW m \in A \ {q}
      PROVE  Apart(m, r) /\ Apart(r, m)
  <2>1. Apart(m, q) /\ m \in Block
    BY DEF Tidy
  <2>2. m.start \in Nat /\ m.length \in Nat \ {0}
    BY <2>1, BlockFacts
  <2> QED
    BY <2>1, <2>2, <1>2 DEF Apart
<1>4. r \notin A \ {q}
  BY <1>3, NewBlock
<1>5. Tidy((A \ {q}) \cup {r})
  <2>1. \A m, n \in (A \ {q}) \cup {r} : m # n => Apart(m, n)
    BY <1>3 DEF Tidy
  <2>2. StStart <= r.start
    BY <1>2
  <2> QED
    BY <2>1, <2>2 DEF Tidy
<1> QED
  BY <1>3, <1>4, <1>5

LEMMA CoverReplaced ==
  ASSUME NEW A, NEW q \in A, NEW R, Cover(R) = Bytes(q)
  PROVE  Cover((A \ {q}) \cup R) = Cover(A)
BY DEF Cover

(* One block. *)
LEMMA SamePlace ==
  ASSUME NEW A, NEW o, Sound(A, o), NEW q \in A, NEW r \in Block,
         r.start = q.start, r.length = q.length, r.md = q.md
  PROVE  /\ r \notin A \ {q}
         /\ Sound((A \ {q}) \cup {r}, o)
         /\ Cover((A \ {q}) \cup {r}) = Cover(A)
<1>1. A \subseteq Block /\ q \in Block /\ Tidy(A) /\ Accounted(A, o)
  BY DEF Sound, Accounted
<1>2. q.start \in Nat /\ q.length \in Nat
  BY <1>1, BlockFacts
<1>3. q.start <= r.start /\ r.start + r.length <= q.start + q.length
  BY <1>2
<1>4. r \notin A \ {q} /\ Tidy((A \ {q}) \cup {r})
  BY <1>1, <1>3, Within
<1>5. Accounted((A \ {q}) \cup {r}, o)
  BY <1>1, <1>4, Replaced
<1>6. Cover({r}) = Bytes(q)
  BY DEF Cover, Bytes
<1>7. Cover((A \ {q}) \cup {r}) = Cover(A)
  BY <1>6, CoverReplaced
<1> QED
  BY <1>4, <1>5, <1>7 DEF Sound

(* Split in two, of which the second has a new descriptor. *)
Halves(q, r, f) ==
  /\ r.md = q.md /\ r.start = q.start
  /\ f.start = q.start + r.length /\ q.length = r.length + f.length

LEMMA Split ==
  ASSUME NEW A, NEW o, Sound(A, o), NEW q \in A,
         NEW r \in Block, NEW f \in Block, Halves(q, r, f),
         f.md = xmgetmd(o).md, f.md # NoMD
  PROVE  LET A1 == (A \ {q}) \cup {r, f}
         IN  /\ r \notin A \ {q} /\ f \notin (A \ {q}) \cup {r} /\ f \notin A
             /\ Sound(A1, xmgetmd(o).osm)
             /\ Cover(A1) = Cover(A)
<1> DEFINE B == A \ {q}
           C == B \cup {r}
           A1 == C \cup {f}
<1>1. A \subseteq Block /\ q \in Block /\ Tidy(A) /\ Accounted(A, o)
  BY DEF Sound, Accounted
<1>2. /\ q.start \in Nat /\ q.length \in Nat \ {0} /\ StStart <= q.start
      /\ r.start \in Nat /\ r.length \in Nat \ {0}
      /\ f.start \in Nat /\ f.length \in Nat \ {0} /\ StStart \in Nat
  BY <1>1, BlockFacts, Constants DEF Tidy
<1>0. /\ r.md = q.md /\ r.start = q.start
      /\ f.start = q.start + r.length /\ q.length = r.length + f.length
  BY DEF Halves
<1>3. /\ q.start <= r.start /\ r.start + r.length <= q.start + q.length
      /\ q.start <= f.start /\ f.start + f.length <= q.start + q.length
      /\ Apart(r, f) /\ Apart(f, r) /\ f.start > StStart
  BY <1>0, <1>2 DEF Apart
<1>4. r \notin B /\ Tidy(C)
  BY <1>1, <1>3, Within
<1>5. (\A m \in B : Apart(m, f) /\ Apart(f, m)) /\ f \notin B
  BY <1>1, <1>3, Within
<1>6. f # q /\ f # r
  BY <1>0, <1>2
<1>7. Accounted(C, o)
  BY <1>0, <1>1, <1>4, Replaced
<1>8. Accounted(A1, xmgetmd(o).osm)
  <2> HIDE DEF C
  <2>1. f \notin C /\ f.start # StStart
    BY <1>2, <1>3, <1>5, <1>6 DEF C
  <2> QED
    BY <2>1, <1>7, SlotGot
<1>9. Tidy(A1)
  BY <1>3, <1>4, <1>5, <1>2 DEF Tidy
<1>10. Cover(A1) = Cover(A)
  <2>1. Cover({r, f}) = Bytes(q)
    <3>1. Cover({r, f}) = Bytes(r) \cup Bytes(f)
      BY DEF Cover
    <3>2. ASSUME NEW a
          PROVE  a \in Bytes(r) \cup Bytes(f) <=> a \in Bytes(q)
      BY <1>0, <1>1, <1>2, BlockFacts
    <3> QED
      BY <3>1, <3>2
  <2>2. A1 = B \cup {r, f}
    OBVIOUS
  <2> HIDE DEF A1
  <2> QED
    BY <2>1, <2>2, CoverReplaced
<1>11. A1 = (A \ {q}) \cup {r, f}
  OBVIOUS
<1> HIDE DEF A1
<1> QED
  BY <1>4, <1>5, <1>6, <1>8, <1>9, <1>10, <1>11 DEF Sound

(* A block is taken out, and its descriptor given back. *)
LEMMA TakenOut ==
  ASSUME NEW A, NEW o, Sound(A, o), NEW q \in A
  PROVE  /\ Sound(A \ {q}, xmfremd(o, q.md))
         /\ q.md = themd => Sound(A \ {q}, o)
         /\ Cover(A \ {q}) = Cover(A) \ Bytes(q)
<1>1. A \subseteq Block /\ q \in Block /\ Tidy(A) /\ Accounted(A, o)
  BY DEF Sound, Accounted
<1>2. Accounted(A \ {q}, xmfremd(o, q.md))
  BY <1>1, SlotBack
<1>3. q.md = themd => Accounted(A \ {q}, o)
  BY <1>1, SlotKept
<1>4. Tidy(A \ {q})
  BY <1>1 DEF Tidy
<1>5. Cover(A \ {q}) = Cover(A) \ Bytes(q)
  <2>1. ASSUME NEW m \in A \ {q}, NEW a \in Bytes(m)
        PROVE  a \notin Bytes(q)
    <3>1. Apart(m, q) /\ m \in Block
      BY <1>1 DEF Tidy
    <3>2. /\ a \in Int /\ m.start <= a /\ a < m.start + m.length
          /\ m.start \in Nat /\ m.length \in Nat
          /\ q.start \in Nat /\ q.length \in Nat
      BY <2>1, <3>1, <1>1, BlockFacts
    <3>3. a \in Bytes(q) => q.start <= a /\ a < q.start + q.length
      BY <1>1, BlockFacts
    <3> QED
      BY <3>1, <3>2, <3>3 DEF Apart
  <2> QED
    BY <2>1 DEF Cover
<1> QED
  BY <1>2, <1>3, <1>4, <1>5 DEF Sound

(* Two that touch become one. *)
OneOf(q, r, t) ==
  t.md = q.md /\ t.start = q.start /\ t.length = q.length + r.length

LEMMA Joined ==
  ASSUME NEW A, NEW o, Sound(A, o), NEW q \in A, NEW r \in A, Touches(q, r),
         NEW t \in Block, OneOf(q, r, t)
  PROVE  LET A1 == (A \ {q, r}) \cup {t}
         IN  /\ q # r /\ t \notin A
             /\ Sound(A1, xmfremd(o, r.md))
             /\ Cover(A1) = Cover(A)
<1> DEFINE B == A \ {r}
           A1 == (B \ {q}) \cup {t}
           u == xmfremd(o, r.md)
<1>0. /\ r.start = q.start + q.length
      /\ t.md = q.md /\ t.start = q.start /\ t.length = q.length + r.length
  BY DEF Touches, OneOf
<1>1. A \subseteq Block /\ q \in Block /\ r \in Block /\ Tidy(A)
  BY DEF Sound, Accounted
<1>2. /\ q.start \in Nat /\ q.length \in Nat \ {0} /\ StStart <= q.start
      /\ r.start \in Nat /\ r.length \in Nat \ {0} /\ StStart \in Nat
  BY <1>1, BlockFacts, Constants DEF Tidy
<1>3. q # r /\ t # q /\ t # r
  BY <1>0, <1>2
<1>4. Sound(B, u) /\ Cover(B) = Cover(A) \ Bytes(r)
  BY TakenOut
<1> HIDE DEF u
<1>5. ASSUME NEW m \in B \ {q}
      PROVE  Apart(m, t) /\ Apart(t, m)
  <2>1. Apart(m, q) /\ Apart(m, r) /\ m \in Block
    BY <1>1 DEF Tidy
  <2>2. m.start \in Nat /\ m.length \in Nat \ {0}
    BY <2>1, BlockFacts
  <2> QED
    BY <2>1, <2>2, <1>0, <1>2 DEF Apart
<1>6. t \notin B \ {q}
  <2>1. B \ {q} \subseteq Block
    BY <1>1
  <2> HIDE DEF B
  <2> QED
    BY <2>1, <1>5, NewBlock
<1>7. Accounted(A1, u)
  <2>1. q \in B /\ Accounted(B, u)
    BY <1>3, <1>4 DEF Sound
  <2> HIDE DEF B
  <2> QED
    BY <2>1, <1>0, <1>6, Replaced
<1>8. Tidy(A1)
  <2>1. Tidy(B)
    BY <1>4 DEF Sound
  <2> QED
    BY <2>1, <1>0, <1>2, <1>5 DEF Tidy
<1>9. Cover(A1) = Cover(A)
  <2>1. Cover({t}) = Bytes(q) \cup Bytes(r)
    <3>1. Cover({t}) = Bytes(t)
      BY DEF Cover
    <3>2. ASSUME NEW a
          PROVE  a \in Bytes(t) <=> a \in Bytes(q) \cup Bytes(r)
      BY <1>0, <1>1, <1>2, BlockFacts
    <3> QED
      BY <3>1, <3>2
  <2> QED
    BY <2>1 DEF Cover
<1>10. A1 = (A \ {q, r}) \cup {t} /\ t \notin A
  BY <1>3, <1>6
<1> HIDE DEF A1
<1> QED
  BY <1>3, <1>7, <1>8, <1>9, <1>10 DEF Sound, u

(* New memory: a block of its own, or joined to one that it touches. *)
LEMMA Added ==
  ASSUME NEW A, NEW o, Sound(A, o),
         NEW f \in Block, f.md = xmgetmd(o).md, f.md # NoMD,
         f.start > StStart, Bytes(f) \cap Cover(A) = {}
  PROVE  /\ f \notin A
         /\ Sound(A \cup {f}, xmgetmd(o).osm)
         /\ Cover(A \cup {f}) = Cover(A) \cup Bytes(f)
<1>1. A \subseteq Block /\ Tidy(A) /\ Accounted(A, o)
  BY DEF Sound, Accounted
<1>2. f.start \in Nat /\ f.length \in Nat \ {0} /\ StStart \in Nat
  BY BlockFacts, Constants
<1>3. ASSUME NEW m \in A
      PROVE  Apart(m, f) /\ Apart(f, m)
  <2>1. Bytes(m) \cap Bytes(f) = {} /\ m \in Block
    BY <1>1 DEF Cover
  <2>2. m.start \in Nat /\ m.length \in Nat \ {0}
    BY <2>1, BlockFacts
  <2>3. /\ m.start \in Bytes(m) /\ f.start \in Bytes(f)
        /\ m.start \in Bytes(f) <=> f.start <= m.start
                                    /\ m.start < f.start + f.length
        /\ f.start \in Bytes(m) <=> m.start <= f.start
                                    /\ f.start < m.start + m.length
    BY <2>1, <2>2, <1>2, BlockFacts
  <2> QED
    BY <2>1, <2>2, <2>3, <1>2 DEF Apart
<1>4. f \notin A
  BY <1>1, <1>3, NewBlock
<1>5. f.start # StStart
  BY <1>2
<1>6. Accounted(A \cup {f}, xmgetmd(o).osm)
  BY <1>1, <1>4, <1>5, SlotGot
<1>7. Tidy(A \cup {f})
  BY <1>1, <1>2, <1>3 DEF Tidy
<1>8. Cover(A \cup {f}) = Cover(A) \cup Bytes(f)
  BY DEF Cover
<1> QED
  BY <1>4, <1>6, <1>7, <1>8 DEF Sound

MoreCover(A1, A, N) == Cover(A1) = Cover(A) \cup N

LEMMA Extended ==
  ASSUME NEW A, NEW o, Sound(A, o), NEW q \in A, q.start > StStart,
         NEW t \in Block, t.md = q.md, t.start > StStart,
         NEW N, Bytes(t) = Bytes(q) \cup N, N \cap Cover(A) = {}
  PROVE  /\ t \notin A \ {q}
         /\ Sound((A \ {q}) \cup {t}, o)
         /\ MoreCover((A \ {q}) \cup {t}, A, N)
<1> DEFINE B == A \ {q}
           A1 == B \cup {t}
<1>1. A \subseteq Block /\ q \in Block /\ Tidy(A) /\ Accounted(A, o)
  BY DEF Sound, Accounted
<1>2. /\ q.start \in Nat /\ q.length \in Nat \ {0}
      /\ t.start \in Nat /\ t.length \in Nat \ {0} /\ StStart \in Nat
  BY <1>1, BlockFacts, Constants
<1>3. ASSUME NEW m \in B
      PROVE  Apart(m, t) /\ Apart(t, m)
  <2>1. Bytes(m) \cap N = {} /\ m \in Block /\ Apart(m, q)
    BY <1>1 DEF Cover, Tidy
  <2>2. m.start \in Nat /\ m.length \in Nat \ {0}
    BY <2>1, BlockFacts
  <2>3. Bytes(m) \cap Bytes(q) = {}
    <3> SUFFICES ASSUME NEW a \in Bytes(m), a \in Bytes(q)
                 PROVE  FALSE
      OBVIOUS
    <3>1. /\ a \in Int /\ m.start <= a /\ a < m.start + m.length
          /\ q.start <= a /\ a < q.start + q.length
      BY <1>1, <2>1, BlockFacts
    <3> QED
      BY <3>1, <2>1, <2>2, <1>2 DEF Apart
  <2>4. Bytes(m) \cap Bytes(t) = {}
    BY <2>1, <2>3
  <2>5. /\ m.start \in Bytes(m) /\ t.start \in Bytes(t)
        /\ m.start \in Bytes(t) <=> t.start <= m.start
                                    /\ m.start < t.start + t.length
        /\ t.start \in Bytes(m) <=> m.start <= t.start
                                    /\ t.start < m.start + m.length
    BY <2>1, <2>2, <1>2, BlockFacts
  <2> QED
    BY <2>2, <2>4, <2>5, <1>2 DEF Apart
<1>4. t \notin B
  <2>1. B \subseteq Block
    BY <1>1
  <2> HIDE DEF B
  <2> QED
    BY <2>1, <1>3, NewBlock
<1>5. Accounted(A1, o)
  <2>1. t.start # StStart /\ q.start # StStart
    BY <1>2
  <2> QED
    BY <2>1, <1>1, <1>4, Replaced
<1>6. Tidy(A1)
  BY <1>1, <1>2, <1>3 DEF Tidy
<1>7. Cover(A1) = Cover(A) \cup N
  BY DEF Cover
<1> QED
  BY <1>4, <1>5, <1>6, <1>7 DEF Sound, MoreCover

(***************************************************************************)
(* The lists.                                                              *)
(***************************************************************************)
LEMMA MemTypes ==
  ASSUME NEW s, MemOK(s)
  PROVE  /\ s.mfl \in [Pools -> Seq(Block)]
         /\ s.mal \in [Pools -> SUBSET Block]
         /\ s.osm \in Osm
         /\ s = [mfl |-> s.mfl, mal |-> s.mal, osm |-> s.osm]
         /\ \A p \in Pools : InList(s, p) \subseteq All(s)
         /\ All(s) \subseteq Block /\ IsFiniteSet(All(s))
         /\ Sound(All(s), s.osm)
<1>1. \A p \in Pools : InList(s, p) \subseteq All(s)
  BY DEF Pools, All
<1> QED
  BY <1>1 DEF MemOK, Sound, Accounted

LEMMA StartsDiffer ==
  ASSUME NEW A, NEW o, Sound(A, o), NEW m \in A, NEW n \in A,
         m.start = n.start
  PROVE  m = n
<1>1. m \in Block /\ n \in Block /\ (m # n => Apart(m, n))
  BY DEF Sound, Accounted, Tidy
<1>2. /\ m.start \in Nat /\ m.length \in Nat \ {0}
      /\ n.start \in Nat /\ n.length \in Nat \ {0}
  BY <1>1, BlockFacts
<1> QED
  BY <1>1, <1>2 DEF Apart

LEMMA FindPool ==
  ASSUME NEW s, MemOK(s), NEW p \in Pools, NEW m \in InList(s, p)
  PROVE  find_mpb(m.start) = p /\ m \in Block /\ StStart <= m.start
<1>1. m \in All(s) /\ m \in Block /\ StStart <= m.start
  BY MemTypes DEF Sound, Tidy
<1>2. InPool(p, m)
  BY DEF MemOK
<1>3. /\ m.start \in Nat /\ m.length \in Nat \ {0}
      /\ StStart \in Nat /\ StSize \in Nat
  BY <1>1, BlockFacts, Constants
<1>4. p = "st" => m.start \in StStart .. StStart + StSize - 1
  BY <1>1, <1>2, <1>3 DEF InPool
<1>5. p = "alt" => m.start \notin StStart .. StStart + StSize - 1
  BY <1>1, <1>2, <1>3 DEF InPool
<1> QED
  BY <1>1, <1>4, <1>5 DEF find_mpb, Pools

LEMMA BlockAtIs ==
  ASSUME NEW s, MemOK(s), NEW p \in Pools, NEW m \in s.mal[p]
  PROVE  /\ find_mpb(m.start) = p
         /\ IsBlock(s, m.start)
         /\ BlockAt(s, m.start) = m
<1>1. m \in InList(s, p)
  BY DEF InList
<1>2. find_mpb(m.start) = p
  BY <1>1, FindPool
<1>3. ASSUME NEW n \in s.mal[p], n.start = m.start
      PROVE  n = m
  <2>1. n \in All(s) /\ m \in All(s) /\ Sound(All(s), s.osm)
    BY MemTypes DEF InList
  <2> QED
    BY <2>1, <1>3, StartsDiffer
<1> QED
  BY <1>2, <1>3 DEF IsBlock, BlockAt

LEMMA IsBlockIs ==
  ASSUME NEW s, MemOK(s), NEW addr, IsBlock(s, addr)
  PROVE  /\ find_mpb(addr) \in Pools
         /\ BlockAt(s, addr) \in s.mal[find_mpb(addr)]
         /\ BlockAt(s, addr).start = addr
         /\ BlockAt(s, addr) \in Block
         /\ BlockAt(s, addr) \in All(s)
<1>1. find_mpb(addr) \in Pools
  BY DEF find_mpb, Pools
<1>2. PICK m \in s.mal[find_mpb(addr)] : m.start = addr
  BY DEF IsBlock
<1>3. BlockAt(s, addr) = m
  BY <1>1, <1>2, BlockAtIs
<1>4. m \in InList(s, find_mpb(addr))
  BY DEF InList
<1> QED
  BY <1>1, <1>2, <1>3, <1>4, MemTypes

(* The lists of one pool change: the blocks R go, the blocks N come. *)
With(s, p, fl1, al1, o1) ==
  [mfl |-> [s.mfl EXCEPT ![p] = fl1], mal |-> [s.mal EXCEPT ![p] = al1],
   osm |-> o1]

(* Memory is in order as before, and none is lost. *)
Kept(s, t) == MemOK(t) /\ Cover(All(t)) = Cover(All(s))

Changed(s, p, fl1, al1, o1, R, N) ==
  /\ fl1 \in Seq(Block) /\ al1 \in SUBSET Block
  /\ Once(fl1) /\ ToSet(fl1) \cap al1 = {}
  /\ \A m \in N : InPool(p, m)
  /\ p = "st" => Sorted(fl1)
  /\ R \subseteq InList(s, p)
  /\ ToSet(fl1) \cup al1 = (InList(s, p) \ R) \cup N
  /\ Sound((All(s) \ R) \cup N, o1)

LEMMA PoolStep ==
  ASSUME NEW s, MemOK(s), NEW p \in Pools,
         NEW fl1, NEW al1, NEW o1, NEW R, NEW N,
         Changed(s, p, fl1, al1, o1, R, N)
  PROVE  /\ MemOK(With(s, p, fl1, al1, o1))
         /\ All(With(s, p, fl1, al1, o1)) = (All(s) \ R) \cup N
<1> DEFINE t == With(s, p, fl1, al1, o1)
<1> USE DEF Changed
<1>1. /\ s.mfl \in [Pools -> Seq(Block)] /\ s.mal \in [Pools -> SUBSET Block]
      /\ fl1 \in Seq(Block) /\ al1 \in SUBSET Block
  BY MemTypes
<1>2. o1 \in Osm
  BY DEF Sound, Accounted
<1>0. t = [mfl |-> [s.mfl EXCEPT ![p] = fl1],
           mal |-> [s.mal EXCEPT ![p] = al1], osm |-> o1]
  BY DEF With
<1>3. /\ t.mfl \in [Pools -> Seq(Block)] /\ t.mal \in [Pools -> SUBSET Block]
      /\ t.osm = o1
      /\ t \in [mfl : [Pools -> Seq(Block)], mal : [Pools -> SUBSET Block],
                osm : Osm]
      /\ t.mfl[p] = fl1 /\ t.mal[p] = al1
      /\ \A q \in Pools \ {p} : t.mfl[q] = s.mfl[q] /\ t.mal[q] = s.mal[q]
  BY <1>0, <1>1, <1>2
<1> HIDE DEF t, Changed
<1>4. /\ InList(t, p) = (InList(s, p) \ R) \cup N
      /\ \A q \in Pools \ {p} : InList(t, q) = InList(s, q)
  BY <1>3 DEF InList, Changed
<1>5. \A q \in Pools \ {p} : InList(s, q) \cap R = {}
  <2> SUFFICES ASSUME NEW q \in Pools, q # p, NEW m \in R, m \in InList(s, q)
               PROVE  FALSE
    OBVIOUS
  <2>1. find_mpb(m.start) = q
    BY FindPool
  <2>2. m \in InList(s, p)
    BY DEF Changed
  <2>3. find_mpb(m.start) = p
    BY <2>2, FindPool
  <2> QED
    BY <2>1, <2>3
<1>6. All(t) = (All(s) \ R) \cup N
  <2>1. CASE p = "st"
    <3>1. "alt" \in Pools \ {p}
      BY <2>1 DEF Pools
    <3> QED
      BY <2>1, <3>1, <1>4, <1>5 DEF All
  <2>2. CASE p = "alt"
    <3>1. "st" \in Pools \ {p}
      BY <2>2 DEF Pools
    <3> QED
      BY <2>2, <3>1, <1>4, <1>5 DEF All
  <2> QED
    BY <2>1, <2>2 DEF Pools
<1>7. ASSUME NEW q \in Pools
      PROVE  /\ Once(t.mfl[q])
             /\ ToSet(t.mfl[q]) \cap t.mal[q] = {}
             /\ \A m \in InList(t, q) : InPool(q, m)
  <2>1. CASE q = p
    <3>1. \A m \in InList(s, p) : InPool(p, m)
      BY DEF MemOK
    <3>2. \A m \in InList(t, p) : InPool(p, m)
      BY <3>1, <1>4 DEF Changed
    <3> QED
      BY <2>1, <3>2, <1>3 DEF Changed
  <2>2. CASE q # p
    BY <2>2, <1>3, <1>4 DEF MemOK
  <2> QED
    BY <2>1, <2>2
<1>8. Sorted(t.mfl["st"])
  <2>1. CASE p = "st"
    BY <2>1, <1>3 DEF Changed
  <2>2. CASE p # "st"
    <3>1. "st" \in Pools \ {p}
      BY <2>2 DEF Pools
    <3> QED
      BY <3>1, <1>3 DEF MemOK
  <2> QED
    BY <2>1, <2>2
<1>9. MemOK(t)
  <2>1. Sound(All(t), t.osm)
    BY <1>3, <1>6 DEF Changed
  <2> QED
    BY <2>1, <1>3, <1>7, <1>8 DEF MemOK
<1> QED
  BY <1>6, <1>9 DEF t

(* The allocated blocks, of both pools. *)
LEMMA AllocFacts ==
  ASSUME NEW s, MemOK(s)
  PROVE  /\ Alloc(s) \subseteq All(s) /\ Alloc(s) \subseteq Block
         /\ \A m \in Alloc(s) : /\ IsBlock(s, m.start)
                                /\ BlockAt(s, m.start) = m
                                /\ m \in s.mal[find_mpb(m.start)]
                                /\ StStart <= m.start
         /\ \A a : IsBlock(s, a) => /\ BlockAt(s, a) \in Alloc(s)
                                    /\ BlockAt(s, a).start = a
<1>1. Alloc(s) \subseteq All(s) /\ All(s) \subseteq Block
  BY MemTypes DEF Alloc, All, InList
<1>2. ASSUME NEW m \in Alloc(s)
      PROVE  /\ IsBlock(s, m.start) /\ BlockAt(s, m.start) = m
             /\ m \in s.mal[find_mpb(m.start)]
             /\ StStart <= m.start
  <2>1. PICK p \in Pools : m \in s.mal[p]
    BY DEF Alloc, Pools
  <2>2. m \in InList(s, p)
    BY <2>1 DEF InList
  <2> QED
    BY <2>1, <2>2, BlockAtIs, FindPool
<1>3. ASSUME NEW a, IsBlock(s, a)
      PROVE  BlockAt(s, a) \in Alloc(s) /\ BlockAt(s, a).start = a
  <2>1. /\ find_mpb(a) \in Pools
        /\ BlockAt(s, a) \in s.mal[find_mpb(a)] /\ BlockAt(s, a).start = a
    BY <1>3, IsBlockIs
  <2> QED
    BY <2>1 DEF Pools, Alloc
<1> QED
  BY <1>1, <1>2, <1>3

AlChanged(s, p, al1, R, N) ==
  R \subseteq s.mal[p] /\ al1 = (s.mal[p] \ R) \cup N

LEMMA AllocStep ==
  ASSUME NEW s, MemOK(s), NEW p \in Pools, NEW fl1, NEW al1, NEW o1,
         NEW R, NEW N, AlChanged(s, p, al1, R, N)
  PROVE  Alloc(With(s, p, fl1, al1, o1)) = (Alloc(s) \ R) \cup N
<1> DEFINE t == With(s, p, fl1, al1, o1)
<1>0. R \subseteq s.mal[p] /\ al1 = (s.mal[p] \ R) \cup N
  BY DEF AlChanged
<1>1. s.mal \in [Pools -> SUBSET Block]
  BY MemTypes
<1>2. \A q \in Pools \ {p} : s.mal[q] \cap R = {}
  <2> SUFFICES ASSUME NEW q \in Pools, q # p, NEW m \in R, m \in s.mal[q]
               PROVE  FALSE
    OBVIOUS
  <2>1. m \in s.mal[p]
    BY <1>0
  <2>2. find_mpb(m.start) = q /\ find_mpb(m.start) = p
    BY <2>1, BlockAtIs
  <2> QED
    BY <2>2
<1>3. /\ t.mal[p] = (s.mal[p] \ R) \cup N
      /\ \A q \in Pools \ {p} : t.mal[q] = s.mal[q]
  BY <1>0, <1>1 DEF With
<1> HIDE DEF t
<1>4. CASE p = "st"
  <2>1. "alt" \in Pools \ {p}
    BY <1>4 DEF Pools
  <2> QED
    BY <2>1, <1>2, <1>3, <1>4 DEF Alloc, t
<1>5. CASE p = "alt"
  <2>1. "st" \in Pools \ {p}
    BY <1>5 DEF Pools
  <2> QED
    BY <2>1, <1>2, <1>3, <1>5 DEF Alloc, t
<1> QED
  BY <1>4, <1>5 DEF Pools

(* An allocated block is replaced by one in its place. *)
LEMMA Relabelled ==
  ASSUME NEW s, MemOK(s), NEW p \in Pools, NEW m \in s.mal[p], NEW r \in Block,
         r.start = m.start, r.length = m.length, r.md = m.md
  PROVE  LET al1 == (s.mal[p] \ {m}) \cup {r}
             t == With(s, p, s.mfl[p], al1, s.osm)
         IN  /\ Kept(s, t)
             /\ Alloc(t) = (Alloc(s) \ {m}) \cup {r}
             /\ r \notin s.mal[p] \ {m}
<1> DEFINE al1 == (s.mal[p] \ {m}) \cup {r}
           t == With(s, p, s.mfl[p], al1, s.osm)
<1>1. /\ s.mfl \in [Pools -> Seq(Block)] /\ s.mal \in [Pools -> SUBSET Block]
  BY MemTypes
<1>2. s.mfl[p] \in Seq(Block) /\ al1 \in SUBSET Block
  BY <1>1
<1>3. m \in InList(s, p)
  BY DEF InList
<1>4. /\ r \notin All(s) \ {m}
      /\ Sound((All(s) \ {m}) \cup {r}, s.osm)
      /\ Cover((All(s) \ {m}) \cup {r}) = Cover(All(s))
  <2>1. Sound(All(s), s.osm) /\ m \in All(s)
    BY <1>3, MemTypes
  <2> QED
    BY <2>1, SamePlace
<1>5. m \notin ToSet(s.mfl[p]) /\ InList(s, p) \subseteq All(s)
  BY MemTypes DEF MemOK
<1>6. ToSet(s.mfl[p]) \cap al1 = {}
  BY <1>4, <1>5 DEF InList, MemOK
<1>7. ToSet(s.mfl[p]) \cup al1 = (InList(s, p) \ {m}) \cup {r}
  BY <1>5 DEF InList
<1>8. /\ Once(s.mfl[p]) /\ (p = "st" => Sorted(s.mfl[p]))
      /\ \A n \in InList(s, p) : InPool(p, n)
  BY DEF MemOK
<1>9. InPool(p, r)
  BY <1>3, <1>8 DEF InPool
<1>10. Changed(s, p, s.mfl[p], al1, s.osm, {m}, {r})
  BY <1>2, <1>3, <1>4, <1>6, <1>7, <1>8, <1>9 DEF Changed
<1>11. AlChanged(s, p, al1, {m}, {r})
  BY DEF AlChanged
<1> HIDE DEF al1
<1>12. MemOK(t) /\ All(t) = (All(s) \ {m}) \cup {r}
  BY <1>10, PoolStep
<1>13. Alloc(t) = (Alloc(s) \ {m}) \cup {r}
  BY <1>11, AllocStep
<1>14. r \notin s.mal[p] \ {m}
  BY <1>4, <1>5 DEF InList
<1> HIDE DEF t
<1> QED
  BY <1>4, <1>12, <1>13, <1>14 DEF Kept, t, al1

(* set_owner(): the block has another owner. *)
LEMMA SetOwner ==
  ASSUME NEW s, MemOK(s), NEW addr, IsBlock(s, addr), NEW pd \in Nat
  PROVE  LET t == set_owner(s, addr, pd)
             m == BlockAt(s, addr)
         IN  /\ Kept(s, t)
             /\ Alloc(t) = (Alloc(s) \ {m}) \cup {[m EXCEPT !.own = pd]}
<1> DEFINE t == set_owner(s, addr, pd)
           m == BlockAt(s, addr)
           r == [m EXCEPT !.own = pd]
           p == find_mpb(addr)
           u == With(s, p, s.mfl[p], (s.mal[p] \ {m}) \cup {r}, s.osm)
<1>1. p \in Pools /\ m \in s.mal[p] /\ m \in Block
  BY IsBlockIs
<1>2. r \in Block /\ r.md = m.md /\ r.start = m.start /\ r.length = m.length
  BY <1>1, OwnChanged
<1>3. t = [s EXCEPT !.mal[p] = (@ \ {m}) \cup {r}]
  BY DEF set_owner, Update
<1> HIDE DEF t, m, r, p
<1>4. t = u
  <2>1. /\ s.mfl \in [Pools -> Seq(Block)] /\ s.mal \in [Pools -> SUBSET Block]
        /\ s = [mfl |-> s.mfl, mal |-> s.mal, osm |-> s.osm]
    BY MemTypes
  <2> QED
    BY <2>1, <1>1, <1>3 DEF With
<1>5. Kept(s, u) /\ Alloc(u) = (Alloc(s) \ {m}) \cup {r}
  <2>1. Kept(s, u)
    BY <1>1, <1>2, Relabelled, Zenon
  <2> DEFINE al1 == (s.mal[p] \ {m}) \cup {r}
  <2>2. AlChanged(s, p, al1, {m}, {r})
    BY <1>1 DEF AlChanged
  <2> HIDE DEF al1
  <2>3. Alloc(With(s, p, s.mfl[p], al1, s.osm)) = (Alloc(s) \ {m}) \cup {r}
    BY <2>2, <1>1, AllocStep
  <2> QED
    BY <2>1, <2>3 DEF al1
<1> HIDE DEF u
<1> QED
  BY <1>4, <1>5 DEF t, m, r

(***************************************************************************)
(* Free lists.                                                             *)
(***************************************************************************)
LEMMA ListTypes ==
  ASSUME NEW fl \in Seq(Block)
  PROVE  /\ Len(fl) \in Nat /\ DOMAIN fl = 1 .. Len(fl)
         /\ \A i \in 1 .. Len(fl) : fl[i] \in Block /\ fl[i] \in ToSet(fl)
         /\ \A m : m \in ToSet(fl) <=> \E i \in 1 .. Len(fl) : fl[i] = m
         /\ ToSet(fl) \subseteq Block
<1>1. /\ Len(fl) \in Nat /\ DOMAIN fl = 1 .. Len(fl)
      /\ \A i \in 1 .. Len(fl) : fl[i] \in Block
  BY LenProperties, ElementOfSeq
<1> QED
  BY <1>1 DEF ToSet

(* The first block of a list that is in T. *)
FirstIn(fl, T) ==
  LET I == {j \in 1 .. Len(fl) : fl[j] \in T}
  IN  IF I # {} THEN Min(I) ELSE 0

LEMMA SearchFacts ==
  ASSUME NEW fl \in Seq(Block), NEW T, NEW i, i = FirstIn(fl, T)
  PROVE  /\ i \in 0 .. Len(fl)
         /\ i = 0 => \A j \in 1 .. Len(fl) : fl[j] \notin T
         /\ i # 0 => fl[i] \in T /\ \A j \in 1 .. i - 1 : fl[j] \notin T
<1> DEFINE n == Len(fl)
           I == {j \in 1 .. n : fl[j] \in T}
<1>1. i = IF I # {} THEN Min(I) ELSE 0
  BY DEF FirstIn
<1>2. n \in Nat /\ I = {j \in 1 .. n : fl[j] \in T}
  BY ListTypes
<1> HIDE DEF n, I
<1>3. I \in SUBSET Nat
  BY <1>2
<1>4. CASE I = {}
  <2>1. i = 0 /\ \A j \in 1 .. n : fl[j] \notin T
    BY <1>1, <1>2, <1>4
  <2> QED
    BY <2>1, <1>2 DEF n
<1>5. CASE I # {}
  <2>1. i = Min(I)
    BY <1>1, <1>5
  <2>2. i \in I /\ \A j \in I : i <= j
    BY <1>3, <1>5, <2>1, MinFacts
  <2>3. i \in 1 .. n /\ fl[i] \in T
    BY <2>2, <1>2
  <2>4. ASSUME NEW j \in 1 .. i - 1
        PROVE  fl[j] \notin T
    <3>1. j \in 1 .. n /\ ~(i <= j)
      BY <2>3, <1>2
    <3> QED
      BY <3>1, <2>2, <1>2
  <2>5. i # 0 /\ i \in 0 .. n
    BY <2>3, <1>2
  <2> QED
    BY <2>3, <2>4, <2>5 DEF n
<1> QED
  BY <1>4, <1>5

LEMMA ListRemoved ==
  ASSUME NEW fl \in Seq(Block), Once(fl), NEW k \in 1 .. Len(fl)
  PROVE  LET t == RemoveAt(fl, k)
         IN  /\ t \in Seq(Block) /\ Once(t)
             /\ ToSet(t) = ToSet(fl) \ {fl[k]}
             /\ Sorted(fl) => Sorted(t)
<1> DEFINE t == RemoveAt(fl, k)
           n == Len(fl)
           At(i) == IF i < k THEN i ELSE i + 1
<1>1. /\ n \in Nat /\ DOMAIN fl = 1 .. n /\ k \in 1 .. n
      /\ \A i \in 1 .. n : fl[i] \in ToSet(fl)
  BY ListTypes
<1>2. /\ t \in Seq(Block) /\ DOMAIN t = 1 .. n - 1
      /\ \A i \in 1 .. n - 1 : t[i] = IF i < k THEN fl[i] ELSE fl[i + 1]
  BY RemoveAtFacts
<1> HIDE DEF t, n
<1>3. \A i \in 1 .. n - 1 : At(i) \in 1 .. n /\ At(i) # k /\ t[i] = fl[At(i)]
  BY <1>1, <1>2
<1>4. \A i, j \in 1 .. n - 1 : /\ At(i) = At(j) => i = j
                               /\ i < j => At(i) < At(j)
  BY <1>1
<1>5. ASSUME NEW j \in 1 .. n, j # k
      PROVE  \E i \in 1 .. n - 1 : t[i] = fl[j]
  <2>1. CASE j < k
    <3>1. j \in 1 .. n - 1 /\ At(j) = j
      BY <2>1, <1>1
    <3> QED
      BY <3>1, <1>3
  <2>2. CASE j > k
    <3>1. j - 1 \in 1 .. n - 1 /\ At(j - 1) = j
      BY <2>2, <1>1
    <3> QED
      BY <3>1, <1>3
  <2> QED
    BY <2>1, <2>2, <1>1, <1>5
<1> HIDE DEF At
<1>6. Once(t)
  BY <1>1, <1>2, <1>3, <1>4 DEF Once
<1>7. ASSUME NEW i \in 1 .. n - 1
      PROVE  t[i] \in ToSet(fl) /\ t[i] # fl[k]
  BY <1>1, <1>3 DEF Once
<1>8. ToSet(t) = ToSet(fl) \ {fl[k]}
  <2>1. \A m : m \in ToSet(t) <=> \E i \in 1 .. n - 1 : t[i] = m
    BY <1>2 DEF ToSet
  <2>2. \A m : m \in ToSet(fl) <=> \E i \in 1 .. n : fl[i] = m
    BY <1>1 DEF ToSet
  <2>3. ASSUME NEW m \in ToSet(fl), m # fl[k]
        PROVE  m \in ToSet(t)
    BY <2>1, <2>2, <2>3, <1>5
  <2> QED
    BY <2>1, <2>3, <1>7
<1>9. ASSUME Sorted(fl), NEW i \in 1 .. n - 1, NEW j \in 1 .. n - 1, i < j
      PROVE  t[i].start + t[i].length < t[j].start
  <2>1. At(i) \in 1 .. n /\ At(j) \in 1 .. n /\ At(i) < At(j)
    BY <1>3, <1>4, <1>9
  <2>2. fl[At(i)].start + fl[At(i)].length < fl[At(j)].start
    BY <2>1, <1>1, <1>9 DEF Sorted
  <2> QED
    BY <2>2, <1>3
<1>10. Sorted(fl) => Sorted(t)
  BY <1>2, <1>9 DEF Sorted
<1> QED
  BY <1>2, <1>6, <1>8, <1>10 DEF t

LEMMA ListReplaced ==
  ASSUME NEW fl \in Seq(Block), Once(fl), NEW k \in 1 .. Len(fl),
         NEW r \in Block, r \notin ToSet(fl) \ {fl[k]}
  PROVE  LET t == [fl EXCEPT ![k] = r]
         IN  /\ t \in Seq(Block) /\ Once(t)
             /\ ToSet(t) = (ToSet(fl) \ {fl[k]}) \cup {r}
             /\ Sorted(fl) /\ fl[k].start <= r.start
                /\ r.start + r.length <= fl[k].start + fl[k].length
                  => Sorted(t)
<1> DEFINE t == [fl EXCEPT ![k] = r]
           n == Len(fl)
<1>1. /\ n \in Nat /\ DOMAIN fl = 1 .. n /\ k \in 1 .. n
      /\ \A i \in 1 .. n : fl[i] \in ToSet(fl) /\ fl[i] \in Block
  BY ListTypes
<1>2. t \in Seq(Block)
  BY <1>1
<1>3. /\ DOMAIN t = 1 .. n
      /\ t[k] = r /\ \A i \in 1 .. n : i # k => t[i] = fl[i]
  BY <1>1
<1> HIDE DEF t, n
<1>4. \A i \in 1 .. n : i # k => fl[i] # r /\ fl[i] # fl[k]
  BY <1>1 DEF Once
<1>5. Once(t)
  BY <1>1, <1>3, <1>4 DEF Once
<1>6. ToSet(t) = (ToSet(fl) \ {fl[k]}) \cup {r}
  BY <1>1, <1>3, <1>4 DEF ToSet
<1>7. ASSUME Sorted(fl), fl[k].start <= r.start,
             r.start + r.length <= fl[k].start + fl[k].length
      PROVE  Sorted(t)
  <2> SUFFICES ASSUME NEW i \in 1 .. n, NEW j \in 1 .. n, i < j
               PROVE  t[i].start + t[i].length < t[j].start
    BY <1>3 DEF Sorted
  <2>1. fl[i].start + fl[i].length < fl[j].start
    BY <1>1, <1>7 DEF Sorted
  <2>2. /\ fl[i].start \in Nat /\ fl[i].length \in Nat
        /\ fl[j].start \in Nat /\ fl[j].length \in Nat
        /\ r.start \in Nat /\ r.length \in Nat
    BY <1>1, BlockFacts
  <2>3. CASE i = k
    <3>1. t[i] = r /\ t[j] = fl[j]
      BY <2>3, <1>1, <1>3
    <3> QED
      BY <3>1, <2>1, <2>2, <2>3, <1>7
  <2>4. CASE j = k
    <3>1. t[j] = r /\ t[i] = fl[i]
      BY <2>4, <1>1, <1>3
    <3> QED
      BY <3>1, <2>1, <2>2, <2>4, <1>7
  <2>5. CASE i # k /\ j # k
    BY <2>1, <2>5, <1>3
  <2> QED
    BY <2>3, <2>4, <2>5
<1> QED
  BY <1>2, <1>5, <1>6, <1>7 DEF t

(* Sizes. *)
LEMMA RoundFacts ==
  ASSUME NEW p \in Pools, NEW n \in Nat
  PROVE  /\ Round(p, n) \in Nat /\ Round(p, n) >= n
         /\ n = 0 => Round(p, n) = 0
<1> DEFINE a == IF p = "st" THEN AlignST ELSE AlignAlt
           d == (n + a - 1) \div a
<1>1. a \in Nat \ {0}
  BY Constants
<1>2. Round(p, n) = d * a
  BY DEF Round
<1> HIDE DEF a
<1>3. d \in Nat /\ d * a <= n + a - 1 /\ n + a - 1 < d * a + a
  BY <1>1
<1>4. n = 0 => d = 0
  BY <1>1
<1> HIDE DEF d
<1>5. d * a \in Nat
  BY <1>1, <1>3
<1>6. n = 0 => d * a = 0
  BY <1>1, <1>4
<1> DEFINE x == d * a
<1>7. x \in Nat /\ n + a - 1 < x + a
  BY <1>3, <1>5
<1> HIDE DEF x
<1>8. x >= n
  BY <1>1, <1>7
<1> QED
  BY <1>2, <1>6, <1>7, <1>8 DEF x

LEMMA InPoolPart ==
  ASSUME NEW p \in Pools, NEW q \in Block, InPool(p, q), NEW r \in Block,
         q.start <= r.start, r.start + r.length <= q.start + q.length
  PROVE  InPool(p, r)
<1>1. /\ q.start \in Nat /\ q.length \in Nat /\ r.start \in Nat
      /\ r.length \in Nat /\ StStart \in Nat /\ StSize \in Nat
  BY BlockFacts, Constants
<1> QED
  BY <1>1 DEF InPool

(* ffit(): a free block, or its first part, is allocated, or nothing       *)
(* changes.                                                                *)
Given(s, r, own) ==
  \/ r = Found(s, NULL)
  \/ /\ Kept(s, r.s)
     /\ r.addr # NULL
     /\ \E m \in Block : /\ m.own = own /\ m.start = r.addr /\ m \notin Alloc(s)
                         /\ Alloc(r.s) = Alloc(s) \cup {m}

LEMMA FfitTakes ==
  ASSUME NEW s, MemOK(s), NEW p \in Pools, NEW q \in ToSet(s.mfl[p]),
         NEW m \in Block, m.start = q.start,
         NEW fl1, NEW o1, NEW N, m \in N,
         Changed(s, p, fl1, s.mal[p] \cup {m}, o1, {q}, N),
         Cover((All(s) \ {q}) \cup N) = Cover(All(s)),
         m \notin All(s) \ {q}
  PROVE  Given(s, Found(With(s, p, fl1, s.mal[p] \cup {m}, o1), q.start), m.own)
<1> DEFINE al1 == s.mal[p] \cup {m}
           t == With(s, p, fl1, al1, o1)
<1>1. AlChanged(s, p, al1, {}, {m})
  BY DEF AlChanged
<1>2. Changed(s, p, fl1, al1, o1, {q}, N)
  OBVIOUS
<1> HIDE DEF al1
<1>3. MemOK(t) /\ All(t) = (All(s) \ {q}) \cup N
  BY <1>2, PoolStep
<1>4. Alloc(t) = Alloc(s) \cup {m}
  BY <1>1, AllocStep
<1> HIDE DEF t
<1>5. m \notin Alloc(s)
  <2>1. q \in InList(s, p)
    BY DEF InList
  <2>2. q \notin Alloc(s)
    <3> SUFFICES ASSUME q \in Alloc(s)
                 PROVE  FALSE
      OBVIOUS
    <3>1. q \in s.mal[find_mpb(q.start)] /\ find_mpb(q.start) = p
      BY <2>1, AllocFacts, FindPool
    <3> QED
      BY <3>1 DEF MemOK
  <2>3. Alloc(s) \subseteq All(s)
    BY AllocFacts
  <2> QED
    BY <2>2, <2>3
<1>6. q.start # NULL
  <2>1. m \in Alloc(t)
    BY <1>4
  <2>2. StStart <= m.start
    BY <1>3, <2>1, AllocFacts
  <2> QED
    BY <2>2, BlockFacts, Constants
<1> DEFINE r == Found(t, q.start)
<1>7. r.s = t /\ r.addr = q.start
  BY DEF Found
<1> HIDE DEF r
<1>8. Given(s, r, m.own)
  BY <1>3, <1>4, <1>5, <1>6, <1>7 DEF Given, Kept
<1> QED
  BY <1>8 DEF r, t, al1

LEMMA Ffit ==
  ASSUME NEW s, MemOK(s), NEW p \in Pools, NEW n \in Nat \ {0}, NEW own \in Nat
  PROVE  Given(s, ffit(s, p, n, own), own)
<1> DEFINE amount == Round(p, n)
           fl == s.mfl[p]
           I == {j \in 1 .. Len(fl) : fl[j].length >= amount}
           i == IF I # {} THEN Min(I) ELSE 0
           q == fl[i]
           got == xmgetmd(s.osm)
           m == [[q EXCEPT !.length = amount] EXCEPT !.own = own]
           f == [md |-> got.md, start |-> q.start + amount,
                 length |-> q.length - amount, own |-> NULL]
           r == ffit(s, p, n, own)
           al1 == s.mal[p] \cup {m}
<1>1. /\ i = 0 => r = Found(s, NULL)
      /\ i # 0 /\ q.length = amount
           => r = Found(With(s, p, RemoveAt(fl, i), al1, s.osm), q.start)
      /\ i # 0 /\ q.length # amount /\ got.md = NoMD => r = Found(s, NULL)
      /\ i # 0 /\ q.length # amount /\ got.md # NoMD
           => r = Found(With(s, p, [fl EXCEPT ![i] = f], al1, got.osm), q.start)
  <2>1. s.mal \in [Pools -> SUBSET Block]
    BY MemTypes
  <2>2. FirstOf(fl, LAMBDA b : b.length >= amount) = i
    BY DEF FirstOf, SelectInSeq
  <2>3. m = [q EXCEPT !.length = amount, !.own = own]
    OBVIOUS
  <2>4. [s.mal EXCEPT ![p] = @ \cup {m}] = [s.mal EXCEPT ![p] = al1]
    BY <2>1
  <2> QED
    BY <2>2, <2>3, <2>4 DEF ffit, With
<1>2. CASE i = 0 \/ (q.length # amount /\ got.md = NoMD)
  BY <1>1, <1>2 DEF Given
<1>3. CASE i # 0 /\ (q.length = amount \/ got.md # NoMD)
  <2>1. /\ fl \in Seq(Block) /\ Once(fl) /\ (p = "st" => Sorted(fl))
        /\ s.mal[p] \subseteq Block /\ ToSet(fl) \cap s.mal[p] = {}
        /\ ToSet(fl) \subseteq InList(s, p)
        /\ InList(s, p) = ToSet(fl) \cup s.mal[p]
        /\ \A b \in InList(s, p) : InPool(p, b)
        /\ InList(s, p) \subseteq All(s) /\ Sound(All(s), s.osm)
    BY MemTypes DEF MemOK, InList
  <2> HIDE DEF fl
  <2>2. i \in 1 .. Len(fl) /\ q.length >= amount
    <3> DEFINE T == {b \in Block : b.length >= amount}
    <3>1. i = FirstIn(fl, T)
      <4>1. I = {j \in 1 .. Len(fl) : fl[j] \in T}
        BY <2>1, ListTypes
      <4> HIDE DEF I, T
      <4> QED
        BY <4>1 DEF FirstIn
    <3> HIDE DEF I, T, i
    <3>2. i \in 0 .. Len(fl) /\ (i # 0 => fl[i] \in T)
      BY <2>1, <3>1, SearchFacts
    <3>3. i \in 1 .. Len(fl)
      BY <3>2, <1>3, <2>1, ListTypes
    <3> QED
      BY <3>2, <3>3, <1>3 DEF T
  <2> HIDE DEF i, got
  <2>3. /\ q \in ToSet(fl) /\ q \in Block /\ InPool(p, q) /\ q \in All(s)
        /\ q \notin s.mal[p]
    BY <2>1, <2>2, ListTypes
  <2>4. amount \in Nat \ {0}
    <3>1. amount \in Nat /\ amount >= n
      BY RoundFacts
    <3> HIDE DEF amount
    <3> QED
      BY <3>1
  <2> HIDE DEF amount
  <2>5. /\ m \in Block /\ m.md = q.md /\ m.start = q.start
        /\ m.length = amount /\ m.own = own
    <3> DEFINE m0 == [q EXCEPT !.length = amount]
    <3>1. /\ m0 \in Block /\ m0.md = q.md /\ m0.start = q.start
          /\ m0.length = amount
      BY <2>3, <2>4, LengthChanged
    <3> HIDE DEF m0
    <3> QED
      BY <3>1, OwnChanged DEF m0
  <2>6. q.start \in Nat /\ q.length \in Nat \ {0}
    BY <2>3, BlockFacts
  <2> HIDE DEF q, m
  <2>7. CASE q.length = amount
    <3> DEFINE fl1 == RemoveAt(fl, i)
    <3>1. /\ fl1 \in Seq(Block) /\ Once(fl1)
          /\ ToSet(fl1) = ToSet(fl) \ {q}
          /\ Sorted(fl) => Sorted(fl1)
      BY <2>1, <2>2, ListRemoved DEF q
    <3>2. /\ m \notin All(s) \ {q}
          /\ Sound((All(s) \ {q}) \cup {m}, s.osm)
          /\ Cover((All(s) \ {q}) \cup {m}) = Cover(All(s))
      BY <2>1, <2>3, <2>5, <2>7, SamePlace
    <3> HIDE DEF fl1
    <3>3. InPool(p, m)
      BY <2>3, <2>5, <2>6, <2>7, InPoolPart
    <3>4. ToSet(fl1) \cap al1 = {}
      BY <2>1, <3>1, <3>2
    <3>5. ToSet(fl1) \cup al1 = (InList(s, p) \ {q}) \cup {m}
      BY <2>1, <2>3, <3>1
    <3>6. Changed(s, p, fl1, al1, s.osm, {q}, {m})
      BY <2>1, <2>3, <2>5, <3>1, <3>2, <3>3, <3>4, <3>5 DEF Changed
    <3>7. Given(s, Found(With(s, p, fl1, al1, s.osm), q.start), m.own)
      BY <2>3, <2>5, <3>2, <3>6, FfitTakes DEF fl
    <3> QED
      BY <3>7, <1>1, <1>3, <2>5, <2>7 DEF fl1
  <2>8. CASE q.length # amount
    <3> DEFINE fl1 == [fl EXCEPT ![i] = f]
    <3>1. got.md # NoMD /\ got.md \in MD
      <4>1. got.md # NoMD
        BY <1>3, <2>8
      <4>2. Accounted(All(s), s.osm)
        BY <2>1 DEF Sound
      <4> QED
        BY <4>1, <4>2, SlotGot DEF got
    <3>2. /\ f \in Block /\ f.md = got.md /\ f.start = q.start + amount
          /\ f.length = q.length - amount /\ q.length = amount + f.length
      BY <2>2, <2>4, <2>6, <2>8, <3>1, Constants DEF Block, MD
    <3> HIDE DEF f
    <3> DEFINE A1 == (All(s) \ {q}) \cup {m, f}
    <3>3. /\ m \notin All(s) \ {q} /\ f \notin (All(s) \ {q}) \cup {m}
          /\ f \notin All(s)
          /\ Sound(A1, got.osm) /\ Cover(A1) = Cover(All(s))
      <4>1. Halves(q, m, f)
        BY <2>5, <3>2 DEF Halves
      <4>2. f.md = xmgetmd(s.osm).md /\ f.md # NoMD
        BY <3>1, <3>2 DEF got
      <4>3. Sound(All(s), s.osm) /\ q \in All(s) /\ m \in Block /\ f \in Block
        BY <2>1, <2>3, <2>5, <3>2
      <4> DEFINE A == All(s)
                 o == s.osm
      <4> HIDE DEF A, o
      <4>4. /\ m \notin A \ {q} /\ f \notin (A \ {q}) \cup {m}
            /\ f \notin A
            /\ Sound((A \ {q}) \cup {m, f}, xmgetmd(o).osm)
            /\ Cover((A \ {q}) \cup {m, f}) = Cover(A)
        <5>1. Sound(A, o) /\ q \in A /\ f.md = xmgetmd(o).md /\ f.md # NoMD
          BY <4>2, <4>3 DEF A, o
        <5>2. m \in Block /\ f \in Block /\ Halves(q, m, f)
          BY <4>1, <4>3
        <5> QED
          BY <5>1, <5>2, Split
      <4> QED
        BY <4>4 DEF A, o, got
    <3>4. /\ q.start <= f.start
          /\ f.start + f.length <= q.start + q.length
          /\ q.start <= m.start
          /\ m.start + m.length <= q.start + q.length
      BY <2>2, <2>4, <2>5, <2>6, <3>2
    <3>5. InPool(p, m) /\ InPool(p, f)
      BY <2>3, <2>5, <3>2, <3>4, InPoolPart
    <3>6. /\ fl1 \in Seq(Block) /\ Once(fl1)
          /\ ToSet(fl1) = (ToSet(fl) \ {q}) \cup {f}
          /\ Sorted(fl) => Sorted(fl1)
      <4>1. f \notin ToSet(fl) \ {fl[i]}
        BY <2>1, <3>3 DEF q
      <4>2. /\ fl1 \in Seq(Block) /\ Once(fl1)
            /\ ToSet(fl1) = (ToSet(fl) \ {fl[i]}) \cup {f}
            /\ Sorted(fl) /\ fl[i].start <= f.start
               /\ f.start + f.length <= fl[i].start + fl[i].length
                 => Sorted(fl1)
        BY <4>1, <2>1, <2>2, <3>2, ListReplaced
      <4> HIDE DEF fl1
      <4> QED
        BY <4>2, <3>4 DEF q
    <3> HIDE DEF fl1
    <3>7. ToSet(fl1) \cap al1 = {}
      BY <2>1, <2>3, <3>3, <3>6
    <3>8. ToSet(fl1) \cup al1 = (InList(s, p) \ {q}) \cup {m, f}
      BY <2>1, <2>3, <3>6
    <3>9. A1 = (All(s) \ {q}) \cup {m, f}
      OBVIOUS
    <3> HIDE DEF A1
    <3>10. Changed(s, p, fl1, al1, got.osm, {q}, {m, f})
      BY <2>1, <2>3, <2>5, <3>3, <3>5, <3>6, <3>7, <3>8, <3>9 DEF Changed
    <3>11. Given(s, Found(With(s, p, fl1, al1, got.osm), q.start), m.own)
      <4>1. m \in {m, f} /\ Cover((All(s) \ {q}) \cup {m, f}) = Cover(All(s))
        BY <3>3, <3>9
      <4> QED
        BY <4>1, <2>3, <2>5, <3>3, <3>10, FfitTakes DEF fl
    <3> QED
      BY <3>1, <3>11, <1>1, <1>3, <2>5, <2>8 DEF fl1
  <2> QED
    BY <2>7, <2>8
<1> QED
  BY <1>2, <1>3

(***************************************************************************)
(* freeit(). The lists it yields are made of parts of the free list.       *)
(***************************************************************************)
Ends(m) == m.start + m.length

Between(lower, b, upper) ==
  /\ \A i \in 1 .. Len(lower) : Ends(lower[i]) < b.start
  /\ \A i \in 1 .. Len(upper) : Ends(b) < upper[i].start

LEMMA ListInserted ==
  ASSUME NEW lower \in Seq(Block), NEW upper \in Seq(Block), NEW b \in Block,
         Once(lower \o upper), b \notin ToSet(lower \o upper)
  PROVE  LET fl == lower \o upper
             t == (lower \o <<b>>) \o upper
         IN  /\ t \in Seq(Block) /\ Once(t) /\ ToSet(t) = ToSet(fl) \cup {b}
             /\ Sorted(fl) /\ Between(lower, b, upper) => Sorted(t)
<1> DEFINE fl == lower \o upper
           l1 == lower \o <<b>>
           t == l1 \o upper
           k == Len(lower)
           l == Len(upper)
<1>1. /\ k \in Nat /\ l \in Nat /\ fl \in Seq(Block) /\ DOMAIN fl = 1 .. k + l
      /\ \A i \in 1 .. k : fl[i] = lower[i]
      /\ \A i \in 1 .. l : fl[k + i] = upper[i]
  OBVIOUS
<1>2. /\ l1 \in Seq(Block) /\ Len(l1) = k + 1
      /\ \A i \in 1 .. k : l1[i] = lower[i]
      /\ l1[k + 1] = b
  OBVIOUS
<1>3. /\ t \in Seq(Block) /\ DOMAIN t = 1 .. Len(l1) + l
      /\ \A i \in 1 .. Len(l1) : t[i] = l1[i]
      /\ \A i \in 1 .. l : t[Len(l1) + i] = upper[i]
  <2>1. l1 \in Seq(Block) /\ upper \in Seq(Block)
    BY <1>2
  <2> HIDE DEF l1
  <2>2. \A i \in 1 .. l : t[Len(l1) + i] = upper[i]
    BY <2>1, ConcatFacts
  <2>3. /\ t \in Seq(Block) /\ DOMAIN t = 1 .. Len(l1) + l
        /\ \A i \in 1 .. Len(l1) : t[i] = l1[i]
    BY <2>1, ConcatFacts
  <2> QED
    BY <2>2, <2>3
<1> HIDE DEF fl, l1, t, k, l
<1>4. /\ DOMAIN t = 1 .. k + l + 1
      /\ \A i \in 1 .. k : t[i] = fl[i]
      /\ t[k + 1] = b
      /\ \A i \in k + 2 .. k + l + 1 : t[i] = fl[i - 1]
  <2>1. DOMAIN t = 1 .. k + l + 1
    BY <1>1, <1>2, <1>3
  <2>2. \A i \in 1 .. k : t[i] = fl[i]
    BY <1>1, <1>2, <1>3
  <2>3. t[k + 1] = b
    <3>1. k + 1 \in 1 .. Len(l1)
      BY <1>1, <1>2
    <3> QED
      BY <3>1, <1>2, <1>3
  <2>4. ASSUME NEW i \in k + 2 .. k + l + 1
        PROVE  t[i] = fl[i - 1]
    <3> DEFINE j == i - k - 1
    <3>1. j \in 1 .. l /\ (k + 1) + j = i /\ k + j = i - 1
      BY <1>1
    <3> HIDE DEF j
    <3>2. t[(k + 1) + j] = upper[j] /\ fl[k + j] = upper[j]
      BY <3>1, <1>1, <1>2, <1>3
    <3> QED
      BY <3>1, <3>2
  <2> QED
    BY <2>1, <2>2, <2>3, <2>4
<1> DEFINE At(i) == IF i <= k THEN i ELSE i - 1
           J == (1 .. k + l + 1) \ {k + 1}
<1>5. /\ \A i \in J : At(i) \in 1 .. k + l /\ t[i] = fl[At(i)]
      /\ \A i, j \in J : At(i) = At(j) => i = j
      /\ \A i, j \in J : i < j => At(i) < At(j)
      /\ \A i \in J : i < k + 1 => At(i) <= k
      /\ \A i \in J : i > k + 1 => At(i) > k
  BY <1>1, <1>4
<1>6. \A i \in 1 .. k + l : \E j \in J : At(j) = i
  <2> TAKE i \in 1 .. k + l
  <2>1. CASE i <= k
    <3>1. i \in J /\ At(i) = i
      BY <2>1, <1>1
    <3> QED
      BY <3>1
  <2>2. CASE i > k
    <3>1. i + 1 \in J /\ At(i + 1) = i
      BY <2>2, <1>1
    <3> QED
      BY <3>1
  <2> QED
    BY <2>1, <2>2, <1>1
<1>7. /\ DOMAIN t = J \cup {k + 1} /\ k + 1 \notin J
  BY <1>1, <1>4
<1>8. \A i \in 1 .. k + l : fl[i] \in ToSet(fl) /\ fl[i] # b
  BY <1>1 DEF ToSet, fl
<1>9. \A m : m \in ToSet(fl) <=> \E i \in 1 .. k + l : fl[i] = m
  BY <1>1 DEF ToSet
<1>10. \A m : m \in ToSet(t) <=> (m = b \/ \E i \in J : t[i] = m)
  BY <1>4, <1>7 DEF ToSet
<1>11. Once(t)
  <2>1. \A i, j \in 1 .. k + l : fl[i] = fl[j] => i = j
    BY <1>1 DEF Once, fl
  <2> HIDE DEF J, At
  <2>2. \A i, j \in J : t[i] = t[j] => i = j
    BY <2>1, <1>5
  <2>3. \A i \in J : t[i] # b
    BY <1>5, <1>8
  <2> QED
    BY <2>2, <2>3, <1>4, <1>7 DEF Once
<1>12. ToSet(t) = ToSet(fl) \cup {b}
  <2> HIDE DEF J, At
  <2>1. \A m : (\E i \in J : t[i] = m) <=> \E i \in 1 .. k + l : fl[i] = m
    BY <1>5, <1>6
  <2> QED
    BY <2>1, <1>9, <1>10
<1>13. ASSUME Sorted(fl), Between(lower, b, upper)
       PROVE  Sorted(t)
  <2>0. /\ \A i \in 1 .. k : Ends(lower[i]) < b.start
        /\ \A i \in 1 .. l : Ends(b) < upper[i].start
    BY <1>13 DEF Between, k, l
  <2>1. \A i, j \in 1 .. k + l : i < j => Ends(fl[i]) < fl[j].start
    BY <1>1, <1>13 DEF Sorted, Ends
  <2>2. \A i \in 1 .. k : Ends(fl[i]) < b.start
    BY <1>1, <2>0
  <2>3. ASSUME NEW i \in 1 .. k + l, i > k
        PROVE  Ends(b) < fl[i].start
    <3> DEFINE j == i - k
    <3>1. j \in 1 .. l /\ k + j = i
      BY <2>3, <1>1
    <3> HIDE DEF j
    <3> QED
      BY <3>1, <1>1, <2>0
  <2> SUFFICES ASSUME NEW i \in DOMAIN t, NEW j \in DOMAIN t, i < j
               PROVE  Ends(t[i]) < t[j].start
    BY DEF Sorted, Ends
  <2> HIDE DEF J, At
  <2>4. i \in Int /\ j \in Int /\ k \in Nat
    BY <1>1, <1>4
  <2>5. CASE i \in J /\ j \in J
    BY <2>1, <2>5, <1>5
  <2>6. CASE i = k + 1
    <3>1. j \in J /\ j > k + 1
      BY <2>4, <2>6, <1>7
    <3>2. At(j) \in 1 .. k + l /\ At(j) > k /\ t[j] = fl[At(j)]
      BY <3>1, <1>5
    <3>3. Ends(b) < fl[At(j)].start
      BY <3>2, <2>3
    <3> QED
      BY <3>2, <3>3, <2>6, <1>4
  <2>7. CASE j = k + 1
    <3>1. i \in J /\ i < k + 1
      BY <2>4, <2>7, <1>7
    <3>2. At(i) \in 1 .. k /\ t[i] = fl[At(i)]
      BY <3>1, <1>1, <1>5
    <3>3. Ends(fl[At(i)]) < b.start
      BY <3>2, <2>2
    <3> QED
      BY <3>2, <3>3, <2>7, <1>4
  <2> QED
    BY <2>5, <2>6, <2>7, <1>7
<1> HIDE DEF J, At
<1> QED
  BY <1>3, <1>11, <1>12, <1>13 DEF t, fl, l1

(* The last block of the lower part is replaced. *)
LEMMA LastReplaced ==
  ASSUME NEW lower \in Seq(Block), lower # <<>>, NEW upper \in Seq(Block),
         NEW x \in Block
  PROVE  /\ Len(lower) \in 1 .. Len(lower \o upper)
         /\ Last(lower) = (lower \o upper)[Len(lower)]
         /\ (Front(lower) \o <<x>>) \o upper
              = [lower \o upper EXCEPT ![Len(lower)] = x]
<1> DEFINE k == Len(lower)
           l == Len(upper)
           front == SubSeq(lower, 1, k - 1)
           l1 == front \o <<x>>
           fl == lower \o upper
           t == l1 \o upper
           u == [fl EXCEPT ![k] = x]
<1>1. k \in Nat /\ l \in Nat /\ k # 0
  BY EmptySeq
<1>2. /\ fl \in Seq(Block) /\ Len(fl) = k + l /\ DOMAIN fl = 1 .. k + l
      /\ \A i \in 1 .. k : fl[i] = lower[i]
      /\ \A i \in 1 .. l : fl[k + i] = upper[i]
  OBVIOUS
<1>3. /\ front \in Seq(Block) /\ Len(front) = k - 1
      /\ \A i \in 1 .. k - 1 : front[i] = lower[i]
  <2> DEFINE m == k - 1
  <2>1. m \in Nat /\ m <= Len(lower) /\ m + 1 - 1 = m
    BY <1>1
  <2> HIDE DEF m
  <2>2. LET f == SubSeq(lower, 1, m)
        IN  /\ f \in Seq(Block) /\ Len(f) = m
            /\ \A i \in 1 .. m : f[i] = lower[i]
    BY <2>1
  <2> QED
    BY <2>2 DEF m
<1> HIDE DEF front
<1>4. /\ l1 \in Seq(Block) /\ Len(l1) = k
      /\ \A i \in 1 .. k - 1 : l1[i] = lower[i]
      /\ l1[k] = x
  <2> HIDE DEF k
  <2>1. /\ l1 \in Seq(Block) /\ Len(l1) = Len(front) + 1
        /\ \A i \in 1 .. Len(front) : l1[i] = front[i]
        /\ l1[Len(front) + 1] = x
    BY <1>3
  <2> HIDE DEF l1
  <2> QED
    BY <2>1, <1>1, <1>3
<1> HIDE DEF l1
<1>5. /\ t \in Seq(Block) /\ DOMAIN t = 1 .. k + l
      /\ \A i \in 1 .. k : t[i] = l1[i]
      /\ \A i \in 1 .. l : t[k + i] = upper[i]
  <2>1. l1 \in Seq(Block) /\ upper \in Seq(Block) /\ Len(l1) = k
    BY <1>4
  <2> HIDE DEF k
  <2>2. \A i \in 1 .. l : t[Len(l1) + i] = upper[i]
    BY <2>1, ConcatFacts
  <2>3. /\ t \in Seq(Block) /\ DOMAIN t = 1 .. Len(l1) + l
        /\ \A i \in 1 .. Len(l1) : t[i] = l1[i]
    BY <2>1, ConcatFacts
  <2> QED
    BY <2>1, <2>2, <2>3
<1> HIDE DEF fl, t, k, l
<1>6. /\ DOMAIN u = 1 .. k + l /\ u[k] = x
      /\ \A i \in 1 .. k + l : i # k => u[i] = fl[i]
      /\ u = [i \in 1 .. k + l |-> u[i]]
  <2>1. k \in 1 .. k + l /\ DOMAIN fl = 1 .. k + l
    BY <1>1, <1>2
  <2> QED
    BY <2>1
<1> HIDE DEF u
<1>7. ASSUME NEW i \in 1 .. k + l
      PROVE  t[i] = u[i]
  <2>1. CASE i = k
    <3>1. i \in 1 .. k
      BY <2>1, <1>1
    <3> QED
      BY <3>1, <2>1, <1>4, <1>5, <1>6
  <2>2. CASE i < k
    <3>1. i \in 1 .. k /\ i \in 1 .. k - 1 /\ i # k
      BY <2>2, <1>1
    <3> QED
      BY <3>1, <1>2, <1>4, <1>5, <1>6
  <2>3. CASE i > k
    <3> DEFINE j == i - k
    <3>1. j \in 1 .. l /\ k + j = i /\ i # k
      BY <2>3, <1>1
    <3> HIDE DEF j
    <3> QED
      BY <3>1, <1>2, <1>5, <1>6
  <2> QED
    BY <2>1, <2>2, <2>3, <1>1
<1>8. t = [i \in 1 .. k + l |-> t[i]]
  BY <1>5
<1>9. t = u
  BY <1>6, <1>7, <1>8
<1>10. k \in 1 .. Len(fl) /\ Last(lower) = fl[k]
  <2>1. Last(lower) = lower[k]
    BY DEF Last, k
  <2>2. k \in 1 .. k /\ k \in 1 .. Len(fl)
    BY <1>1, <1>2
  <2> QED
    BY <2>1, <2>2, <1>2
<1>11. t = (Front(lower) \o <<x>>) \o upper
  BY DEF t, l1, front, Front, k
<1> QED
  BY <1>9, <1>10, <1>11 DEF fl, u, k

LEMMA ListJoined ==
  ASSUME NEW fl \in Seq(Block), NEW k \in 1 .. Len(fl), NEW r \in Block,
         Sorted(fl), r.start = fl[k].start,
         \A i \in k + 1 .. Len(fl) : Ends(r) < fl[i].start
  PROVE  Sorted([fl EXCEPT ![k] = r])
<1> DEFINE t == [fl EXCEPT ![k] = r]
           n == Len(fl)
<1>1. n \in Nat /\ DOMAIN fl = 1 .. n /\ k \in 1 .. n
  BY ListTypes
<1>2. DOMAIN t = 1 .. n /\ t[k] = r /\ \A i \in 1 .. n : i # k => t[i] = fl[i]
  BY <1>1
<1>3. \A i \in k + 1 .. n : Ends(r) < fl[i].start
  OBVIOUS
<1> HIDE DEF t, n
<1> SUFFICES ASSUME NEW i \in 1 .. n, NEW j \in 1 .. n, i < j
             PROVE  Ends(t[i]) < t[j].start
  BY <1>2 DEF Sorted, Ends, t
<1>4. Ends(fl[i]) < fl[j].start
  BY <1>1 DEF Sorted, Ends
<1>5. CASE i = k
  <2>1. j \in k + 1 .. n /\ j # k
    BY <1>1, <1>5
  <2> QED
    BY <2>1, <1>2, <1>3, <1>5
<1>6. CASE j = k
  <2>1. i # k
    BY <1>1, <1>6
  <2> QED
    BY <2>1, <1>2, <1>4, <1>6
<1>7. CASE i # k /\ j # k
  BY <1>2, <1>4, <1>7
<1> QED
  BY <1>5, <1>6, <1>7

LEMMA WithWith ==
  ASSUME NEW s, MemOK(s), NEW p \in Pools, NEW fl1, NEW al1, NEW o1,
         NEW fl2, NEW al2, NEW o2
  PROVE  LET t == With(s, p, fl1, al1, o1)
         IN  /\ With(t, p, fl2, al2, o2) = With(s, p, fl2, al2, o2)
             /\ t.mfl[p] = fl1 /\ t.mal[p] = al1 /\ t.osm = o1
<1>1. s.mfl \in [Pools -> Seq(Block)] /\ s.mal \in [Pools -> SUBSET Block]
  BY MemTypes
<1> QED
  BY <1>1 DEF With

(* Steps of freeit(). The block is joined with the free one above it,     *)
LEMMA JoinHi ==
  ASSUME NEW s, MemOK(s), NEW p \in Pools, NEW b \in s.mal[p],
         NEW k \in 1 .. Len(s.mfl[p]), NEW h, h = s.mfl[p][k], Touches(b, h),
         NEW c \in Block, OneOf(b, h, c)
  PROVE  LET t == With(s, p, RemoveAt(s.mfl[p], k), (s.mal[p] \ {b}) \cup {c},
                       xmfremd(s.osm, h.md))
         IN  Kept(s, t) /\ c \notin s.mal[p]
<1> DEFINE fl == s.mfl[p]
           fl1 == RemoveAt(fl, k)
           al1 == (s.mal[p] \ {b}) \cup {c}
           o1 == xmfremd(s.osm, h.md)
           A1 == (All(s) \ {b, h}) \cup {c}
<1>1. /\ fl \in Seq(Block) /\ s.mal[p] \subseteq Block
      /\ Once(fl) /\ (p = "st" => Sorted(fl)) /\ ToSet(fl) \cap s.mal[p] = {}
      /\ InList(s, p) = ToSet(fl) \cup s.mal[p]
      /\ InList(s, p) \subseteq All(s) /\ Sound(All(s), s.osm)
      /\ \A n \in InList(s, p) : InPool(p, n)
  BY MemTypes DEF MemOK, InList
<1>2. h \in ToSet(fl) /\ h \in Block /\ b \in Block
  BY <1>1, ListTypes
<1>3. c.md = b.md /\ c.start = b.start /\ c.length = b.length + h.length
  BY DEF OneOf
<1>4. h.start = b.start + b.length
  BY DEF Touches
<1>5. c \notin All(s) /\ Sound(A1, o1) /\ Cover(A1) = Cover(All(s))
  <2> DEFINE A == All(s)
             o == s.osm
  <2>1. Sound(A, o) /\ b \in A /\ h \in A
    BY <1>1, <1>2
  <2> HIDE DEF A, o
  <2>2. /\ c \notin A
        /\ Sound((A \ {b, h}) \cup {c}, xmfremd(o, h.md))
        /\ Cover((A \ {b, h}) \cup {c}) = Cover(A)
    <3>1. Touches(b, h) /\ OneOf(b, h, c) /\ c \in Block
      OBVIOUS
    <3>2. c \notin A
      BY <2>1, <3>1, Joined, Zenon
    <3>3. Sound((A \ {b, h}) \cup {c}, xmfremd(o, h.md))
      BY <2>1, <3>1, Joined, Zenon
    <3>4. Cover((A \ {b, h}) \cup {c}) = Cover(A)
      BY <2>1, <3>1, Joined
    <3> QED
      BY <3>2, <3>3, <3>4
  <2> QED
    BY <2>2 DEF A, o
<1>6. /\ fl1 \in Seq(Block) /\ Once(fl1) /\ ToSet(fl1) = ToSet(fl) \ {h}
      /\ (p = "st" => Sorted(fl1))
  <2> HIDE DEF fl
  <2> QED
    BY <1>1, ListRemoved DEF fl
<1> HIDE DEF fl1, fl, o1
<1>7. InPool(p, c)
  <2>1. InPool(p, b) /\ InPool(p, h)
    BY <1>1, <1>2
  <2>2. /\ b.start \in Nat /\ b.length \in Nat /\ h.start \in Nat
        /\ h.length \in Nat
    BY <1>2, BlockFacts
  <2> QED
    BY <2>1, <2>2, <1>3, <1>4 DEF InPool
<1>8. ToSet(fl1) \cap al1 = {}
  BY <1>1, <1>5, <1>6
<1>9. ToSet(fl1) \cup al1 = (InList(s, p) \ {b, h}) \cup {c}
  BY <1>1, <1>2, <1>6
<1>10. al1 \in SUBSET Block /\ c \notin s.mal[p]
  BY <1>1, <1>5
<1> HIDE DEF al1
<1>11. Changed(s, p, fl1, al1, o1, {b, h}, {c})
  BY <1>1, <1>2, <1>5, <1>6, <1>7, <1>8, <1>9, <1>10 DEF Changed
<1> HIDE DEF A1
<1> DEFINE t == With(s, p, fl1, al1, o1)
<1>12. MemOK(t) /\ All(t) = A1
  BY <1>11, PoolStep DEF A1
<1> HIDE DEF t
<1> QED
  BY <1>5, <1>10, <1>12 DEF Kept, t, fl1, fl, al1, o1

(* or with the one below it, in the free list,                             *)
LEMMA PutLo ==
  ASSUME NEW s, MemOK(s), NEW p \in Pools, NEW b \in s.mal[p],
         NEW lower \in Seq(Block), lower # <<>>, NEW upper \in Seq(Block),
         s.mfl[p] = lower \o upper,
         NEW g, g = Last(lower), Touches(g, b),
         NEW c \in Block, OneOf(g, b, c),
         p = "st" => \A i \in 1 .. Len(upper) : Ends(b) < upper[i].start
  PROVE  LET t == With(s, p, (Front(lower) \o <<c>>) \o upper,
                       s.mal[p] \ {b}, xmfremd(s.osm, b.md))
         IN  Kept(s, t)
<1> DEFINE fl == s.mfl[p]
           k == Len(lower)
           fl1 == [fl EXCEPT ![k] = c]
           al1 == s.mal[p] \ {b}
           o1 == xmfremd(s.osm, b.md)
           A1 == (All(s) \ {g, b}) \cup {c}
<1>1. /\ fl \in Seq(Block) /\ s.mal[p] \subseteq Block
      /\ Once(fl) /\ (p = "st" => Sorted(fl)) /\ ToSet(fl) \cap s.mal[p] = {}
      /\ InList(s, p) = ToSet(fl) \cup s.mal[p]
      /\ InList(s, p) \subseteq All(s) /\ Sound(All(s), s.osm)
      /\ \A n \in InList(s, p) : InPool(p, n)
  BY MemTypes DEF MemOK, InList
<1>2. /\ k \in 1 .. Len(fl) /\ g = fl[k]
      /\ (Front(lower) \o <<c>>) \o upper = fl1
  BY LastReplaced
<1>3. g \in ToSet(fl) /\ g \in Block /\ b \in Block
  BY <1>1, <1>2, ListTypes
<1>4. /\ c.md = g.md /\ c.start = g.start /\ c.length = g.length + b.length
      /\ b.start = g.start + g.length
  BY DEF OneOf, Touches
<1>5. c \notin All(s) /\ Sound(A1, o1) /\ Cover(A1) = Cover(All(s))
  <2> DEFINE A == All(s)
             o == s.osm
  <2>1. /\ Sound(A, o) /\ g \in A /\ b \in A /\ Touches(g, b)
        /\ c \in Block /\ OneOf(g, b, c)
    BY <1>1, <1>3
  <2> HIDE DEF A, o
  <2>2. c \notin A
    BY <2>1, Joined, Zenon
  <2>3. Sound((A \ {g, b}) \cup {c}, xmfremd(o, b.md))
    BY <2>1, Joined, Zenon
  <2>4. Cover((A \ {g, b}) \cup {c}) = Cover(A)
    BY <2>1, Joined
  <2> QED
    BY <2>2, <2>3, <2>4 DEF A, o
<1>6. /\ g.start \in Nat /\ g.length \in Nat /\ b.start \in Nat
      /\ b.length \in Nat
  BY <1>3, BlockFacts
<1>7. /\ fl1 \in Seq(Block) /\ Once(fl1)
      /\ ToSet(fl1) = (ToSet(fl) \ {g}) \cup {c}
  <2>1. c \notin ToSet(fl) \ {fl[k]} /\ c \in Block
    BY <1>1, <1>5
  <2>2. fl \in Seq(Block) /\ Once(fl) /\ k \in 1 .. Len(fl)
    BY <1>1, <1>2
  <2> HIDE DEF fl, k
  <2>3. /\ fl1 \in Seq(Block) /\ Once(fl1)
        /\ ToSet(fl1) = (ToSet(fl) \ {fl[k]}) \cup {c}
        /\ Sorted(fl) /\ fl[k].start <= c.start
           /\ c.start + c.length <= fl[k].start + fl[k].length
             => Sorted(fl1)
    BY <2>1, <2>2, ListReplaced
  <2> HIDE DEF fl1
  <2> QED
    BY <2>3, <1>2
<1>8. p = "st" => Sorted(fl1)
  <2> SUFFICES ASSUME p = "st"
               PROVE  Sorted(fl1)
    OBVIOUS
  <2>1. Ends(c) = Ends(b)
    BY <1>4, <1>6 DEF Ends
  <2>2. ASSUME NEW i \in k + 1 .. Len(fl)
        PROVE  Ends(c) < fl[i].start
    <3> DEFINE j == i - k
    <3>1. /\ Len(fl) = k + Len(upper) /\ k \in Nat /\ Len(upper) \in Nat
          /\ \A x \in 1 .. Len(upper) : fl[k + x] = upper[x]
      OBVIOUS
    <3>2. j \in 1 .. Len(upper) /\ k + j = i
      BY <3>1
    <3> HIDE DEF j, fl, k
    <3> QED
      BY <3>1, <3>2, <2>1
  <2>3. Sorted(fl) /\ c.start = fl[k].start
    BY <1>1, <1>2, <1>4
  <2> HIDE DEF fl, k
  <2> QED
    BY <2>2, <2>3, <1>1, <1>2, ListJoined
<1> HIDE DEF fl1, fl, o1, k
<1>9. InPool(p, c)
  <2>1. InPool(p, b) /\ InPool(p, g)
    BY <1>1, <1>3
  <2> QED
    BY <2>1, <1>4, <1>6 DEF InPool
<1>10. ToSet(fl1) \cap al1 = {}
  BY <1>1, <1>5, <1>7
<1>11. ToSet(fl1) \cup al1 = (InList(s, p) \ {g, b}) \cup {c}
  BY <1>1, <1>3, <1>7
<1>12. al1 \in SUBSET Block
  BY <1>1
<1> HIDE DEF al1
<1>13. Changed(s, p, fl1, al1, o1, {g, b}, {c})
  BY <1>1, <1>3, <1>5, <1>7, <1>8, <1>9, <1>10, <1>11, <1>12 DEF Changed
<1> HIDE DEF A1
<1> DEFINE t == With(s, p, fl1, al1, o1)
<1>14. MemOK(t) /\ All(t) = A1
  BY <1>13, PoolStep DEF A1
<1>15. Cover(All(t)) = Cover(All(s))
  BY <1>5, <1>14
<1>16. t = With(s, p, (Front(lower) \o <<c>>) \o upper,
                s.mal[p] \ {b}, xmfremd(s.osm, b.md))
  BY <1>2 DEF al1, o1
<1> HIDE DEF t
<1> QED
  BY <1>14, <1>15, <1>16 DEF Kept

(* or put between them.                                                    *)
LEMMA PutIn ==
  ASSUME NEW s, MemOK(s), NEW p \in Pools, NEW b \in s.mal[p],
         NEW lower \in Seq(Block), NEW upper \in Seq(Block),
         s.mfl[p] = lower \o upper,
         p = "st" => Between(lower, b, upper)
  PROVE  LET t == With(s, p, (lower \o <<b>>) \o upper, s.mal[p] \ {b}, s.osm)
         IN  Kept(s, t)
<1> DEFINE fl == s.mfl[p]
           fl1 == (lower \o <<b>>) \o upper
           al1 == s.mal[p] \ {b}
<1>1. /\ fl \in Seq(Block) /\ s.mal[p] \subseteq Block
      /\ Once(fl) /\ (p = "st" => Sorted(fl)) /\ ToSet(fl) \cap s.mal[p] = {}
      /\ InList(s, p) = ToSet(fl) \cup s.mal[p]
      /\ InList(s, p) \subseteq All(s) /\ Sound(All(s), s.osm)
      /\ \A n \in InList(s, p) : InPool(p, n)
  BY MemTypes DEF MemOK, InList
<1>2. fl = lower \o upper /\ b \in Block
  BY <1>1
<1> HIDE DEF fl
<1>3. /\ fl1 \in Seq(Block) /\ Once(fl1) /\ ToSet(fl1) = ToSet(fl) \cup {b}
      /\ p = "st" => Sorted(fl1)
  <2>1. Once(lower \o upper) /\ b \notin ToSet(lower \o upper)
    BY <1>1, <1>2
  <2>2. /\ fl1 \in Seq(Block) /\ Once(fl1)
        /\ ToSet(fl1) = ToSet(lower \o upper) \cup {b}
        /\ Sorted(lower \o upper) /\ Between(lower, b, upper) => Sorted(fl1)
    BY <2>1, <1>2, ListInserted
  <2> HIDE DEF fl1
  <2> QED
    BY <2>2, <1>1, <1>2
<1>4. ToSet(fl1) \cap al1 = {}
  <2> HIDE DEF fl1
  <2> QED
    BY <1>1, <1>3
<1>5. /\ ToSet(fl1) \cup al1 = (InList(s, p) \ {}) \cup {}
      /\ (All(s) \ {}) \cup {} = All(s)
  <2> HIDE DEF fl1
  <2> QED
    BY <1>1, <1>3
<1>6. al1 \in SUBSET Block
  BY <1>1
<1> HIDE DEF al1, fl1
<1>7. Changed(s, p, fl1, al1, s.osm, {}, {})
  BY <1>1, <1>3, <1>4, <1>5, <1>6 DEF Changed
<1> DEFINE t == With(s, p, fl1, al1, s.osm)
<1>8. MemOK(t) /\ All(t) = All(s)
  <2> DEFINE N == {}
  <2>1. Changed(s, p, fl1, al1, s.osm, N, N)
    BY <1>7
  <2> HIDE DEF N
  <2>2. MemOK(t) /\ All(t) = (All(s) \ N) \cup N
    BY <2>1, PoolStep
  <2> QED
    BY <2>2 DEF N
<1> HIDE DEF t
<1> QED
  BY <1>8 DEF Kept, t, al1, fl1

LEMMA PlaceFacts ==
  ASSUME NEW fl \in Seq(Block), NEW b \in Block
  PROVE  LET k == Place(fl, b)
         IN  /\ k \in 0 .. Len(fl)
             /\ \A i \in 1 .. k : fl[i].start < b.start
             /\ k < Len(fl) => b.start <= fl[k + 1].start
<1> DEFINE T == {f \in Block : b.start <= f.start}
           j == FirstIn(fl, T)
           n == Len(fl)
           k == Place(fl, b)
<1>1. n \in Nat /\ \A i \in 1 .. n : fl[i] \in Block
  BY ListTypes
<1>2. FirstOf(fl, LAMBDA f : b.start <= f.start) = j
  <2>1. {i \in 1 .. Len(fl) : fl[i] \in T}
          = {i \in 1 .. Len(fl) : b.start <= fl[i].start}
    BY <1>1
  <2> HIDE DEF T
  <2> QED
    BY <2>1 DEF FirstOf, SelectInSeq, FirstIn
<1>3. k = IF j = 0 THEN n ELSE j - 1
  BY <1>2 DEF Place
<1> HIDE DEF T, j, k
<1>4. /\ j \in 0 .. Len(fl)
      /\ j = 0 => \A i \in 1 .. Len(fl) : fl[i] \notin T
      /\ j # 0 => fl[j] \in T /\ \A i \in 1 .. j - 1 : fl[i] \notin T
  BY SearchFacts DEF j
<1>5. b.start \in Nat /\ \A i \in 1 .. n : fl[i].start \in Nat
  BY <1>1, BlockFacts
<1>6. \A i \in 1 .. n : fl[i] \notin T => fl[i].start < b.start
  BY <1>1, <1>5 DEF T
<1>7. CASE j = 0
  <2>1. k = n
    BY <1>3, <1>7
  <2>2. \A i \in 1 .. n : fl[i].start < b.start
    BY <1>4, <1>6, <1>7
  <2>3. k \in 0 .. n /\ ~(k < n)
    BY <2>1, <1>1
  <2> QED
    BY <2>1, <2>2, <2>3 DEF k, n
<1>8. CASE j # 0
  <2>1. j \in 1 .. n /\ k = j - 1 /\ k + 1 = j
    BY <1>1, <1>3, <1>4, <1>8
  <2>2. k \in 0 .. n /\ \A i \in 1 .. k : i \in 1 .. n /\ i \in 1 .. j - 1
    BY <2>1, <1>1
  <2>3. \A i \in 1 .. k : fl[i].start < b.start
    BY <2>2, <1>4, <1>6, <1>8
  <2>4. b.start <= fl[k + 1].start
    BY <2>1, <1>4, <1>8 DEF T
  <2> QED
    BY <2>2, <2>3, <2>4 DEF k, n
<1> QED
  BY <1>7, <1>8

LEMMA Parts ==
  ASSUME NEW fl \in Seq(Block), NEW k \in 0 .. Len(fl)
  PROVE  LET lower == SubSeq(fl, 1, k)
             upper == SubSeq(fl, k + 1, Len(fl))
         IN  /\ lower \in Seq(Block) /\ Len(lower) = k
             /\ \A i \in 1 .. k : lower[i] = fl[i]
             /\ upper \in Seq(Block) /\ Len(upper) = Len(fl) - k
             /\ \A i \in 1 .. Len(fl) - k : upper[i] = fl[k + i]
             /\ fl = lower \o upper
             /\ lower # <<>> <=> k > 0
             /\ upper # <<>> <=> k < Len(fl)
             /\ k > 0 => Last(lower) = fl[k]
<1> DEFINE n == Len(fl)
           lower == SubSeq(fl, 1, k)
           upper == SubSeq(fl, k + 1, n)
           t == lower \o upper
<1>1. n \in Nat /\ k \in Nat /\ k <= n /\ fl = [i \in 1 .. n |-> fl[i]]
  BY ListTypes
<1>2. /\ lower \in Seq(Block) /\ Len(lower) = k
      /\ \A i \in 1 .. k : lower[i] = fl[i]
  <2> HIDE DEF n
  <2>1. 1 + k - 1 = k /\ k + 1 - 1 = k
    BY <1>1
  <2> QED
    BY <2>1, <1>1 DEF n
<1>3. /\ upper \in Seq(Block) /\ Len(upper) = n - k
      /\ \A i \in 1 .. n - k : upper[i] = fl[k + i]
  BY <1>1
<1> HIDE DEF lower, upper
<1>4. /\ t \in Seq(Block) /\ DOMAIN t = 1 .. n
      /\ \A i \in 1 .. k : t[i] = lower[i]
      /\ \A i \in 1 .. n - k : t[k + i] = upper[i]
  <2> HIDE DEF n
  <2>1. lower \in Seq(Block) /\ upper \in Seq(Block)
    BY <1>2, <1>3
  <2>2. Len(lower) + Len(upper) = n
    BY <1>1, <1>2, <1>3
  <2>3. \A i \in 1 .. Len(upper) : t[Len(lower) + i] = upper[i]
    BY <2>1, ConcatFacts
  <2>4. /\ t \in Seq(Block) /\ DOMAIN t = 1 .. Len(lower) + Len(upper)
        /\ \A i \in 1 .. Len(lower) : t[i] = lower[i]
    BY <2>1, ConcatFacts
  <2> HIDE DEF t
  <2> QED
    BY <2>2, <2>3, <2>4, <1>2, <1>3
<1> HIDE DEF t, n
<1>5. ASSUME NEW i \in 1 .. n
      PROVE  t[i] = fl[i]
  <2>1. CASE i <= k
    <3>1. i \in 1 .. k
      BY <2>1, <1>1
    <3> QED
      BY <3>1, <1>2, <1>4
  <2>2. CASE i > k
    <3> DEFINE j == i - k
    <3>1. j \in 1 .. n - k /\ k + j = i
      BY <2>2, <1>1
    <3> HIDE DEF j
    <3> QED
      BY <3>1, <1>3, <1>4
  <2> QED
    BY <2>1, <2>2, <1>1
<1>6. t = [i \in 1 .. n |-> t[i]]
  BY <1>4
<1>7. fl = t
  BY <1>1, <1>5, <1>6
<1>8. lower # <<>> <=> k > 0
  BY <1>1, <1>2, EmptySeq
<1>9. upper # <<>> <=> k < n
  BY <1>1, <1>3, EmptySeq
<1>10. k > 0 => Last(lower) = fl[k]
  <2> SUFFICES ASSUME k > 0
               PROVE  Last(lower) = fl[k]
    OBVIOUS
  <2>1. k \in 1 .. k
    BY <1>1
  <2> QED
    BY <2>1, <1>2 DEF Last
<1> QED
  BY <1>2, <1>3, <1>7, <1>8, <1>9, <1>10 DEF t, n, lower, upper

LEMMA UpperRest ==
  ASSUME NEW fl \in Seq(Block), NEW k \in 0 .. Len(fl), k < Len(fl)
  PROVE  LET upper == SubSeq(fl, k + 1, Len(fl))
         IN  /\ Head(upper) = fl[k + 1]
             /\ Tail(upper) \in Seq(Block) /\ Len(Tail(upper)) = Len(fl) - k - 1
             /\ \A i \in 1 .. Len(fl) - k - 1 : Tail(upper)[i] = fl[k + 1 + i]
             /\ RemoveAt(fl, k + 1) = SubSeq(fl, 1, k) \o Tail(upper)
<1> DEFINE n == Len(fl)
           upper == SubSeq(fl, k + 1, n)
           u == SubSeq(fl, k + 2, n)
           v == Tail(upper)
<1>1. n \in Nat /\ k \in Nat /\ k < n
  BY ListTypes
<1>2. /\ upper \in Seq(Block) /\ Len(upper) = n - k
      /\ \A i \in 1 .. n - k : upper[i] = fl[k + i]
  BY <1>1
<1>3. /\ u \in Seq(Block) /\ Len(u) = n - k - 1 /\ DOMAIN u = 1 .. n - k - 1
      /\ \A i \in 1 .. n - k - 1 : u[i] = fl[k + 1 + i]
  BY <1>1
<1> HIDE DEF upper, u, n
<1>4. /\ Head(upper) = upper[1] /\ v \in Seq(Block)
      /\ Len(v) = n - k - 1 /\ DOMAIN v = 1 .. n - k - 1
      /\ \A i \in 1 .. n - k - 1 : v[i] = upper[i + 1]
  <2>1. upper \in Seq(Block) /\ upper # <<>>
    BY <1>1, <1>2, EmptySeq
  <2>2. /\ Head(upper) = upper[1] /\ v \in Seq(Block)
        /\ Len(v) = Len(upper) - 1 /\ DOMAIN v = 1 .. Len(upper) - 1
        /\ \A i \in 1 .. Len(upper) - 1 : v[i] = upper[i + 1]
    BY <2>1
  <2> HIDE DEF v
  <2> QED
    BY <2>2, <1>1, <1>2
<1> HIDE DEF v
<1>5. ASSUME NEW i \in 1 .. n - k - 1
      PROVE  v[i] = fl[k + 1 + i]
  <2>1. i + 1 \in 1 .. n - k /\ k + (i + 1) = k + 1 + i
    BY <1>1
  <2> QED
    BY <2>1, <1>2, <1>4
<1>6. Head(upper) = fl[k + 1]
  <2>1. 1 \in 1 .. n - k
    BY <1>1
  <2> QED
    BY <2>1, <1>2, <1>4
<1>7. u = v
  <2>1. u = [i \in 1 .. n - k - 1 |-> u[i]]
    BY <1>3
  <2>2. v = [i \in 1 .. n - k - 1 |-> v[i]]
    BY <1>4
  <2>3. \A i \in 1 .. n - k - 1 : u[i] = v[i]
    BY <1>3, <1>5
  <2> QED
    BY <2>1, <2>2, <2>3
<1>8. RemoveAt(fl, k + 1) = SubSeq(fl, 1, k) \o v
  <2>1. (k + 1) - 1 = k /\ (k + 1) + 1 = k + 2
    BY <1>1
  <2>2. RemoveAt(fl, k + 1)
          = SubSeq(fl, 1, (k + 1) - 1) \o SubSeq(fl, (k + 1) + 1, Len(fl))
    BY DEF RemoveAt
  <2> QED
    BY <2>1, <2>2, <1>7 DEF u, n
<1> QED
  BY <1>4, <1>5, <1>6, <1>8 DEF n, upper, v

(* In a sorted list the neighbours are the blocks next to it.              *)
LEMMA PlaceSorted ==
  ASSUME NEW fl \in Seq(Block), Sorted(fl), NEW b \in Block,
         \A m \in ToSet(fl) : Apart(m, b),
         NEW k, k = Place(fl, b)
  PROVE  /\ \A i \in 1 .. k : Ends(fl[i]) <= b.start
         /\ \A i \in k + 1 .. Len(fl) : Ends(b) <= fl[i].start
         /\ \A i \in 1 .. Len(fl) : \A j \in 1 .. Len(fl) :
              i < j => Ends(fl[i]) < fl[j].start
<1> DEFINE n == Len(fl)
<1>1. /\ n \in Nat /\ DOMAIN fl = 1 .. n
      /\ \A i \in 1 .. n : fl[i] \in Block /\ Apart(fl[i], b)
  BY ListTypes
<1>2. /\ k \in 0 .. n
      /\ \A i \in 1 .. k : fl[i].start < b.start
      /\ k < n => b.start <= fl[k + 1].start
  BY PlaceFacts
<1>3. /\ b.start \in Nat /\ b.length \in Nat \ {0}
      /\ \A i \in 1 .. n : fl[i].start \in Nat /\ fl[i].length \in Nat \ {0}
  BY <1>1, BlockFacts
<1>4. \A i, j \in 1 .. n : i < j => Ends(fl[i]) < fl[j].start
  BY <1>1 DEF Sorted, Ends
<1> HIDE DEF n
<1>5. ASSUME NEW i \in 1 .. k
      PROVE  Ends(fl[i]) <= b.start
  <2>1. i \in 1 .. n /\ fl[i].start < b.start
    BY <1>1, <1>2
  <2> QED
    BY <2>1, <1>1, <1>3 DEF Apart, Ends
<1>6. ASSUME NEW i \in k + 1 .. n
      PROVE  Ends(b) <= fl[i].start
  <2>1. i \in 1 .. n /\ k + 1 \in 1 .. n /\ k < n /\ (i = k + 1 \/ k + 1 < i)
    BY <1>1, <1>2
  <2>2. b.start <= fl[i].start
    <3>1. b.start <= fl[k + 1].start
      BY <2>1, <1>2
    <3>2. CASE i = k + 1
      BY <3>1, <3>2
    <3>3. CASE k + 1 < i
      BY <3>1, <3>3, <2>1, <1>3, <1>4 DEF Ends
    <3> QED
      BY <3>2, <3>3, <2>1
  <2> QED
    BY <2>1, <2>2, <1>1, <1>3 DEF Apart, Ends
<1> QED
  BY <1>4, <1>5, <1>6 DEF n

LEMMA IndexAfter ==
  ASSUME NEW k \in Nat, NEW n \in Nat, NEW i \in 1 .. n - k
  PROVE  /\ k + i \in k + 1 .. n /\ k + i \in 1 .. n /\ k + 1 \in 1 .. n
         /\ k < n /\ k + 1 \in k + 1 .. n /\ i \in Int
OBVIOUS

LEMMA IndexBeyond ==
  ASSUME NEW k \in Nat, NEW n \in Nat, NEW i \in 1 .. n - k - 1
  PROVE  /\ k + 1 \in 1 .. n /\ k + 1 + i \in 1 .. n /\ k + 1 < k + 1 + i
OBVIOUS

LEMMA PlaceBetween ==
  ASSUME NEW fl \in Seq(Block), Sorted(fl), NEW b \in Block,
         \A m \in ToSet(fl) : Apart(m, b),
         NEW k, k = Place(fl, b),
         NEW lower, lower = SubSeq(fl, 1, k),
         NEW upper, upper = SubSeq(fl, k + 1, Len(fl))
  PROVE  /\ upper # <<>> /\ Touches(b, Head(upper))
              => /\ \A i \in 1 .. Len(Tail(upper)) :
                      Ends(Head(upper)) < Tail(upper)[i].start
         /\ ~(upper # <<>> /\ Touches(b, Head(upper)))
              => /\ \A i \in 1 .. Len(upper) : Ends(b) < upper[i].start
         /\ ~(lower # <<>> /\ Touches(Last(lower), b))
              => /\ \A i \in 1 .. Len(lower) : Ends(lower[i]) < b.start
<1> DEFINE n == Len(fl)
<1>1. /\ n \in Nat /\ DOMAIN fl = 1 .. n
      /\ \A i \in 1 .. n : fl[i] \in Block
  BY ListTypes
<1>2. k \in 0 .. n
  BY PlaceFacts
<1>3. /\ \A i \in 1 .. k : Ends(fl[i]) <= b.start
      /\ \A i \in k + 1 .. n : Ends(b) <= fl[i].start
      /\ \A i, j \in 1 .. n : i < j => Ends(fl[i]) < fl[j].start
  BY PlaceSorted
<1>4. /\ b.start \in Nat /\ Ends(b) \in Nat
      /\ \A i \in 1 .. n : /\ fl[i].start \in Nat /\ Ends(fl[i]) \in Nat
                            /\ fl[i].start < Ends(fl[i])
  <2>1. ASSUME NEW m \in Block
        PROVE  /\ m.start \in Nat /\ Ends(m) \in Nat /\ m.start < Ends(m)
    <3>1. m.start \in Nat /\ m.length \in Nat /\ m.length > 0
      BY BlockFacts
    <3> QED
      BY <3>1 DEF Ends
  <2> QED
    BY <2>1, <1>1
<1>5. /\ Len(lower) = k /\ \A i \in 1 .. k : lower[i] = fl[i]
      /\ Len(upper) = n - k /\ \A i \in 1 .. n - k : upper[i] = fl[k + i]
      /\ lower # <<>> <=> k > 0
      /\ upper # <<>> <=> k < n
      /\ k > 0 => Last(lower) = fl[k]
  BY <1>2, Parts
<1>6. k < n => /\ Head(upper) = fl[k + 1]
               /\ Len(Tail(upper)) = n - k - 1
               /\ \A i \in 1 .. n - k - 1 : Tail(upper)[i] = fl[k + 1 + i]
  BY <1>2, UpperRest
<1> HIDE DEF n
<1>0. k \in Nat /\ n \in Nat /\ k <= n
  <2>1. n \in Nat
    BY <1>1
  <2> QED
    BY <2>1, <1>2
<1>7. ASSUME upper # <<>>, NEW i \in 1 .. Len(Tail(upper))
      PROVE  Ends(Head(upper)) < Tail(upper)[i].start
  <2>1. k < n
    BY <1>5, <1>7
  <2>2. i \in 1 .. n - k - 1
    BY <2>1, <1>6
  <2>3. k + 1 \in 1 .. n /\ k + 1 + i \in 1 .. n /\ k + 1 < k + 1 + i
    BY <2>2, <1>0, IndexBeyond, Zenon
  <2>4. Head(upper) = fl[k + 1] /\ Tail(upper)[i] = fl[k + 1 + i]
    BY <2>1, <2>2, <1>6
  <2> QED
    BY <2>3, <2>4, <1>3
<1>8. ASSUME ~(upper # <<>> /\ Touches(b, Head(upper))), NEW i \in 1 .. Len(upper)
      PROVE  Ends(b) < upper[i].start
  <2>0. i \in 1 .. n - k
    BY <1>5
  <2>1. /\ k + i \in k + 1 .. n /\ k + i \in 1 .. n /\ k + 1 \in 1 .. n
        /\ k < n /\ k + 1 \in k + 1 .. n /\ i \in Int
    BY <2>0, <1>0, IndexAfter, Zenon
  <2>6. upper[i] = fl[k + i] /\ Head(upper) = fl[k + 1] /\ upper # <<>>
    BY <2>0, <2>1, <1>5, <1>6
  <2>2. Ends(b) <= fl[k + 1].start /\ Ends(b) # fl[k + 1].start
    BY <2>1, <2>6, <1>3, <1>8 DEF Touches, Ends
  <2>3. Ends(b) < fl[k + 1].start
    BY <2>1, <2>2, <1>4
  <2>4. CASE i = 1
    BY <2>6, <2>3, <2>4
  <2>5. CASE i # 1
    <3>1. k + 1 < k + i
      BY <2>0, <2>5, <1>1, <1>2
    <3>2. Ends(fl[k + 1]) < fl[k + i].start
      BY <3>1, <2>1, <1>3
    <3>4. /\ fl[k + 1].start < Ends(fl[k + 1]) /\ fl[k + 1].start \in Nat
          /\ Ends(fl[k + 1]) \in Nat /\ fl[k + i].start \in Nat /\ Ends(b) \in Nat
      BY <2>1, <1>4
    <3>3. Ends(b) < fl[k + i].start
      BY <3>2, <3>4, <2>3
    <3> QED
      BY <3>3, <2>6
  <2> QED
    BY <2>4, <2>5
<1>9. ASSUME ~(lower # <<>> /\ Touches(Last(lower), b)), NEW i \in 1 .. Len(lower)
      PROVE  Ends(lower[i]) < b.start
  <2>1. /\ i \in 1 .. k /\ i \in 1 .. n /\ k \in 1 .. n /\ k \in 1 .. k /\ k > 0
        /\ lower[i] = fl[i] /\ Last(lower) = fl[k] /\ lower # <<>>
    <3>1. k \in Nat /\ n \in Nat /\ k <= n /\ i \in Nat /\ 1 <= i /\ i <= k
      BY <1>1, <1>2, <1>5
    <3>2. i \in 1 .. k /\ i \in 1 .. n /\ k \in 1 .. n /\ k \in 1 .. k /\ k > 0
      BY <3>1
    <3> QED
      BY <3>2, <1>5
  <2>2. Ends(fl[k]) <= b.start /\ Ends(fl[k]) # b.start
    <3>1. Ends(fl[k]) <= b.start
      BY <2>1, <1>3
    <3>2. ~Touches(fl[k], b)
      BY <2>1, <1>9
    <3> QED
      BY <3>1, <3>2 DEF Touches, Ends
  <2>5. Ends(fl[k]) < b.start
    <3>1. Ends(fl[k]) \in Nat /\ b.start \in Nat
      BY <2>1, <1>4
    <3> QED
      BY <3>1, <2>2
  <2>3. CASE i = k
    BY <2>1, <2>3, <2>5
  <2>4. CASE i # k
    <3>1. i < k
      BY <2>1, <2>4
    <3>2. Ends(fl[i]) < fl[k].start
      BY <3>1, <2>1, <1>3
    <3>3. /\ fl[k].start \in Nat /\ fl[k].start < Ends(fl[k])
          /\ Ends(fl[k]) \in Nat /\ Ends(fl[i]) \in Nat /\ b.start \in Nat
      BY <2>1, <1>4
    <3>4. Ends(fl[i]) < b.start
      BY <3>2, <3>3, <2>5, SMTT(30)
    <3> QED
      BY <3>4, <2>1
  <2> QED
    BY <2>3, <2>4
<1> QED
  BY <1>7, <1>8, <1>9

(* The last part of freeit(): the block is in order, and b is put among    *)
(* the free blocks.                                                        *)
PutTo(lower, b, rest) ==
  IF lower # <<>> /\ Touches(Last(lower), b)
  THEN (Front(lower) \o <<[Last(lower) EXCEPT !.length = @ + b.length]>>) \o rest
  ELSE (lower \o <<b>>) \o rest

PutOsm(lower, b, o) ==
  IF lower # <<>> /\ Touches(Last(lower), b) THEN xmfremd(o, b.md) ELSE o

LEMMA Put ==
  ASSUME NEW s, MemOK(s), NEW p \in Pools, NEW b \in s.mal[p],
         NEW lower \in Seq(Block), NEW rest \in Seq(Block),
         s.mfl[p] = lower \o rest,
         p = "st" => /\ \A i \in 1 .. Len(rest) : Ends(b) < rest[i].start
                     /\ ~(lower # <<>> /\ Touches(Last(lower), b))
                          => \A i \in 1 .. Len(lower) : Ends(lower[i]) < b.start
  PROVE  LET t == With(s, p, PutTo(lower, b, rest), s.mal[p] \ {b},
                       PutOsm(lower, b, s.osm))
         IN  Kept(s, t)
<1>0. b \in Block
  BY MemTypes
<1>1. CASE lower # <<>> /\ Touches(Last(lower), b)
  <2> DEFINE g == Last(lower)
             c == [g EXCEPT !.length = @ + b.length]
  <2>1. g \in Block
    BY <1>1, ListTypes DEF Last
  <2>2. c = [g EXCEPT !.length = g.length + b.length]
    BY <2>1 DEF Block
  <2>3. g.length + b.length \in Nat \ {0}
    <3>1. /\ g.length \in Nat /\ g.length > 0
          /\ b.length \in Nat /\ b.length > 0
      BY <2>1, <1>0, BlockFacts
    <3> QED
      BY <3>1
  <2>4. c \in Block /\ OneOf(g, b, c)
    <3> DEFINE x == g.length + b.length
    <3>1. x \in Nat \ {0}
      BY <2>3
    <3> HIDE DEF g, x
    <3>2. LET r == [g EXCEPT !.length = x]
          IN  /\ r \in Block /\ r.md = g.md /\ r.start = g.start
              /\ r.length = x /\ r.own = g.own
      BY <3>1, <2>1, LengthChanged
    <3> QED
      BY <3>2, <2>2 DEF OneOf, x
  <2> HIDE DEF c
  <2>5. PutTo(lower, b, rest) = (Front(lower) \o <<c>>) \o rest
    BY <1>1 DEF PutTo, c
  <2>6. PutOsm(lower, b, s.osm) = xmfremd(s.osm, b.md)
    BY <1>1 DEF PutOsm
  <2>7. p = "st" => \A i \in 1 .. Len(rest) : Ends(b) < rest[i].start
    OBVIOUS
  <2> DEFINE t == With(s, p, (Front(lower) \o <<c>>) \o rest,
                       s.mal[p] \ {b}, xmfremd(s.osm, b.md))
  <2>8. Kept(s, t)
    <3> HIDE DEF t
    <3>1. g = Last(lower) /\ Touches(g, b)
      BY <1>1
    <3>2. c \in Block /\ OneOf(g, b, c) /\ lower # <<>>
      BY <2>4, <1>1
    <3> HIDE DEF g
    <3> QED
      BY <3>1, <3>2, <2>7, PutLo, Zenon DEF t
  <2> HIDE DEF t
  <2> QED
    BY <2>5, <2>6, <2>8 DEF t
<1>2. CASE ~(lower # <<>> /\ Touches(Last(lower), b))
  <2>1. PutTo(lower, b, rest) = (lower \o <<b>>) \o rest
    BY <1>2 DEF PutTo
  <2>2. PutOsm(lower, b, s.osm) = s.osm
    BY <1>2 DEF PutOsm
  <2>3. p = "st" => Between(lower, b, rest)
    BY <1>2 DEF Between
  <2> DEFINE t == With(s, p, (lower \o <<b>>) \o rest, s.mal[p] \ {b}, s.osm)
  <2>4. Kept(s, t)
    BY <2>3, PutIn
  <2> HIDE DEF t
  <2> QED
    BY <2>1, <2>2, <2>4 DEF t
<1> QED
  BY <1>1, <1>2

LEMMA Freeit ==
  ASSUME NEW s, MemOK(s), NEW p \in Pools, NEW m \in s.mal[p]
  PROVE  LET t == freeit(s, p, m.start)
         IN  /\ Kept(s, t)
             /\ Alloc(t) = Alloc(s) \ {m}
             /\ t.mal = [s.mal EXCEPT ![p] = @ \ {m}]
<1> DEFINE fl == s.mfl[p]
           al == s.mal[p] \ {m}
           o == s.osm
           b == [m EXCEPT !.own = NULL]
           k == Place(fl, b)
           lower == SubSeq(fl, 1, k)
           upper == SubSeq(fl, k + 1, Len(fl))
           s0 == With(s, p, fl, al \cup {b}, o)
<1>1. m \in Block /\ BlockAt(s, m.start) = m
  BY MemTypes, BlockAtIs
<1>2. b \in Block /\ b.md = m.md /\ b.start = m.start /\ b.length = m.length
  BY <1>1, OwnChanged DEF NULL
<1>3. Kept(s, s0) /\ b \notin al
  <2> HIDE DEF b
  <2> QED
    BY <1>2, Relabelled, Zenon
<1>4. s0.mfl[p] = fl /\ s0.mal[p] = al \cup {b} /\ s0.osm = o
  BY WithWith
<1>5. /\ fl \in Seq(Block) /\ (p = "st" => Sorted(fl)) /\ MemOK(s0)
  BY <1>3, MemTypes DEF MemOK, Kept
<1>6. \A n \in ToSet(fl) : Apart(n, b)
  <2>1. /\ ToSet(fl) \cap s0.mal[p] = {} /\ Sound(All(s0), s0.osm)
        /\ ToSet(fl) \cup s0.mal[p] \subseteq All(s0)
    BY <1>4, <1>5, MemTypes DEF MemOK, InList
  <2> HIDE DEF fl, b, s0, al
  <2> QED
    BY <2>1, <1>4 DEF Sound, Tidy
<1>7. k \in 0 .. Len(fl)
  <2> HIDE DEF fl, b
  <2> QED
    BY <1>2, <1>5, PlaceFacts
<1>8. /\ lower \in Seq(Block) /\ upper \in Seq(Block) /\ fl = lower \o upper
      /\ upper # <<>> <=> k < Len(fl)
  <2> HIDE DEF k, fl
  <2> QED
    BY <1>5, <1>7, Parts
<1> DEFINE h == Head(upper)
           hi == upper # <<>> /\ Touches(b, h)
           lo == lower # <<>> /\ Touches(Last(lower), b)
           b1 == IF hi THEN [b EXCEPT !.length = @ + h.length] ELSE b
           rest == IF hi THEN Tail(upper) ELSE upper
           o1 == IF hi THEN xmfremd(o, h.md) ELSE o
           s1 == With(s, p, lower \o rest, al \cup {b1}, o1)
           fl1 == IF lo THEN Front(lower) \o <<[Last(lower) EXCEPT !.length = @ + b1.length]>>
                        \o rest
                  ELSE lower \o <<b1>> \o rest
           o2 == IF lo THEN xmfremd(o1, b.md) ELSE o1
           t == With(s, p, fl1, al, o2)
<1>9. freeit(s, p, m.start) = t
  BY <1>1 DEF freeit, With
<1> HIDE DEF b, k, lower, upper, fl, s0, al, o
<1>10. /\ b1 \in Block /\ b1.start = b.start /\ b1.md = b.md
       /\ hi => OneOf(b, h, b1)
       /\ ~hi => b1 = b
  <2>1. CASE hi
    <3>1. h \in Block
      BY <1>8, <2>1
    <3> DEFINE x == b.length + h.length
    <3>2. x \in Nat \ {0}
      BY <3>1, <1>2, BlockFacts
    <3>3. b1 = [b EXCEPT !.length = x]
      BY <2>1, <1>2 DEF Block
    <3> HIDE DEF x, h, b1
    <3>4. LET r == [b EXCEPT !.length = x]
          IN  /\ r \in Block /\ r.md = b.md /\ r.start = b.start
              /\ r.length = x /\ r.own = b.own
      BY <3>2, <1>2, LengthChanged
    <3> QED
      BY <2>1, <3>3, <3>4 DEF OneOf, x
  <2>2. CASE ~hi
    BY <2>2, <1>2
  <2> QED
    BY <2>1, <2>2
<1>11. rest \in Seq(Block)
  <2>1. upper # <<>> => Tail(upper) \in Seq(Block)
    BY <1>8
  <2> QED
    BY <2>1, <1>8
<1>12. Kept(s0, s1) /\ b1 \notin al
  <2>1. CASE hi
    <3>1. k + 1 \in 1 .. Len(fl) /\ h = fl[k + 1]
          /\ RemoveAt(fl, k + 1) = lower \o Tail(upper)
      <4>1. k < Len(fl) /\ Len(fl) \in Nat
        BY <2>1, <1>5, <1>8, ListTypes
      <4>2. k + 1 \in 1 .. Len(fl)
        BY <4>1, <1>7
      <4>3. /\ Head(upper) = fl[k + 1]
            /\ RemoveAt(fl, k + 1) = SubSeq(fl, 1, k) \o Tail(upper)
        BY <4>1, <1>5, <1>7, UpperRest DEF upper
      <4> QED
        BY <4>2, <4>3 DEF lower
    <3>2. (s0.mal[p] \ {b}) \cup {b1} = al \cup {b1}
      BY <1>3, <1>4
    <3> HIDE DEF h, b1
    <3>3. /\ MemOK(s0) /\ b \in s0.mal[p] /\ k + 1 \in 1 .. Len(s0.mfl[p])
          /\ h = s0.mfl[p][k + 1] /\ Touches(b, h) /\ b1 \in Block
          /\ OneOf(b, h, b1)
      BY <2>1, <3>1, <1>4, <1>5, <1>10
    <3> DEFINE u == With(s0, p, RemoveAt(s0.mfl[p], k + 1),
                         (s0.mal[p] \ {b}) \cup {b1}, xmfremd(s0.osm, h.md))
               j == k + 1
    <3>4. Kept(s0, u) /\ b1 \notin s0.mal[p]
      <4>1. j \in 1 .. Len(s0.mfl[p]) /\ h = s0.mfl[p][j]
        BY <3>3
      <4>2. u = With(s0, p, RemoveAt(s0.mfl[p], j),
                     (s0.mal[p] \ {b}) \cup {b1}, xmfremd(s0.osm, h.md))
        OBVIOUS
      <4> HIDE DEF j, u
      <4> QED
        BY <4>1, <4>2, <3>3, JoinHi
    <3>5. u = With(s0, p, lower \o Tail(upper), al \cup {b1}, xmfremd(o, h.md))
      BY <3>1, <3>2, <1>4
    <3>6. rest = Tail(upper) /\ o1 = xmfremd(o, h.md)
      BY <2>1
    <3> HIDE DEF u, rest, o1
    <3>7. u = s1
      <4> HIDE DEF s1
      <4>1. With(s0, p, lower \o rest, al \cup {b1}, o1) = s1
        BY WithWith DEF s1, s0
      <4> QED
        BY <4>1, <3>5, <3>6
    <3> QED
      BY <3>4, <3>7, <1>4
  <2>2. CASE ~hi
    <3>1. b1 = b /\ rest = upper /\ o1 = o
      BY <2>2
    <3>2. s1 = s0
      BY <3>1, <1>8 DEF s0
    <3> QED
      BY <3>1, <3>2, <1>3, <1>5 DEF Kept
  <2> QED
    BY <2>1, <2>2
<1>13. s1.mfl[p] = lower \o rest /\ s1.mal[p] = al \cup {b1} /\ s1.osm = o1
  <2> DEFINE f1 == lower \o rest
             a1 == al \cup {b1}
  <2> HIDE DEF f1, a1, o1
  <2>1. LET u == With(s, p, f1, a1, o1)
        IN  u.mfl[p] = f1 /\ u.mal[p] = a1 /\ u.osm = o1
    BY WithWith
  <2> QED
    BY <2>1 DEF f1, a1
<1>14. /\ Touches(Last(lower), b1) <=> Touches(Last(lower), b)
       /\ fl1 = PutTo(lower, b1, rest) /\ o2 = PutOsm(lower, b1, o1)
  <2> HIDE DEF b1, h, rest, o1, hi
  <2>1. Touches(Last(lower), b1) <=> Touches(Last(lower), b)
    BY <1>10 DEF Touches
  <2>2. lo <=> lower # <<>> /\ Touches(Last(lower), b1)
    BY <2>1
  <2> HIDE DEF lo
  <2>3. fl1 = PutTo(lower, b1, rest)
    BY <2>2 DEF PutTo
  <2>4. o2 = PutOsm(lower, b1, o1)
    BY <2>2, <1>10 DEF PutOsm
  <2> QED
    BY <2>1, <2>3, <2>4
<1>15. ASSUME p = "st"
       PROVE  /\ \A i \in 1 .. Len(rest) : Ends(b1) < rest[i].start
              /\ ~(lower # <<>> /\ Touches(Last(lower), b1))
                   => \A i \in 1 .. Len(lower) : Ends(lower[i]) < b1.start
  <2>0. /\ Sorted(fl) /\ k = Place(fl, b) /\ lower = SubSeq(fl, 1, k)
        /\ upper = SubSeq(fl, k + 1, Len(fl))
    BY <1>5, <1>15 DEF k, lower, upper
  <2>1. /\ upper # <<>> /\ Touches(b, Head(upper))
              => \A i \in 1 .. Len(Tail(upper)) :
                      Ends(Head(upper)) < Tail(upper)[i].start
        /\ ~(upper # <<>> /\ Touches(b, Head(upper)))
              => \A i \in 1 .. Len(upper) : Ends(b) < upper[i].start
        /\ ~(lower # <<>> /\ Touches(Last(lower), b))
              => \A i \in 1 .. Len(lower) : Ends(lower[i]) < b.start
    <3>1. fl \in Seq(Block) /\ b \in Block
      BY <1>2, <1>5
    <3>2. \A n \in ToSet(fl) : Apart(n, b)
      BY <1>6
    <3> HIDE DEF h, hi, lo, b1, rest, o1, s1, fl1, o2, t
    <3> QED
      BY <2>0, <3>1, <3>2, PlaceBetween, ZenonT(30)
  <2>2. CASE hi
    <3>0. h \in Block
      BY <1>8, <2>2
    <3>1. Ends(b1) = Ends(h)
      <4>1. b1.length = b.length + h.length /\ b1.start = b.start
            /\ b.start + b.length = h.start
        BY <2>2, <1>10 DEF OneOf, Touches
      <4>2. /\ b.start \in Nat /\ b.length \in Nat /\ h.length \in Nat
        BY <3>0, <1>2, BlockFacts
      <4> HIDE DEF b1, h
      <4> QED
        BY <4>1, <4>2 DEF Ends
    <3>2. rest = Tail(upper) /\ \A i \in 1 .. Len(Tail(upper)) :
                                 Ends(h) < Tail(upper)[i].start
      BY <2>1, <2>2
    <3> HIDE DEF b1, h, rest
    <3> QED
      BY <2>1, <3>1, <3>2, <1>10, <1>14
  <2>3. CASE ~hi
    <3>1. rest = upper /\ b1 = b
      BY <2>3
    <3>2. \A i \in 1 .. Len(upper) : Ends(b) < upper[i].start
      BY <2>1, <2>3
    <3> HIDE DEF rest, b1
    <3> QED
      BY <2>1, <3>1, <3>2
  <2> QED
    BY <2>2, <2>3
<1> DEFINE lo1 == lower # <<>> /\ Touches(Last(lower), b1)
<1> HIDE DEF b1, h, rest, o1, hi, s1, lo, fl1, o2
<1>16. Kept(s1, t)
  <2>1. /\ MemOK(s1) /\ b1 \in s1.mal[p] /\ s1.mal[p] \ {b1} = al
    BY <1>12, <1>13 DEF Kept
  <2>2. Kept(s1, With(s1, p, PutTo(lower, b1, rest), s1.mal[p] \ {b1},
                      PutOsm(lower, b1, s1.osm)))
    BY <2>1, <1>8, <1>11, <1>13, <1>15, Put
  <2>3. Kept(s1, With(s1, p, fl1, al, o2))
    BY <2>1, <2>2, <1>13, <1>14
  <2>4. With(s1, p, fl1, al, o2) = t
    BY WithWith DEF s1
  <2> QED
    BY <2>3, <2>4
<1>17. Kept(s, t)
  BY <1>3, <1>12, <1>16 DEF Kept
<1>18. Alloc(t) = Alloc(s) \ {m}
  <2> DEFINE N == {}
  <2>1. AlChanged(s, p, al, {m}, N)
    BY DEF AlChanged, al
  <2> HIDE DEF N
  <2>2. Alloc(t) = (Alloc(s) \ {m}) \cup N
    BY <2>1, AllocStep
  <2> QED
    BY <2>2 DEF N
<1>19. t.mal = [s.mal EXCEPT ![p] = @ \ {m}]
  BY MemTypes DEF With, al
<1> HIDE DEF t
<1> QED
  BY <1>9, <1>17, <1>18, <1>19

(* xmfree(): a block is freed, or there is none. *)
LEMMA Xmfree ==
  ASSUME NEW s, MemOK(s), NEW addr
  PROVE  LET r == xmfree(s, addr)
         IN  /\ ~IsBlock(s, addr) => r.s = s /\ r.addr = NULL
             /\ IsBlock(s, addr) => /\ Kept(s, r.s)
                                    /\ Alloc(r.s) = Alloc(s) \ {BlockAt(s, addr)}
                                    /\ r.addr = addr
<1> DEFINE m == BlockAt(s, addr)
           p == find_mpb(addr)
<1>1. CASE IsBlock(s, addr)
  <2>1. p \in Pools /\ m \in s.mal[p] /\ m.start = addr
    BY <1>1, IsBlockIs
  <2>2. xmfree(s, addr) = Found(freeit(s, p, addr), addr)
    BY <1>1 DEF xmfree
  <2> DEFINE t == freeit(s, p, addr)
  <2>3. Kept(s, t) /\ Alloc(t) = Alloc(s) \ {m}
    <3> DEFINE u == freeit(s, p, m.start)
    <3> HIDE DEF m, p
    <3>1. Kept(s, u) /\ Alloc(u) = Alloc(s) \ {m}
      <4>1. Kept(s, u)
        BY <2>1, Freeit, Zenon
      <4>2. Alloc(u) = Alloc(s) \ {m}
        BY <2>1, Freeit
      <4> QED
        BY <4>1, <4>2
    <3>2. u = t
      BY <2>1
    <3> HIDE DEF u, t
    <3> QED
      BY <3>1, <3>2
  <2> HIDE DEF t
  <2>4. xmfree(s, addr).s = t /\ xmfree(s, addr).addr = addr
    BY <2>2 DEF Found, t
  <2> QED
    BY <1>1, <2>3, <2>4
<1>2. CASE ~IsBlock(s, addr)
  BY <1>2 DEF xmfree, Found
<1> QED
  BY <1>1, <1>2

(* shrinkit(): the block is shorter, unless there is no descriptor.        *)
LEMMA Shrinkit ==
  ASSUME NEW s, MemOK(s), NEW p \in Pools, NEW m \in s.mal[p],
         NEW n \in Nat \ {0}, n < m.length
  PROVE  LET r == shrinkit(s, p, m.start, n)
         IN  \/ r.s = s /\ r.addr = NULL
             \/ /\ Kept(s, r.s)
                /\ Alloc(r.s) = (Alloc(s) \ {m}) \cup {[m EXCEPT !.length = n]}
                /\ r.addr = m.start
<1> DEFINE o == s.osm
           got == xmgetmd(o)
           m1 == [m EXCEPT !.length = n]
           f == [md |-> got.md, start |-> m.start + n, length |-> m.length - n,
                 own |-> NULL]
           fl == s.mfl[p]
           al1 == (s.mal[p] \ {m}) \cup {m1, f}
           s1 == With(s, p, fl, al1, got.osm)
           A == All(s)
<1>1. /\ m \in Block /\ BlockAt(s, m.start) = m /\ find_mpb(m.start) = p
      /\ s.mfl \in [Pools -> Seq(Block)] /\ s.mal \in [Pools -> SUBSET Block]
      /\ s = [mfl |-> s.mfl, mal |-> s.mal, osm |-> s.osm]
  BY MemTypes, BlockAtIs
<1>2. CASE got.md = NoMD
  BY <1>2 DEF shrinkit, Found
<1>3. CASE got.md # NoMD
  <2>1. shrinkit(s, p, m.start, n) = Found(freeit(s1, p, f.start), m.start)
    <3> HIDE DEF m1
    <3> DEFINE e1 == (s.mal[p] \ {m}) \cup {m1}
               t == [mfl |-> s.mfl, mal |-> [s.mal EXCEPT ![p] = e1],
                     osm |-> got.osm]
    <3>1. [Update(s, m.start, m1) EXCEPT !.osm = got.osm] = t
      <4>1. Update(s, m.start, m1) = [s EXCEPT !.mal[p] = (@ \ {m}) \cup {m1}]
        BY <1>1 DEF Update
      <4>2. Update(s, m.start, m1) = [s EXCEPT !.mal[p] = e1]
        BY <4>1
      <4> HIDE DEF e1, got
      <4>3. Update(s, m.start, m1)
              = [mfl |-> s.mfl, mal |-> [s.mal EXCEPT ![p] = e1], osm |-> s.osm]
        BY <4>2, <1>1
      <4> QED
        BY <4>3
    <3> HIDE DEF got, f
    <3>2. [t EXCEPT !.mal[p] = @ \cup {f}] = s1
      <4>0. t.mal[p] = e1 /\ e1 \cup {f} = al1
        BY <1>1
      <4> HIDE DEF e1, al1
      <4>1. [t EXCEPT !.mal[p] = al1]
              = [mfl |-> s.mfl, mal |-> [s.mal EXCEPT ![p] = al1], osm |-> got.osm]
        <5> DEFINE g == [s.mal EXCEPT ![p] = e1]
        <5>1. [g EXCEPT ![p] = al1] = [s.mal EXCEPT ![p] = al1]
          BY <1>1
        <5>2. t = [mfl |-> s.mfl, mal |-> g, osm |-> got.osm]
          OBVIOUS
        <5> HIDE DEF g, t
        <5>3. [t EXCEPT !.mal[p] = al1]
                = [mfl |-> s.mfl, mal |-> [g EXCEPT ![p] = al1], osm |-> got.osm]
          BY <5>2
        <5> QED
          BY <5>1, <5>3
      <4>2. s1 = [mfl |-> s.mfl, mal |-> [s.mal EXCEPT ![p] = al1], osm |-> got.osm]
        BY <1>1 DEF With
      <4> QED
        BY <4>0, <4>1, <4>2
    <3>3. shrinkit(s, p, m.start, n)
            = Found(freeit([[Update(s, m.start, m1) EXCEPT !.osm = got.osm]
                              EXCEPT !.mal[p] = @ \cup {f}], p, f.start), m.start)
      BY <1>1, <1>3 DEF shrinkit, got, f, m1
    <3> QED
      BY <3>1, <3>2, <3>3
  <2>2. /\ A \subseteq Block /\ Sound(A, o) /\ m \in A
        /\ ToSet(fl) \subseteq A /\ s.mal[p] \subseteq A
        /\ fl \in Seq(Block) /\ s.mal[p] \subseteq Block
        /\ Once(fl) /\ (p = "st" => Sorted(fl)) /\ ToSet(fl) \cap s.mal[p] = {}
        /\ InList(s, p) = ToSet(fl) \cup s.mal[p] /\ m \in InList(s, p)
        /\ \A x \in InList(s, p) : InPool(p, x)
    BY MemTypes DEF MemOK, InList
  <2>3. /\ m.start \in Nat /\ m.length \in Nat /\ n \in Nat
        /\ m.length - n \in Nat \ {0} /\ m.start + n \in Nat
    BY <1>1, BlockFacts
  <2>4. m1 \in Block /\ m1.md = m.md /\ m1.start = m.start /\ m1.length = n
    BY <1>1, LengthChanged
  <2>5. f \in Block
    <3>1. got.md \in MD
      BY <1>3, <2>2, SlotGot DEF Sound
    <3> QED
      BY <3>1, <2>3 DEF Block, MD, NULL
  <2>6. Halves(m, m1, f) /\ f.md = got.md
    BY <2>3, <2>4 DEF Halves
  <2>7. f.start # m1.start
    BY <2>3, <2>4
  <2> HIDE DEF f, m1, A, o, fl
  <2>8. /\ m1 \notin A \ {m} /\ f \notin A
        /\ Sound((A \ {m}) \cup {m1, f}, got.osm)
        /\ Cover((A \ {m}) \cup {m1, f}) = Cover(A)
    <3>1. m1 \notin A \ {m} /\ f \notin A
      BY <1>3, <2>2, <2>4, <2>5, <2>6, Split, ZenonT(40)
    <3>2. Sound((A \ {m}) \cup {m1, f}, got.osm)
      BY <1>3, <2>2, <2>4, <2>5, <2>6, Split, Zenon
    <3>3. Cover((A \ {m}) \cup {m1, f}) = Cover(A)
      BY <1>3, <2>2, <2>4, <2>5, <2>6, Split
    <3> QED
      BY <3>1, <3>2, <3>3
  <2>9. InPool(p, m1) /\ InPool(p, f)
    <3>1. /\ f.start = m.start + n /\ f.length = m.length - n
      BY DEF f
    <3>2. InPool(p, m)
      BY <2>2
    <3> QED
      BY <3>1, <3>2, <2>3, <2>4, Constants DEF InPool
  <2>10. /\ ToSet(fl) \cap al1 = {} /\ al1 \in SUBSET Block
         /\ ToSet(fl) \cup al1 = (InList(s, p) \ {m}) \cup {m1, f}
    BY <2>2, <2>4, <2>5, <2>8
  <2>11. Changed(s, p, fl, al1, got.osm, {m}, {m1, f})
    <3> HIDE DEF al1, got
    <3> QED
      BY <2>2, <2>8, <2>9, <2>10 DEF Changed, A
  <2>12. AlChanged(s, p, al1, {m}, {m1, f})
    BY DEF AlChanged
  <2>13. (f \in al1 /\ m \notin {m1, f}) \/ m1 = m
    BY <2>2, <2>8
  <2> HIDE DEF al1, got
  <2>14. MemOK(s1) /\ All(s1) = (A \ {m}) \cup {m1, f}
    BY <2>11, PoolStep DEF A
  <2>15. Alloc(s1) = (Alloc(s) \ {m}) \cup {m1, f}
    BY <2>12, AllocStep
  <2>16. Kept(s, s1)
    BY <2>8, <2>14 DEF Kept, A
  <2>17. s1.mal[p] = al1
    BY WithWith
  <2> HIDE DEF s1
  <2> DEFINE t == freeit(s1, p, f.start)
  <2>18. Kept(s1, t) /\ Alloc(t) = Alloc(s1) \ {f}
    <3>1. f \in s1.mal[p]
      BY <2>13, <2>17 DEF al1
    <3>2. Kept(s1, t)
      BY <3>1, <2>14, Freeit, Zenon
    <3>3. Alloc(t) = Alloc(s1) \ {f}
      BY <3>1, <2>14, Freeit
    <3> QED
      BY <3>2, <3>3
  <2> HIDE DEF t
  <2>19. Kept(s, t)
    BY <2>16, <2>18 DEF Kept
  <2>20. Alloc(t) = (Alloc(s) \ {m}) \cup {m1}
    <3>1. f \notin Alloc(s)
      BY <2>8, AllocFacts DEF A
    <3>2. f # m1
      BY <2>7
    <3> QED
      BY <3>1, <3>2, <2>15, <2>18
  <2>21. /\ shrinkit(s, p, m.start, n).s = t
         /\ shrinkit(s, p, m.start, n).addr = m.start
    BY <2>1 DEF Found, t
  <2> QED
    BY <2>19, <2>20, <2>21 DEF m1
<1> QED
  BY <1>2, <1>3

(* xsetblk(): the call fails or changes nothing, the block is freed, or it *)
(* is shorter.                                                             *)
LEMMA Xsetblk ==
  ASSUME NEW s, MemOK(s), NEW addr, NEW n \in Nat
  PROVE  LET r == xsetblk(s, addr, n)
             m == BlockAt(s, addr)
         IN  \/ r.s = s
             \/ /\ IsBlock(s, addr) /\ n = 0 /\ r.addr # NULL
                /\ Kept(s, r.s) /\ Alloc(r.s) = Alloc(s) \ {m}
             \/ /\ IsBlock(s, addr) /\ n # 0 /\ r.addr # NULL
                /\ Kept(s, r.s)
                /\ \E x \in Block :
                     /\ x.start = m.start /\ x.own = m.own
                     /\ x.length \in 1 .. m.length
                     /\ Alloc(r.s) = (Alloc(s) \ {m}) \cup {x}
<1> DEFINE m == BlockAt(s, addr)
           p == find_mpb(addr)
           len == Round(p, n)
           r == xsetblk(s, addr, n)
<1>1. CASE ~IsBlock(s, addr) \/ m.length < len
  BY <1>1 DEF xsetblk, Found
<1>2. CASE IsBlock(s, addr) /\ ~(m.length < len)
  <2>1. /\ p \in Pools /\ m \in s.mal[p] /\ m.start = addr /\ m \in Block
    BY <1>2, IsBlockIs
  <2>2. /\ len \in Nat /\ len >= n /\ (n = 0 => len = 0) /\ m.length \in Nat \ {0}
    BY <2>1, RoundFacts, BlockFacts
  <2>3. addr # NULL
    <3>1. m \in Alloc(s)
      BY <1>2, AllocFacts
    <3>2. StStart <= m.start
      BY <3>1, AllocFacts
    <3> QED
      BY <3>2, <2>1, BlockFacts, Constants
  <2>4. CASE m.length = len
    BY <1>2, <2>4 DEF xsetblk, Found
  <2>5. CASE m.length # len /\ len = 0
    <3>1. r = Found(freeit(s, p, addr), addr)
      BY <1>2, <2>5 DEF xsetblk
    <3> DEFINE t == freeit(s, p, m.start)
    <3>2. r.s = t /\ r.addr = addr
      BY <3>1, <2>1 DEF Found
    <3> HIDE DEF r, m, p, len
    <3>3. Kept(s, t)
      BY <2>1, Freeit, Zenon
    <3>4. Alloc(t) = Alloc(s) \ {m}
      BY <2>1, Freeit
    <3>5. n = 0
      BY <2>2, <2>5
    <3> HIDE DEF t
    <3> QED
      BY <1>2, <2>3, <3>2, <3>3, <3>4, <3>5 DEF r, m
  <2>6. CASE m.length # len /\ len # 0
    <3>0. ~(~IsBlock(s, addr) \/ m.length < len)
      BY <1>2
    <3>1. r = shrinkit(s, p, addr, len)
      BY <3>0, <2>6 DEF xsetblk
    <3> DEFINE u == shrinkit(s, p, m.start, len)
               x == [m EXCEPT !.length = len]
    <3>2. u = r
      BY <3>1, <2>1
    <3> HIDE DEF r, m, p, len
    <3>3. len \in Nat \ {0} /\ len < m.length /\ n # 0
      BY <1>2, <2>2, <2>6
    <3>4. \/ u.s = s /\ u.addr = NULL
          \/ Kept(s, u.s) /\ Alloc(u.s) = (Alloc(s) \ {m}) \cup {x} /\ u.addr = m.start
      BY <3>3, <2>1, Shrinkit
    <3>5. x \in Block /\ x.start = m.start /\ x.own = m.own
          /\ x.length \in 1 .. m.length
      BY <2>1, <2>2, <3>3, LengthChanged
    <3> HIDE DEF u, x
    <3>6. \/ r.s = s
          \/ /\ IsBlock(s, addr) /\ n # 0 /\ r.addr # NULL
             /\ Kept(s, r.s)
             /\ \E y \in Block :
                  /\ y.start = m.start /\ y.own = m.own
                  /\ y.length \in 1 .. m.length
                  /\ Alloc(r.s) = (Alloc(s) \ {m}) \cup {y}
      <4>1. CASE u.s = s
        BY <4>1, <3>2
      <4>2. CASE Kept(s, u.s) /\ Alloc(u.s) = (Alloc(s) \ {m}) \cup {x} /\ u.addr = m.start
        BY <4>2, <1>2, <2>1, <2>3, <3>2, <3>3, <3>5
      <4> QED
        BY <3>4, <4>1, <4>2
    <3> QED
      BY <3>6 DEF r, m
  <2> QED
    BY <2>4, <2>5, <2>6
<1> QED
  BY <1>1, <1>2

(* xmxalloc(). *)
LEMMA Xmxalloc ==
  ASSUME NEW s, MemOK(s), NEW n \in Nat \ {0}, NEW mode \in Modes, NEW own \in Nat
  PROVE  Given(s, xmxalloc(s, n, mode, own), own)
<1> DEFINE q == PoolsOf(mode)
<1>1. q[1] \in Pools /\ (Len(q) # 1 => q[2] \in Pools)
  BY DEF Modes, PoolsOf, Pools
<1> HIDE DEF q
<1>2. /\ Given(s, ffit(s, q[1], n, own), own)
      /\ Len(q) # 1 => Given(s, ffit(s, q[2], n, own), own)
  BY <1>1, Ffit
<1>3. \/ xmxalloc(s, n, mode, own) = ffit(s, q[1], n, own)
      \/ Len(q) # 1 /\ xmxalloc(s, n, mode, own) = ffit(s, q[2], n, own)
  BY DEF xmxalloc, q
<1> QED
  BY <1>2, <1>3

(* ffit(-1): there is a largest free block. *)
LEMMA LargestFacts ==
  ASSUME NEW s, MemOK(s), NEW p \in Pools
  PROVE  Largest(s, p) \in Nat
<1> DEFINE fl == s.mfl[p]
           n == Len(fl)
           L == {m.length : m \in ToSet(fl)} \cup {0}
           U == {u \in Nat : \A x \in L : x <= u}
           K == {k \in Nat : k <= n /\ ~\E u \in Nat : \A i \in 1 .. k : fl[i].length <= u}
<1>1. /\ n \in Nat /\ \A i \in 1 .. n : fl[i].length \in Nat
      /\ \A m : m \in ToSet(fl) <=> \E i \in 1 .. n : fl[i] = m
  <2>1. fl \in Seq(Block)
    BY MemTypes
  <2> HIDE DEF fl
  <2> QED
    BY <2>1, ListTypes, BlockFacts
<1>2. K = {}
  <2> SUFFICES ASSUME K # {}
               PROVE  FALSE
    OBVIOUS
  <2> DEFINE k == Min(K)
  <2>1. k \in K /\ \A j \in K : k <= j
    <3>1. K \in SUBSET Nat
      OBVIOUS
    <3> HIDE DEF K
    <3> QED
      BY <3>1, MinFacts
  <2> HIDE DEF k, fl, n
  <2>2. k \in Nat /\ k <= n /\ ~\E u \in Nat : \A i \in 1 .. k : fl[i].length <= u
    BY <2>1
  <2>3. k # 0
    BY <2>2
  <2>4. k - 1 \in Nat /\ k - 1 <= n /\ k - 1 \notin K
    <3>1. k - 1 \in Nat /\ k - 1 <= n
      BY <2>2, <2>3, <1>1
    <3> HIDE DEF K
    <3>2. k - 1 \in K => k <= k - 1
      BY <2>1
    <3> QED
      BY <3>1, <3>2, <2>2
  <2>5. PICK u \in Nat : \A i \in 1 .. k - 1 : fl[i].length <= u
    BY <2>4
  <2>6. fl[k].length \in Nat
    BY <2>2, <2>3, <1>1
  <2> DEFINE v == u + fl[k].length
  <2>7. v \in Nat /\ u <= v /\ fl[k].length <= v
    BY <2>6
  <2> HIDE DEF v, K
  <2>8. ASSUME NEW i \in 1 .. k
        PROVE  fl[i].length <= v
    <3>1. CASE i = k
      BY <3>1, <2>7
    <3>2. CASE i # k
      <4>0. k \in Nat /\ k <= n /\ n \in Nat
        BY <2>2, <1>1
      <4>1. i \in 1 .. k - 1 /\ i \in 1 .. n
        BY <3>2, <4>0
      <4>2. fl[i].length <= u /\ fl[i].length \in Nat
        BY <4>1, <2>5, <1>1
      <4> QED
        BY <4>2, <2>7
    <3> QED
      BY <3>1, <3>2
  <2> QED
    BY <2>2, <2>7, <2>8
<1>3. L \subseteq Nat
  <2> HIDE DEF fl, n
  <2> QED
    BY <1>1
<1>4. U # {}
  <2>1. n \notin K
    BY <1>2
  <2> HIDE DEF fl, n
  <2>2. PICK u \in Nat : \A i \in 1 .. n : fl[i].length <= u
    BY <2>1, <1>1
  <2>3. u \in U
    BY <2>2, <1>1
  <2> QED
    BY <2>3
<1> DEFINE w == Min(U)
<1>5. w \in U /\ \A u \in U : w <= u
  <2>1. U \in SUBSET Nat
    OBVIOUS
  <2> HIDE DEF U
  <2> QED
    BY <2>1, <1>4, MinFacts
<1> HIDE DEF w
<1>6. 0 \in L
  OBVIOUS
<1>7. Largest(s, p) = Max(L)
  BY DEF Largest
<1> HIDE DEF L
<1>8. w \in Nat /\ \A x \in L : x <= w
  BY <1>5
<1>9. w \in L
  <2> SUFFICES ASSUME w \notin L
               PROVE  FALSE
    OBVIOUS
  <2>1. w # 0 /\ w - 1 \in Nat
    BY <1>6, <1>8
  <2>2. \A x \in L : x <= w - 1
    BY <1>3, <1>8
  <2>3. w - 1 \in U
    BY <2>1, <2>2
  <2> QED
    BY <2>3, <1>5, <1>8
<1>10. Max(L) \in L
  BY <1>3, <1>8, <1>9 DEF Max
<1> QED
  BY <1>3, <1>7, <1>10

(***************************************************************************)
(* Pexec().                                                                *)
(***************************************************************************)
LEMMA Env ==
  ASSUME NEW s, MemOK(s), NEW ttload, run \in Nat
  PROVE  Given(s, alloc_env(s, ttload), run)
<1> DEFINE mode == IF ttload THEN "MX_PREFTTRAM" ELSE "MX_STRAM"
<1>1. mode \in Modes
  BY DEF Modes
<1>2. alloc_env(s, ttload) = xmxalloc(s, EnvSize, mode, run)
  BY DEF alloc_env
<1> HIDE DEF mode
<1> QED
  BY <1>1, <1>2, Xmxalloc, Constants

LEMMA Tpa ==
  ASSUME NEW s, MemOK(s), NEW ttload, NEW big, NEW needed \in Nat \ {0},
         run \in Nat
  PROVE  Given(s, alloc_tpa(s, ttload, big, needed), run)
<1> DEFINE st == Largest(s, "st")
           alt == Largest(s, "alt")
<1>1. st \in Nat /\ alt \in Nat /\ "st" \in Pools /\ "alt" \in Pools
  BY LargestFacts DEF Pools
<1>2. \/ /\ alloc_tpa(s, ttload, big, needed) = ffit(s, "alt", alt, run)
         /\ alt >= needed
      \/ /\ alloc_tpa(s, ttload, big, needed) = ffit(s, "st", st, run)
         /\ st >= needed
      \/ alloc_tpa(s, ttload, big, needed) = Found(s, NULL)
  BY DEF alloc_tpa
<1> HIDE DEF st, alt
<1>3. alt >= needed => Given(s, ffit(s, "alt", alt, run), run)
  BY <1>1, Ffit
<1>4. st >= needed => Given(s, ffit(s, "st", st, run), run)
  BY <1>1, Ffit
<1>5. Given(s, Found(s, NULL), run)
  BY DEF Given
<1> QED
  BY <1>2, <1>3, <1>4, <1>5

(* What Pexec() has got: nothing, an environment, or that and a basepage.  *)
Basepage(s, b, own, e, t) ==
  /\ e \in Block /\ e.start = b.env /\ e.own = own /\ e \notin Alloc(s)
  /\ t \in Block /\ t.start = b.pd /\ t.own = own /\ t \notin Alloc(s) \cup {e}
  /\ Alloc(b.s) = Alloc(s) \cup {e, t}

EnvOnly(s, b, e) ==
  /\ e \in Block /\ e.start = b.env /\ e \notin Alloc(s)
  /\ Alloc(b.s) = Alloc(s) \cup {e}

Prepared(s, b, own) ==
  /\ Kept(s, b.s)
  /\ \/ b.env = NULL /\ b.pd = NULL /\ b.s = s
     \/ b.env # NULL /\ b.pd = NULL /\ \E e : EnvOnly(s, b, e)
     \/ b.env # NULL /\ b.pd # NULL /\ \E e, t : Basepage(s, b, own, e, t)

LEMMA PreparedIs ==
  ASSUME NEW s, MemOK(s), NEW r \in Requests, run \in Nat
  PROVE  Prepared(s, NewBasepage(s, r), run)
<1> DEFINE e == alloc_env(s, r.ttload)
           t == alloc_tpa(e.s, r.ttload, r.big, r.needed)
           b == NewBasepage(s, r)
<1>1. Given(s, e, run)
  BY Env
<1>2. r.needed \in Nat \ {0}
  BY Constants DEF Requests
<1>3. Kept(s, s)
  BY DEF Kept
<1>4. CASE e.addr = NULL
  <2>1. b.s = s /\ b.pd = NULL /\ b.env = NULL
    BY <1>4 DEF NewBasepage
  <2> HIDE DEF b
  <2> QED
    BY <2>1, <1>3 DEF Prepared, b
<1>5. CASE e.addr # NULL
  <2>1. b.s = t.s /\ b.pd = t.addr /\ b.env = e.addr
    BY <1>5 DEF NewBasepage
  <2> HIDE DEF e
  <2>2. e # Found(s, NULL)
    BY <1>5 DEF Found
  <2>3. Kept(s, e.s) /\ \E m \in Block :
           m.own = run /\ m.start = e.addr /\ m \notin Alloc(s)
           /\ Alloc(e.s) = Alloc(s) \cup {m}
    BY <1>1, <2>2 DEF Given
  <2>4. PICK m \in Block : m.own = run /\ m.start = e.addr /\ m \notin Alloc(s)
                           /\ Alloc(e.s) = Alloc(s) \cup {m}
    BY <2>3
  <2>5. Given(e.s, t, run)
    BY <1>2, <2>3, Tpa DEF Kept
  <2> HIDE DEF t, b
  <2>6. CASE t.addr = NULL
    <3>1. t.s = e.s
      BY <2>5, <2>6 DEF Given, Found
    <3>2. EnvOnly(s, b, m)
      BY <2>1, <2>4, <3>1 DEF EnvOnly
    <3> QED
      BY <1>5, <2>1, <2>3, <2>6, <3>1, <3>2 DEF Prepared, b
  <2>7. CASE t.addr # NULL
    <3>1. t # Found(e.s, NULL)
      BY <2>7 DEF Found
    <3>2. Kept(e.s, t.s) /\ \E n \in Block :
             n.own = run /\ n.start = t.addr /\ n \notin Alloc(e.s)
             /\ Alloc(t.s) = Alloc(e.s) \cup {n}
      BY <2>5, <3>1 DEF Given
    <3>3. PICK n \in Block : n.own = run /\ n.start = t.addr /\ n \notin Alloc(e.s)
                             /\ Alloc(t.s) = Alloc(e.s) \cup {n}
      BY <3>2
    <3>4. Kept(s, t.s)
      BY <2>3, <3>2 DEF Kept
    <3>5. Alloc(b.s) = Alloc(s) \cup {m, n}
      BY <2>1, <2>4, <3>3
    <3>6. Basepage(s, b, run, m, n)
      BY <2>1, <2>4, <3>3, <3>5 DEF Basepage
    <3> QED
      BY <1>5, <2>1, <2>7, <3>4, <3>6 DEF Prepared, b
  <2> QED
    BY <2>6, <2>7
<1> QED
  BY <1>4, <1>5

(* An allocated block is found by its address, and freed.                  *)
LEMMA FreeAllocated ==
  ASSUME NEW s, MemOK(s), NEW m \in Alloc(s)
  PROVE  LET t == xmfree(s, m.start).s
         IN  Kept(s, t) /\ Alloc(t) = Alloc(s) \ {m}
<1> DEFINE a == m.start
<1>1. IsBlock(s, a) /\ BlockAt(s, a) = m
  BY AllocFacts
<1> DEFINE r == xmfree(s, a)
           n == BlockAt(s, a)
<1> HIDE DEF a
<1>2. IsBlock(s, a) => /\ Kept(s, r.s) /\ Alloc(r.s) = Alloc(s) \ {n}
  BY Xmfree
<1> HIDE DEF r
<1> QED
  BY <1>1, <1>2 DEF r, a

(* Pexec() that fails leaves the allocated blocks as they were.            *)
LEMMA NotLoadedFacts ==
  ASSUME NEW s, MemOK(s), NEW b, NEW own, Prepared(s, b, own)
  PROVE  Kept(s, NotLoaded(b)) /\ Alloc(NotLoaded(b)) = Alloc(s)
<1>0. Kept(s, b.s) /\ MemOK(b.s)
  BY DEF Prepared, Kept
<1>1. CASE b.env = NULL /\ b.pd = NULL /\ b.s = s
  <2>1. NotLoaded(b) = s
    BY <1>1 DEF NotLoaded
  <2> QED
    BY <2>1 DEF Kept
<1>2. CASE b.env # NULL /\ b.pd = NULL /\ \E e : EnvOnly(s, b, e)
  <2>1. PICK e : EnvOnly(s, b, e)
    BY <1>2
  <2>2. /\ e \in Block /\ e.start = b.env /\ e \notin Alloc(s)
        /\ Alloc(b.s) = Alloc(s) \cup {e}
    BY <2>1 DEF EnvOnly
  <2> DEFINE t == xmfree(b.s, e.start).s
  <2>3. NotLoaded(b) = t
    BY <1>2, <2>2 DEF NotLoaded
  <2> HIDE DEF t
  <2>4. Kept(b.s, t) /\ Alloc(t) = Alloc(b.s) \ {e}
    BY <1>0, <2>2, FreeAllocated DEF t
  <2>5. Kept(s, t)
    BY <1>0, <2>4 DEF Kept
  <2>6. Alloc(t) = Alloc(s)
    BY <2>2, <2>4
  <2> QED
    BY <2>3, <2>5, <2>6
<1>3. CASE b.env # NULL /\ b.pd # NULL /\ \E e, t : Basepage(s, b, own, e, t)
  <2>1. PICK e, t : Basepage(s, b, own, e, t)
    BY <1>3
  <2>2. /\ e \in Block /\ e.start = b.env /\ e \notin Alloc(s)
        /\ t \in Block /\ t.start = b.pd /\ t \notin Alloc(s) \cup {e}
        /\ Alloc(b.s) = Alloc(s) \cup {e, t}
    BY <2>1 DEF Basepage
  <2> DEFINE u == xmfree(b.s, e.start).s
             v == xmfree(u, t.start).s
  <2>3. NotLoaded(b) = v
    BY <1>3, <2>2 DEF NotLoaded
  <2> HIDE DEF u
  <2>4. Kept(b.s, u) /\ Alloc(u) = Alloc(b.s) \ {e}
    BY <1>0, <2>2, FreeAllocated DEF u
  <2>5. MemOK(u) /\ t \in Alloc(u)
    BY <2>2, <2>4 DEF Kept
  <2> HIDE DEF v
  <2>6. Kept(u, v) /\ Alloc(v) = Alloc(u) \ {t}
    BY <2>5, FreeAllocated DEF v
  <2>7. Kept(s, v)
    BY <1>0, <2>4, <2>6 DEF Kept
  <2>8. Alloc(v) = Alloc(s)
    BY <2>2, <2>4, <2>6
  <2> QED
    BY <2>3, <2>7, <2>8
<1> QED
  BY <1>1, <1>2, <1>3 DEF Prepared

(* set_owner() of both blocks.                                             *)
LEMMA SetOwners ==
  ASSUME NEW s, MemOK(s), NEW l, NEW t \in Alloc(s), NEW e \in Alloc(s),
         t.start = l.pd, e.start = l.env, t # e, NEW own \in Nat
  PROVE  LET u == set_owners(s, l, own)
         IN  /\ Kept(s, u)
             /\ Alloc(u) = (Alloc(s) \ {t, e}) \cup {[t EXCEPT !.own = own],
                                                     [e EXCEPT !.own = own]}
<1> DEFINE t1 == [t EXCEPT !.own = own]
           e1 == [e EXCEPT !.own = own]
           v == set_owner(s, l.pd, own)
           u == set_owner(v, l.env, own)
<1>1. /\ IsBlock(s, l.pd) /\ BlockAt(s, l.pd) = t /\ Alloc(s) \subseteq All(s)
      /\ t \in Block /\ e \in Block
  BY AllocFacts
<1>2. Kept(s, v) /\ Alloc(v) = (Alloc(s) \ {t}) \cup {t1}
  <2>1. LET x == set_owner(s, l.pd, own)
            m == BlockAt(s, l.pd)
        IN  /\ Kept(s, x)
            /\ Alloc(x) = (Alloc(s) \ {m}) \cup {[m EXCEPT !.own = own]}
    BY <1>1, SetOwner
  <2> QED
    BY <2>1, <1>1
<1> HIDE DEF v
<1>3. MemOK(v) /\ e \in Alloc(v)
  BY <1>2 DEF Kept
<1>4. IsBlock(v, l.env) /\ BlockAt(v, l.env) = e
  BY <1>3, AllocFacts
<1>5. Kept(v, u) /\ Alloc(u) = (Alloc(v) \ {e}) \cup {e1}
  <2>1. LET x == set_owner(v, l.env, own)
            m == BlockAt(v, l.env)
        IN  /\ Kept(v, x)
            /\ Alloc(x) = (Alloc(v) \ {m}) \cup {[m EXCEPT !.own = own]}
    BY <1>3, <1>4, SetOwner
  <2> QED
    BY <2>1, <1>4
<1> HIDE DEF u
<1>6. Kept(s, u)
  BY <1>2, <1>5 DEF Kept
<1>7. t1 # e
  <2>1. t1.start = t.start
    BY <1>1, OwnChanged
  <2>2. t.start # e.start
    BY <1>1, StartsDiffer, MemTypes
  <2> QED
    BY <2>1, <2>2
<1> HIDE DEF t1, e1
<1>8. Alloc(u) = (Alloc(s) \ {t, e}) \cup {t1, e1}
  BY <1>2, <1>5, <1>7
<1>9. set_owners(s, l, own) = u
  BY DEF set_owners, u, v
<1> QED
  BY <1>6, <1>8, <1>9 DEF t1, e1

(***************************************************************************)
(* Folds over the blocks of a program: free_all_owned() and                *)
(* reserve_blocks(). The fold over T is g[T], for the function g that      *)
(* FoldSet chooses; there is one, for T is finite.                         *)
(***************************************************************************)
Step(k, m, x) ==
  IF k.free THEN freeit(x, k.pool, m.start)
  ELSE IF m.start = StStart /\ ~k.low THEN x ELSE xmfremd(x, m.md)

Elem(u) == CHOOSE x \in u : TRUE

FoldStep(k, base, g, u) ==
  IF u = {} THEN base ELSE Step(k, Elem(u), g[u \ {Elem(u)}])

Folded(k, base, D, g) == g = [u \in D |-> FoldStep(k, base, g, u)]

Folds(k, base, T, r) ==
  \E g : Folded(k, base, SUBSET T, g) /\ r = g[T]

LEMMA ElemFacts ==
  ASSUME NEW T, IsFiniteSet(T), NEW u \in SUBSET T
  PROVE  /\ IsFiniteSet(u) /\ Cardinality(u) \in Nat
         /\ Cardinality(u) <= Cardinality(T)
         /\ u = {} <=> Cardinality(u) = 0
         /\ u # {} => /\ Elem(u) \in u /\ u \ {Elem(u)} \in SUBSET T
                      /\ Cardinality(u \ {Elem(u)}) = Cardinality(u) - 1
<1>1. IsFiniteSet(u) /\ Cardinality(u) <= Cardinality(T)
  BY FS_Subset
<1>2. Cardinality(u) \in Nat /\ (u = {} <=> Cardinality(u) = 0)
  BY <1>1, FS_CardinalityType, FS_EmptySet
<1>3. ASSUME u # {}
      PROVE  /\ Elem(u) \in u /\ u \ {Elem(u)} \in SUBSET T
             /\ Cardinality(u \ {Elem(u)}) = Cardinality(u) - 1
  <2>1. Elem(u) \in u
    BY <1>3 DEF Elem
  <2> QED
    BY <2>1, <1>1, FS_RemoveElement
<1> QED
  BY <1>1, <1>2, <1>3

LEMMA FoldExists ==
  ASSUME NEW k, NEW base, NEW T, IsFiniteSet(T)
  PROVE  \E g : Folded(k, base, SUBSET T, g)
<1> DEFINE U(n) == {u \in SUBSET T : Cardinality(u) <= n}
           Bad == {n \in Nat : ~\E g : Folded(k, base, U(n), g)}
<1>1. Bad = {}
  <2> SUFFICES ASSUME Bad # {}
               PROVE  FALSE
    OBVIOUS
  <2> DEFINE n == Min(Bad)
  <2>1. n \in Bad /\ \A j \in Bad : n <= j
    <3>1. Bad \in SUBSET Nat
      OBVIOUS
    <3> HIDE DEF Bad
    <3> QED
      BY <3>1, MinFacts
  <2> HIDE DEF n
  <2>2. n \in Nat /\ ~\E g : Folded(k, base, U(n), g)
    BY <2>1
  <2>3. CASE n = 0
    <3> DEFINE g == [u \in U(n) |-> base]
    <3>1. \A u \in U(n) : FoldStep(k, base, g, u) = base
      BY <2>3, ElemFacts DEF FoldStep
    <3>2. Folded(k, base, U(n), g)
      <4> HIDE DEF U
      <4>1. g = [u \in U(n) |-> FoldStep(k, base, g, u)]
        BY <3>1
      <4> HIDE DEF g
      <4> QED
        BY <4>1 DEF Folded
    <3> QED
      BY <3>2, <2>2
  <2>4. CASE n # 0
    <3>1. n - 1 \in Nat /\ n - 1 \notin Bad
      <4>1. n - 1 \in Nat
        BY <2>2, <2>4
      <4> HIDE DEF Bad
      <4>2. n - 1 \in Bad => n <= n - 1
        BY <2>1
      <4> QED
        BY <4>1, <4>2, <2>2
    <3>2. PICK g : Folded(k, base, U(n - 1), g)
      BY <3>1
    <3> DEFINE h == [u \in U(n) |-> FoldStep(k, base, g, u)]
    <3>3. ASSUME NEW u \in U(n)
          PROVE  FoldStep(k, base, g, u) = FoldStep(k, base, h, u)
      <4>1. CASE u = {}
        BY <4>1 DEF FoldStep
      <4>2. CASE u # {}
        <5> DEFINE v == u \ {Elem(u)}
        <5>1. v \in U(n) /\ v \in U(n - 1)
          <6>1. /\ u \in SUBSET T /\ Cardinality(u) <= n
            OBVIOUS
          <6>2. /\ v \in SUBSET T /\ Cardinality(v) = Cardinality(u) - 1
                /\ Cardinality(u) \in Nat
            BY <6>1, <4>2, ElemFacts
          <6> HIDE DEF v
          <6> QED
            BY <6>1, <6>2, <2>2
        <5> HIDE DEF v, U
        <5>2. g[v] = FoldStep(k, base, g, v)
          <6>1. g = [w \in U(n - 1) |-> FoldStep(k, base, g, w)]
            BY <3>2 DEF Folded
          <6> QED
            BY <5>1, <6>1
        <5>3. h[v] = FoldStep(k, base, g, v)
          BY <5>1
        <5> HIDE DEF h
        <5> QED
          BY <4>2, <5>2, <5>3 DEF FoldStep, v
      <4> QED
        BY <4>1, <4>2
    <3> HIDE DEF U
    <3>4. h = [u \in U(n) |-> FoldStep(k, base, h, u)]
      BY <3>3, Zenon
    <3> HIDE DEF h
    <3> QED
      BY <3>4, <2>2 DEF Folded
  <2> QED
    BY <2>3, <2>4
<1>2. Cardinality(T) \in Nat /\ U(Cardinality(T)) = SUBSET T
  BY ElemFacts, FS_CardinalityType
<1> DEFINE c == Cardinality(T)
<1> HIDE DEF U, c
<1>3. \E g : Folded(k, base, U(c), g)
  BY <1>1, <1>2 DEF c
<1> QED
  BY <1>2, <1>3 DEF c

(* A property of the folds of all subsets, as a set R.                     *)
LEMMA FoldReach ==
  ASSUME NEW k, NEW base, NEW T, IsFiniteSet(T),
         NEW g, Folded(k, base, SUBSET T, g), NEW R,
         <<{}, base>> \in R,
         ASSUME NEW u \in SUBSET T, NEW m \in u, NEW y, <<u \ {m}, y>> \in R
         PROVE  <<u, Step(k, m, y)>> \in R
  PROVE  <<T, g[T]>> \in R
<1> DEFINE Bad == {n \in Nat : \E u \in SUBSET T : Cardinality(u) = n
                                                   /\ <<u, g[u]>> \notin R}
<1>0. g = [u \in SUBSET T |-> FoldStep(k, base, g, u)]
  BY DEF Folded
<1>1. Bad = {}
  <2> SUFFICES ASSUME Bad # {}
               PROVE  FALSE
    OBVIOUS
  <2> DEFINE n == Min(Bad)
  <2>1. n \in Bad /\ \A j \in Bad : n <= j
    <3>1. Bad \in SUBSET Nat
      OBVIOUS
    <3> HIDE DEF Bad
    <3> QED
      BY <3>1, MinFacts
  <2> HIDE DEF n
  <2>2. PICK u \in SUBSET T : Cardinality(u) = n /\ <<u, g[u]>> \notin R
    BY <2>1
  <2>3. g[u] = FoldStep(k, base, g, u)
    BY <1>0
  <2>4. CASE u = {}
    BY <2>2, <2>3, <2>4 DEF FoldStep
  <2>5. CASE u # {}
    <3> DEFINE m == Elem(u)
               v == u \ {m}
    <3>1. /\ m \in u /\ v \in SUBSET T /\ Cardinality(v) = n - 1
          /\ n \in Nat /\ n # 0
      BY <2>2, <2>5, ElemFacts
    <3>2. n - 1 \notin Bad
      <4> HIDE DEF Bad
      <4>1. n - 1 \in Bad => n <= n - 1
        BY <2>1
      <4> QED
        BY <4>1, <3>1
    <3>3. <<v, g[v]>> \in R
      <4> HIDE DEF v
      <4> QED
        BY <3>1, <3>2
    <3> DEFINE y == g[v]
    <3>4. g[u] = Step(k, m, y)
      BY <2>3, <2>5 DEF FoldStep
    <3> HIDE DEF m, y
    <3>5. <<u, Step(k, m, y)>> \in R
      BY <3>1, <3>3 DEF y
    <3> QED
      BY <3>4, <3>5, <2>2
  <2> QED
    BY <2>4, <2>5
<1>2. Cardinality(T) \in Nat /\ T \in SUBSET T
  BY FS_CardinalityType
<1> QED
  BY <1>1, <1>2

FreeKind(p) == [free |-> TRUE, pool |-> p, low |-> FALSE]
KeepKind(low) == [free |-> FALSE, pool |-> "st", low |-> low]

LEMMA FreeAllIs ==
  ASSUME NEW s, NEW p, NEW pd, NEW T, T = OwnedBy(pd, s.mal[p]), IsFiniteSet(T)
  PROVE  Folds(FreeKind(p), s, T, free_all_owned(s, p, pd))
<1> DEFINE E(g) == [u \in SUBSET T |->
                      IF u = {} THEN s
                      ELSE freeit(g[u \ {CHOOSE x \in u : TRUE}], p,
                                  (CHOOSE x \in u : TRUE).start)]
           it == CHOOSE g : g = E(g)
<1>1. PICK g : Folded(FreeKind(p), s, SUBSET T, g)
  BY FoldExists
<1>2. ASSUME NEW h
      PROVE  [u \in SUBSET T |-> FoldStep(FreeKind(p), s, h, u)] = E(h)
  BY DEF FoldStep, Step, Elem, FreeKind
<1>3. g = E(g)
  BY <1>1, <1>2 DEF Folded
<1>4. free_all_owned(s, p, pd) = it[T]
  BY DEF free_all_owned, FoldSet, MapThenFoldSet
<1> HIDE DEF E
<1>5. it = E(it)
  BY <1>3
<1> HIDE DEF it
<1>6. Folded(FreeKind(p), s, SUBSET T, it)
  BY <1>2, <1>5 DEF Folded
<1> QED
  BY <1>4, <1>6 DEF Folds

KeepFold(o, low, T) ==
  FoldSet(LAMBDA m, x : IF m.start = StStart /\ ~low THEN x ELSE xmfremd(x, m.md), o, T)

LEMMA KeepAllIs ==
  ASSUME NEW o, NEW low, NEW T, IsFiniteSet(T)
  PROVE  Folds(KeepKind(low), o, T, KeepFold(o, low, T))
<1> DEFINE E(g) == [u \in SUBSET T |->
                      IF u = {} THEN o
                      ELSE IF (CHOOSE x \in u : TRUE).start = StStart /\ ~low
                           THEN g[u \ {CHOOSE x \in u : TRUE}]
                           ELSE xmfremd(g[u \ {CHOOSE x \in u : TRUE}],
                                        (CHOOSE x \in u : TRUE).md)]
           it == CHOOSE g : g = E(g)
<1>1. PICK g : Folded(KeepKind(low), o, SUBSET T, g)
  BY FoldExists
<1>2. ASSUME NEW h
      PROVE  [u \in SUBSET T |-> FoldStep(KeepKind(low), o, h, u)] = E(h)
  BY DEF FoldStep, Step, Elem, KeepKind
<1>3. g = E(g)
  BY <1>1, <1>2 DEF Folded
<1>4. KeepFold(o, low, T) = it[T]
  BY DEF KeepFold, FoldSet, MapThenFoldSet
<1> HIDE DEF E
<1>5. it = E(it)
  BY <1>3
<1> HIDE DEF it
<1>6. Folded(KeepKind(low), o, SUBSET T, it)
  BY <1>2, <1>5 DEF Folded
<1> QED
  BY <1>4, <1>6 DEF Folds

(* free_all_owned(): the blocks of pd in the pool are freed. *)
LEMMA FreeAll ==
  ASSUME NEW s, MemOK(s), NEW p \in Pools, NEW pd
  PROVE  LET t == free_all_owned(s, p, pd)
         IN  /\ Kept(s, t)
             /\ t.mal = [s.mal EXCEPT ![p] = @ \ OwnedBy(pd, s.mal[p])]
<1> DEFINE T == OwnedBy(pd, s.mal[p])
           States == [mfl : [Pools -> Seq(Block)], mal : [Pools -> SUBSET Block],
                      osm : Osm]
           Good(u, y) == Kept(s, y) /\ y.mal = [s.mal EXCEPT ![p] = @ \ u]
           R == {x \in (SUBSET T) \X States : Good(x[1], x[2])}
           k == FreeKind(p)
<1>1. T \subseteq s.mal[p] /\ IsFiniteSet(T)
  <2>1. T \subseteq s.mal[p]
    BY DEF OwnedBy
  <2>2. T \subseteq All(s) /\ IsFiniteSet(All(s))
    BY <2>1, MemTypes DEF InList
  <2> QED
    BY <2>1, <2>2, FS_Subset
<1>2. s.mal \in [Pools -> SUBSET Block]
  BY MemTypes
<1>3. PICK g : Folded(k, s, SUBSET T, g) /\ free_all_owned(s, p, pd) = g[T]
  <2>1. T = OwnedBy(pd, s.mal[p])
    OBVIOUS
  <2> HIDE DEF T
  <2>2. Folds(FreeKind(p), s, T, free_all_owned(s, p, pd))
    BY <1>1, <2>1, FreeAllIs
  <2> QED
    BY <2>2 DEF Folds
<1> HIDE DEF T
<1>4. <<{}, s>> \in R
  <2>1. s \in States
    BY DEF MemOK
  <2>2. Good({}, s)
    <3>1. [s.mal EXCEPT ![p] = s.mal[p] \ {}] = s.mal
      BY <1>2
    <3> QED
      BY <3>1 DEF Kept
  <2> HIDE DEF States, Good
  <2> QED
    BY <2>1, <2>2
<1>5. ASSUME NEW u \in SUBSET T, NEW m \in u, NEW y, <<u \ {m}, y>> \in R
      PROVE  <<u, Step(k, m, y)>> \in R
  <2>1. Good(u \ {m}, y)
    <3> HIDE DEF Good, States
    <3> QED
      BY <1>5
  <2>2. MemOK(y) /\ m \in y.mal[p]
    BY <2>1, <1>1, <1>2 DEF Kept
  <2> DEFINE t == freeit(y, p, m.start)
  <2>3. Kept(y, t) /\ t.mal = [y.mal EXCEPT ![p] = @ \ {m}]
    <3>1. Kept(y, t)
      BY <2>2, Freeit, Zenon
    <3>2. t.mal = [y.mal EXCEPT ![p] = @ \ {m}]
      BY <2>2, Freeit
    <3> QED
      BY <3>1, <3>2
  <2>4. Step(k, m, y) = t
    BY DEF Step, FreeKind
  <2> HIDE DEF t
  <2>5. Kept(s, t)
    BY <2>1, <2>3 DEF Kept
  <2>6. t.mal = [s.mal EXCEPT ![p] = s.mal[p] \ u]
    <3>1. y.mal[p] = s.mal[p] \ (u \ {m}) /\ m \in s.mal[p]
      BY <2>1, <1>1, <1>2
    <3>2. (s.mal[p] \ (u \ {m})) \ {m} = s.mal[p] \ u
      OBVIOUS
    <3> DEFINE a == s.mal[p] \ (u \ {m})
               b == s.mal[p] \ u
    <3>3. a \ {m} = b
      BY <3>2
    <3>4. y.mal = [s.mal EXCEPT ![p] = a]
      BY <2>1
    <3> HIDE DEF a, b
    <3>5. t.mal = [y.mal EXCEPT ![p] = b]
      BY <2>3, <3>1, <3>3 DEF a
    <3>6. t.mal = [s.mal EXCEPT ![p] = b]
      BY <3>4, <3>5, <1>2
    <3> QED
      BY <3>6 DEF b
  <2>7. t \in States
    BY <2>3 DEF Kept, MemOK
  <2>8. Good(u, t)
    BY <2>5, <2>6
  <2> HIDE DEF Good, States
  <2> QED
    BY <2>4, <2>7, <2>8
<1> HIDE DEF R, k
<1>6. <<T, g[T]>> \in R
  BY <1>1, <1>3, <1>4, <1>5, FoldReach
<1>7. Good(T, g[T])
  <2> HIDE DEF Good, States
  <2> QED
    BY <1>6 DEF R
<1> QED
  BY <1>3, <1>7 DEF T

LEMMA CoverMinus ==
  ASSUME NEW A, A \subseteq Block, Tidy(A), NEW T \in SUBSET A
  PROVE  Cover(A \ T) = Cover(A) \ Cover(T)
<1>1. ASSUME NEW m \in A, NEW n \in A, NEW a, a \in Bytes(m), a \in Bytes(n)
      PROVE  m = n
  <2> SUFFICES ASSUME m # n
               PROVE  FALSE
    OBVIOUS
  <2>1. Apart(m, n)
    BY DEF Tidy
  <2>2. /\ a \in Int /\ m.start <= a /\ a < m.start + m.length
        /\ n.start <= a /\ a < n.start + n.length
    BY <1>1, BlockFacts
  <2>3. /\ m.start \in Nat /\ m.length \in Nat /\ n.start \in Nat /\ n.length \in Nat
    BY BlockFacts
  <2> QED
    BY <2>1, <2>2, <2>3 DEF Apart
<1> QED
  BY <1>1 DEF Cover

(* reserve_blocks(): the blocks of pd in the pool are on no list any more. *)
LEMMA Reserve ==
  ASSUME NEW s, MemOK(s), NEW p \in Pools, NEW pd, NEW low
  PROVE  LET t == reserve_blocks(s, p, pd, low)
             T == OwnedBy(pd, s.mal[p])
         IN  /\ MemOK(t)
             /\ Cover(All(t)) = Cover(All(s)) \ Cover(T)
             /\ t.mal = [s.mal EXCEPT ![p] = @ \ T]
<1> DEFINE T == OwnedBy(pd, s.mal[p])
           A == All(s)
           o == s.osm
           fl == s.mfl[p]
           al1 == s.mal[p] \ T
           o1 == KeepFold(o, low, T)
           t == With(s, p, fl, al1, o1)
           R == {x \in (SUBSET T) \X Osm : Sound(A \ x[1], x[2])}
           k == KeepKind(low)
<1>1. /\ s.mfl \in [Pools -> Seq(Block)] /\ s.mal \in [Pools -> SUBSET Block]
      /\ s = [mfl |-> s.mfl, mal |-> s.mal, osm |-> s.osm]
      /\ o \in Osm /\ Sound(A, o) /\ A \subseteq Block
      /\ s.mal[p] \subseteq A /\ IsFiniteSet(A)
  BY MemTypes DEF InList
<1>2. T \subseteq s.mal[p] /\ T \subseteq A /\ IsFiniteSet(T)
  <2>1. T \subseteq s.mal[p]
    BY DEF OwnedBy
  <2> QED
    BY <2>1, <1>1, FS_Subset
<1>3. reserve_blocks(s, p, pd, low) = t
  <2>1. reserve_blocks(s, p, pd, low)
          = [s EXCEPT !.mal[p] = @ \ OwnedBy(pd, @), !.osm = o1]
    BY DEF reserve_blocks, KeepFold
  <2> HIDE DEF o1
  <2>2. reserve_blocks(s, p, pd, low) = [s EXCEPT !.mal[p] = al1, !.osm = o1]
    BY <2>1
  <2> HIDE DEF al1
  <2> QED
    BY <2>2, <1>1 DEF With
<1>4. PICK g : Folded(k, o, SUBSET T, g) /\ o1 = g[T]
  <2> HIDE DEF T, o
  <2>1. Folds(KeepKind(low), o, T, o1)
    BY <1>2, KeepAllIs
  <2> HIDE DEF o1
  <2> QED
    BY <2>1 DEF Folds
<1> HIDE DEF T, A, o, o1
<1>5. <<{}, o>> \in R
  <2>1. A \ {} = A
    OBVIOUS
  <2>2. Sound(A \ {}, o)
    BY <1>1, <2>1
  <2> QED
    BY <2>2, <1>1
<1>6. ASSUME NEW u \in SUBSET T, NEW m \in u, NEW y, <<u \ {m}, y>> \in R
      PROVE  <<u, Step(k, m, y)>> \in R
  <2> DEFINE B == A \ (u \ {m})
             z == Step(k, m, y)
  <2>1. Sound(B, y) /\ y \in Osm
    BY <1>6
  <2>2. m \in B /\ B \ {m} = A \ u
    BY <1>2
  <2> HIDE DEF B
  <2>3. /\ Sound(B \ {m}, xmfremd(y, m.md))
        /\ m.md = themd => Sound(B \ {m}, y)
    BY <2>1, <2>2, TakenOut, Zenon
  <2>4. m.start = StStart => m.md = themd
    BY <2>1, <2>2 DEF Sound, Accounted
  <2>5. z = IF m.start = StStart /\ ~low THEN y ELSE xmfremd(y, m.md)
    BY DEF Step, KeepKind
  <2> HIDE DEF z
  <2>6. Sound(B \ {m}, z)
    BY <2>3, <2>4, <2>5
  <2>7. Sound(A \ u, z) /\ z \in Osm
    BY <2>2, <2>6 DEF Sound, Accounted
  <2> QED
    BY <2>7 DEF z
<1> HIDE DEF k
<1>7. <<T, g[T]>> \in R
  <2> HIDE DEF R
  <2> QED
    BY <1>2, <1>4, <1>5, <1>6, FoldReach
<1>8. Sound(A \ T, o1)
  BY <1>4, <1>7
<1> DEFINE N == {}
<1>9. /\ ToSet(fl) \cap al1 = {} /\ al1 \in SUBSET Block /\ fl \in Seq(Block)
      /\ ToSet(fl) \cup al1 = (InList(s, p) \ T) \cup N
      /\ T \subseteq InList(s, p) /\ \A n \in N : InPool(p, n)
      /\ Once(fl) /\ (p = "st" => Sorted(fl))
  BY <1>1, <1>2 DEF MemOK, InList
<1>10. (A \ T) \cup N = A \ T
  OBVIOUS
<1> HIDE DEF N, al1, fl
<1>11. Changed(s, p, fl, al1, o1, T, N)
  BY <1>8, <1>9, <1>10 DEF Changed, A
<1>12. MemOK(t) /\ All(t) = (All(s) \ T) \cup N
  BY <1>11, PoolStep
<1>13. Cover(All(t)) = Cover(A) \ Cover(T)
  <2>1. All(t) = A \ T
    BY <1>10, <1>12 DEF A
  <2>2. Tidy(A)
    BY <1>1 DEF Sound
  <2> QED
    BY <1>1, <1>2, <2>1, <2>2, CoverMinus
<1>14. t.mal = [s.mal EXCEPT ![p] = @ \ T]
  BY <1>1 DEF With, al1
<1> HIDE DEF t
<1> QED
  BY <1>3, <1>12, <1>13, <1>14 DEF T, A

(***************************************************************************)
(* Maddalt().                                                              *)
(***************************************************************************)
LEMMA ListPrepended ==
  ASSUME NEW fl \in Seq(Block), Once(fl), NEW f \in Block, f \notin ToSet(fl)
  PROVE  LET t == <<f>> \o fl
         IN  t \in Seq(Block) /\ Once(t) /\ ToSet(t) = ToSet(fl) \cup {f}
<1> DEFINE t == <<f>> \o fl
           n == Len(fl)
<1>1. /\ n \in Nat /\ DOMAIN fl = 1 .. n
      /\ \A m : m \in ToSet(fl) <=> \E i \in 1 .. n : fl[i] = m
  BY ListTypes
<1>2. /\ t \in Seq(Block) /\ DOMAIN t = 1 .. n + 1 /\ t[1] = f
      /\ \A i \in 1 .. n : t[i + 1] = fl[i]
  BY ConsFacts
<1> HIDE DEF t, n
<1>3. ASSUME NEW i \in 1 .. n + 1
      PROVE  \/ i = 1 /\ t[i] = f
             \/ i # 1 /\ i - 1 \in 1 .. n /\ t[i] = fl[i - 1]
  <2>1. i = 1 \/ (i - 1 \in 1 .. n /\ (i - 1) + 1 = i)
    BY <1>1
  <2> QED
    BY <2>1, <1>2
<1>4. ASSUME NEW i \in 1 .. n + 1, NEW j \in 1 .. n + 1, t[i] = t[j]
      PROVE  i = j
  <2>1. CASE i = 1 /\ j = 1
    BY <2>1
  <2>2. CASE i # 1 /\ j # 1
    <3>1. /\ i - 1 \in 1 .. n /\ t[i] = fl[i - 1]
          /\ j - 1 \in 1 .. n /\ t[j] = fl[j - 1]
      BY <2>2, <1>3
    <3>2. i - 1 = j - 1
      BY <3>1, <1>1, <1>4 DEF Once
    <3> QED
      BY <3>2
  <2>3. CASE i = 1 /\ j # 1
    BY <2>3, <1>1, <1>3, <1>4
  <2>4. CASE i # 1 /\ j = 1
    BY <2>4, <1>1, <1>3, <1>4
  <2> QED
    BY <2>1, <2>2, <2>3, <2>4
<1>5. Once(t)
  BY <1>2, <1>4 DEF Once
<1>6. ASSUME NEW m
      PROVE  m \in ToSet(t) <=> m \in ToSet(fl) \cup {f}
  <2>1. m \in ToSet(t) <=> \E i \in 1 .. n + 1 : t[i] = m
    BY <1>2 DEF ToSet
  <2>2. ASSUME NEW i \in 1 .. n + 1, t[i] = m
        PROVE  m \in ToSet(fl) \cup {f}
    BY <2>2, <1>1, <1>3
  <2>3. ASSUME NEW i \in 1 .. n, fl[i] = m
        PROVE  \E j \in 1 .. n + 1 : t[j] = m
    <3>1. i + 1 \in 1 .. n + 1
      BY <1>1
    <3> QED
      BY <3>1, <2>3, <1>2
  <2>4. 1 \in 1 .. n + 1
    BY <1>1
  <2> QED
    BY <2>1, <2>2, <2>3, <2>4, <1>1, <1>2
<1> QED
  BY <1>2, <1>5, <1>6 DEF t

(* What Maddalt() yields: nothing new, or more free memory.                *)
Grown(s, r, N) ==
  /\ MemOK(r.s) /\ Cover(All(r.s)) = Cover(All(s)) \cup N
  /\ Alloc(r.s) = Alloc(s)

WithFree(s, p, fl1, o1) == [s EXCEPT !.mfl[p] = fl1, !.osm = o1]

LEMMA WithIs ==
  ASSUME NEW s, MemOK(s), NEW p \in Pools, NEW fl1, NEW o1
  PROVE  WithFree(s, p, fl1, o1) = With(s, p, fl1, s.mal[p], o1)
<1>1. /\ s.mfl \in [Pools -> Seq(Block)] /\ s.mal \in [Pools -> SUBSET Block]
      /\ s = [mfl |-> s.mfl, mal |-> s.mal, osm |-> s.osm]
  BY MemTypes
<1>2. [s.mal EXCEPT ![p] = s.mal[p]] = s.mal
  BY <1>1
<1> DEFINE u == [s EXCEPT !.mfl[p] = fl1]
<1>3. u = [mfl |-> [s.mfl EXCEPT ![p] = fl1], mal |-> s.mal, osm |-> s.osm]
  <2> DEFINE F == s.mfl
             M == s.mal
             O == s.osm
  <2>1. s = [mfl |-> F, mal |-> M, osm |-> O]
    BY <1>1
  <2>2. u = [s EXCEPT !.mfl = [F EXCEPT ![p] = fl1]]
    OBVIOUS
  <2> HIDE DEF F, M, O, u
  <2>3. u = [mfl |-> [F EXCEPT ![p] = fl1], mal |-> M, osm |-> O]
    BY <2>1, <2>2
  <2> QED
    BY <2>3 DEF F, M, O
<1>4. [s EXCEPT !.mfl[p] = fl1, !.osm = o1] = [u EXCEPT !.osm = o1]
  OBVIOUS
<1> HIDE DEF u
<1>5. [u EXCEPT !.osm = o1]
        = [mfl |-> [s.mfl EXCEPT ![p] = fl1], mal |-> s.mal, osm |-> o1]
  BY <1>3
<1> QED
  BY <1>2, <1>4, <1>5 DEF With, WithFree

LEMMA GrownBy ==
  ASSUME MemOK(mem), NEW fl1, NEW o1, NEW R, NEW F, NEW N,
         Changed(mem, "alt", fl1, mem.mal["alt"], o1, R, F),
         Cover((All(mem) \ R) \cup F) = Cover(All(mem)) \cup N,
         NEW a
  PROVE  Grown(mem, Found(WithAlt(fl1, o1), a), N)
<1> DEFINE al == mem.mal["alt"]
           t == With(mem, "alt", fl1, al, o1)
           E == {}
<1>2. "alt" \in Pools
  BY DEF Pools
<1>1. WithAlt(fl1, o1) = t
  <2> DEFINE q == "alt"
  <2>1. q \in Pools
    BY <1>2
  <2> HIDE DEF q
  <2>2. WithFree(mem, q, fl1, o1) = With(mem, q, fl1, mem.mal[q], o1)
    BY <2>1, WithIs, Zenon
  <2> QED
    BY <2>2 DEF q, WithAlt, WithFree
<1>3. AlChanged(mem, "alt", al, E, E)
  BY DEF AlChanged
<1>4. Changed(mem, "alt", fl1, al, o1, R, F)
  OBVIOUS
<1>5. (Alloc(mem) \ E) \cup E = Alloc(mem)
  OBVIOUS
<1> HIDE DEF al, E
<1>6. Alloc(t) = (Alloc(mem) \ E) \cup E
  BY <1>2, <1>3, AllocStep
<1>7. MemOK(t) /\ All(t) = (All(mem) \ R) \cup F
  BY <1>2, <1>4, PoolStep
<1> HIDE DEF t
<1> DEFINE r == Found(t, a)
<1>8. r.s = t
  BY DEF Found
<1> HIDE DEF r
<1>9. Grown(mem, r, N)
  BY <1>5, <1>6, <1>7, <1>8 DEF Grown
<1> QED
  BY <1>1, <1>9 DEF r

LEMMA Xmaddalt ==
  ASSUME MemOK(mem), NEW start \in Nat, NEW size \in Int,
         (start .. start + size - 1) \cap Cover(All(mem)) = {}
  PROVE  LET r == xmaddalt(start, size)
         IN  \/ r.s = mem /\ r.addr = NULL
             \/ /\ Grown(mem, r, start .. start + size - 1)
                /\ r.addr = start /\ start # NULL
                /\ StStart + StSize <= start
<1> DEFINE r == xmaddalt(start, size)
           fl == mem.mfl["alt"]
           al == mem.mal["alt"]
           o == mem.osm
           A == All(mem)
           N == start .. start + size - 1
           T == {p \in Block : p.start + p.length = start \/ start + size = p.start}
           i == FirstIn(fl, T)
           q == fl[i]
           t == [q EXCEPT !.start = Min({@, start}), !.length = @ + size]
           got == xmgetmd(o)
           f == [md |-> got.md, start |-> start, length |-> size, own |-> NULL]
<1>1. /\ fl \in Seq(Block) /\ al \subseteq Block /\ Once(fl)
      /\ ToSet(fl) \cap al = {} /\ ToSet(fl) \subseteq A /\ A \subseteq Block
      /\ InList(mem, "alt") = ToSet(fl) \cup al
      /\ \A n \in InList(mem, "alt") : StStart + StSize <= n.start
      /\ Sound(A, o)
  <2>1. "alt" \in Pools /\ "alt" # "st"
    BY DEF Pools
  <2> QED
    BY <2>1, MemTypes DEF MemOK, InList, InPool
<1>2. FirstOf(fl, LAMBDA p : p.start + p.length = start \/ start + size = p.start) = i
  <2>1. {j \in 1 .. Len(fl) : fl[j] \in T}
          = {j \in 1 .. Len(fl) : \/ fl[j].start + fl[j].length = start
                                  \/ start + size = fl[j].start}
    BY <1>1, ListTypes
  <2> HIDE DEF T
  <2> QED
    BY <2>1 DEF FirstOf, SelectInSeq, FirstIn
<1>3. /\ size <= 0 \/ start < StStart + StSize => r = Found(mem, NULL)
      /\ ~(size <= 0 \/ start < StStart + StSize) /\ i # 0
           => r = Found(WithAlt([fl EXCEPT ![i] = t], o), start)
      /\ ~(size <= 0 \/ start < StStart + StSize) /\ i = 0 /\ got.md = NoMD
           => r = Found(mem, NULL)
      /\ ~(size <= 0 \/ start < StStart + StSize) /\ i = 0 /\ got.md # NoMD
           => r = Found(WithAlt(<<f>> \o fl, got.osm), start)
  <2> HIDE DEF i
  <2> QED
    BY <1>2 DEF xmaddalt
<1> HIDE DEF i, r
<1>4. CASE size <= 0 \/ start < StStart + StSize
  BY <1>3, <1>4 DEF Found, r
<1>5. CASE /\ ~(size <= 0 \/ start < StStart + StSize) /\ i = 0 /\ got.md = NoMD
  BY <1>3, <1>5 DEF Found, r
<1>6. CASE ~(size <= 0 \/ start < StStart + StSize) /\ (i # 0 \/ got.md # NoMD)
  <2>0. size \in Nat \ {0} /\ StStart + StSize <= start /\ start > StStart
        /\ start # NULL
    BY <1>6, Constants
  <2>1. CASE i # 0
    <3>1. r = Found(WithAlt([fl EXCEPT ![i] = t], o), start)
      BY <1>3, <1>6, <2>1
    <3>2. i \in 1 .. Len(fl) /\ q \in T
      <4> HIDE DEF T
      <4>1. i \in 0 .. Len(fl) /\ (i # 0 => fl[i] \in T)
        BY <1>1, SearchFacts DEF i
      <4> QED
        BY <4>1, <2>1, <1>1, ListTypes
    <3>3. /\ q \in Block /\ q \in ToSet(fl) /\ q \in A /\ q \in InList(mem, "alt")
          /\ StStart + StSize <= q.start
      BY <3>2, <1>1, ListTypes
    <3>4. /\ q.start \in Nat /\ q.length \in Nat \ {0}
          /\ q.start + q.length = start \/ start + size = q.start
      BY <3>2, <3>3, BlockFacts
    <3>5. Min({q.start, start}) \in {q.start, start}
          /\ Min({q.start, start}) <= q.start /\ Min({q.start, start}) <= start
      <4> DEFINE S == {q.start, start}
      <4>1. S \in SUBSET Nat /\ S # {} /\ q.start \in S /\ start \in S
        BY <3>4
      <4> HIDE DEF S
      <4>2. Min(S) \in S /\ \A j \in S : Min(S) <= j
        BY <4>1, MinFacts
      <4> QED
        BY <4>1, <4>2 DEF S
    <3> DEFINE x == Min({q.start, start})
               y == q.length + size
    <3>6. x \in Nat /\ y \in Nat \ {0} /\ StStart + StSize <= x
      BY <3>3, <3>4, <3>5, <2>0
    <3> HIDE DEF q, i
    <3>7. t = [q EXCEPT !.start = x, !.length = y]
      BY <3>3 DEF Block
    <3> HIDE DEF x, y, t
    <3>8. t \in Block /\ t.md = q.md /\ t.start = x /\ t.length = y
      BY <3>3, <3>6, <3>7 DEF Block
    <3>9. Bytes(t) = Bytes(q) \cup N
      <4>1. \/ x = q.start /\ x + q.length = start
            \/ x = start /\ start + size = q.start
        BY <3>4, <3>5, <2>0 DEF x
      <4>2. y = q.length + size
        BY DEF y
      <4>3. Bytes(t) = x .. (x + y - 1)
        BY <3>8 DEF Bytes
      <4>4. Bytes(q) = q.start .. (q.start + q.length - 1)
        BY DEF Bytes
      <4>5. CASE x = q.start /\ x + q.length = start
        BY <4>2, <4>3, <4>4, <4>5, <3>4, <3>6, <2>0, SMTT(30)
      <4>6. CASE x = start /\ start + size = q.start
        <5>1. ASSUME NEW a \in Int
              PROVE  a \in Bytes(t) <=> (a \in Bytes(q) \/ a \in N)
          <6>1. a \in Bytes(t) <=> start <= a /\ a <= start + (q.length + size) - 1
            BY <4>2, <4>3, <4>6, <3>4, <2>0
          <6>2. a \in Bytes(q) <=> start + size <= a /\ a <= start + size + q.length - 1
            BY <4>4, <4>6, <3>4, <2>0
          <6>3. a \in N <=> start <= a /\ a <= start + size - 1
            BY <2>0
          <6> QED
            BY <6>1, <6>2, <6>3, <3>4, <2>0
        <5>2. Bytes(t) \subseteq Int /\ Bytes(q) \subseteq Int /\ N \subseteq Int
          BY <4>3, <4>4
        <5> HIDE DEF N
        <5> QED
          BY <5>1, <5>2
      <4> QED
        BY <4>1, <4>5, <4>6
    <3>10. t.start > StStart /\ q.start > StStart
      BY <3>3, <3>4, <3>6, <3>8, Constants
    <3>11. N \cap Cover(A) = {}
      OBVIOUS
    <3> HIDE DEF A, o, N
    <3>12. /\ t \notin A \ {q}
           /\ Sound((A \ {q}) \cup {t}, o)
           /\ Cover((A \ {q}) \cup {t}) = Cover(A) \cup N
      <4>1. /\ Sound(A, o) /\ q \in A /\ q.start > StStart /\ t \in Block
            /\ t.md = q.md /\ t.start > StStart
        BY <3>3, <3>8, <3>10, <1>1
      <4>2. Sound((A \ {q}) \cup {t}, o)
        BY <4>1, <3>9, <3>11, Extended, Zenon
      <4>3. t \notin A \ {q}
        BY <4>1, <3>9, <3>11, Extended, Zenon
      <4>4. Cover((A \ {q}) \cup {t}) = Cover(A) \cup N
        <5>1. MoreCover((A \ {q}) \cup {t}, A, N)
          BY <4>1, <3>9, <3>11, Extended, Zenon
        <5> QED
          BY <5>1 DEF MoreCover
      <4> QED
        BY <4>2, <4>3, <4>4
    <3> DEFINE fl1 == [fl EXCEPT ![i] = t]
    <3>13. fl1 \in Seq(Block) /\ Once(fl1) /\ ToSet(fl1) = (ToSet(fl) \ {q}) \cup {t}
      <4>1. t \notin ToSet(fl) \ {fl[i]}
        BY <3>12, <1>1 DEF q
      <4> HIDE DEF fl
      <4>2. /\ fl1 \in Seq(Block) /\ Once(fl1)
            /\ ToSet(fl1) = (ToSet(fl) \ {fl[i]}) \cup {t}
        <5>1. fl \in Seq(Block) /\ Once(fl) /\ i \in 1 .. Len(fl) /\ t \in Block
          BY <3>2, <3>8, <1>1
        <5>2. /\ fl1 \in Seq(Block) /\ Once(fl1)
              /\ ToSet(fl1) = (ToSet(fl) \ {fl[i]}) \cup {t}
              /\ Sorted(fl) /\ fl[i].start <= t.start
                 /\ t.start + t.length <= fl[i].start + fl[i].length
                   => Sorted(fl1)
          BY <4>1, <5>1, ListReplaced
        <5> QED
          BY <5>2
      <4> QED
        BY <4>2 DEF q
    <3> HIDE DEF fl1
    <3>14. /\ ToSet(fl1) \cup al = (InList(mem, "alt") \ {q}) \cup {t}
           /\ ToSet(fl1) \cap al = {}
      <4>1. q \notin al /\ al \subseteq A
        BY <3>3, <1>1, MemTypes DEF A, InList, Pools
      <4> QED
        BY <4>1, <3>12, <3>13, <3>3, <1>1
    <3>15. \A n \in {t} : InPool("alt", n)
      BY <3>6, <3>8 DEF InPool
    <3>16. Changed(mem, "alt", fl1, al, o, {q}, {t})
      BY <3>3, <3>12, <3>13, <3>14, <3>15, <1>1 DEF Changed, A
    <3>17. Cover((All(mem) \ {q}) \cup {t}) = Cover(All(mem)) \cup N
      BY <3>12 DEF A
    <3>18. Grown(mem, Found(WithAlt(fl1, o), start), N)
      BY <3>16, <3>17, GrownBy
    <3>19. r.addr = start
      BY <3>1 DEF Found
    <3> QED
      BY <3>1, <3>18, <3>19, <2>0 DEF r, fl1, N
  <2>2. CASE i = 0
    <3>1. got.md # NoMD /\ r = Found(WithAlt(<<f>> \o fl, got.osm), start)
      BY <1>3, <1>6, <2>2
    <3>2. got.md \in MD
      BY <3>1, <1>1, SlotGot DEF Sound
    <3>3. /\ f \in Block /\ f.start = start /\ f.length = size
          /\ f.md = xmgetmd(o).md
      BY <3>2, <2>0 DEF Block, MD, NULL
    <3> HIDE DEF f, got
    <3>4. Bytes(f) = N
      BY <3>3 DEF Bytes
    <3>5. Bytes(f) \cap Cover(A) = {}
      BY <3>4
    <3> HIDE DEF A, o, N
    <3>6. /\ f \notin A
          /\ Sound(A \cup {f}, got.osm)
          /\ Cover(A \cup {f}) = Cover(A) \cup N
      <4>1. f.md # NoMD /\ f.start > StStart
        BY <3>1, <3>3, <2>0 DEF got
      <4>2. /\ f \notin A
            /\ Sound(A \cup {f}, xmgetmd(o).osm)
            /\ Cover(A \cup {f}) = Cover(A) \cup Bytes(f)
        BY <4>1, <3>3, <3>5, <1>1, Added
      <4> QED
        BY <4>2, <3>4 DEF got
    <3> DEFINE fl1 == <<f>> \o fl
    <3>7. fl1 \in Seq(Block) /\ Once(fl1) /\ ToSet(fl1) = ToSet(fl) \cup {f}
      <4>1. f \notin ToSet(fl)
        BY <3>6, <1>1
      <4> HIDE DEF fl
      <4> QED
        BY <4>1, <3>3, <1>1, ListPrepended
    <3> HIDE DEF fl1
    <3> DEFINE R == {}
    <3>8. /\ (A \ R) \cup {f} = A \cup {f}
          /\ ToSet(fl1) \cup al = (InList(mem, "alt") \ R) \cup {f}
          /\ R \subseteq InList(mem, "alt")
      BY <3>7, <1>1
    <3>9. ToSet(fl1) \cap al = {}
      BY <3>6, <3>7, <1>1 DEF A, All
    <3>10. \A n \in {f} : InPool("alt", n)
      BY <3>3, <2>0 DEF InPool
    <3> HIDE DEF R
    <3>11. Changed(mem, "alt", fl1, al, got.osm, R, {f})
      BY <3>6, <3>7, <3>8, <3>9, <3>10, <1>1 DEF Changed, A
    <3>12. Cover((All(mem) \ R) \cup {f}) = Cover(All(mem)) \cup N
      BY <3>6, <3>8 DEF A
    <3>13. Grown(mem, Found(WithAlt(fl1, got.osm), start), N)
      BY <3>11, <3>12, GrownBy
    <3>14. r.addr = start
      BY <3>1 DEF Found
    <3> QED
      BY <3>1, <3>13, <3>14, <2>0 DEF r, fl1, N
  <2> QED
    BY <2>1, <2>2
<1> QED
  BY <1>4, <1>5, <1>6

(***************************************************************************)
(* The programs.                                                           *)
(***************************************************************************)
LEMMA StackFacts ==
  ASSUME NEW st, StackOK(st)
  PROVE  /\ Len(st) \in Nat \ {0}
         /\ \A i \in 1 .. Len(st) : st[i] \in Nat
         /\ Head(st) = st[1] /\ Head(st) \in Nat
         /\ \A x : x \in ToSet(st) <=> \E i \in 1 .. Len(st) : x = st[i]
<1>1. st \in Seq(Nat) /\ st # <<>>
  BY DEF StackOK
<1>2. Len(st) \in Nat /\ DOMAIN st = 1 .. Len(st) /\ Len(st) # 0
  BY <1>1, EmptySeq, LenProperties
<1>3. \A i \in 1 .. Len(st) : st[i] \in Nat
  BY <1>1, <1>2
<1>4. Head(st) = st[1]
  BY <1>1
<1>5. 1 \in 1 .. Len(st)
  BY <1>2
<1> QED
  BY <1>2, <1>3, <1>4, <1>5 DEF ToSet

LEMMA AllocBlocky ==
  ASSUME NEW s, MemOK(s)
  PROVE  Blocky(Alloc(s))
<1>1. /\ Alloc(s) \subseteq All(s) /\ Alloc(s) \subseteq Block
      /\ \A m \in Alloc(s) : StStart <= m.start
  BY AllocFacts
<1>2. Sound(All(s), s.osm)
  BY MemTypes
<1>3. ASSUME NEW m \in Alloc(s), NEW n \in Alloc(s), m.start = n.start
      PROVE  m = n
  <2>1. m \in All(s) /\ n \in All(s)
    BY <1>1
  <2> QED
    BY <2>1, <1>2, <1>3, StartsDiffer
<1> QED
  BY <1>1, <1>3 DEF Blocky

LEMMA IsBlockAt ==
  ASSUME NEW s, MemOK(s), NEW a
  PROVE  IsBlock(s, a) <=> BlockStarts(Alloc(s), a)
BY AllocFacts DEF BlockStarts

(* What is still there after a change. *)
StillAt(A, ld) == {l \in ld : BlockStarts(A, l.pd) /\ BlockStarts(A, l.env)}

LEMMA StillThereIs ==
  ASSUME NEW s, MemOK(s), NEW ld
  PROVE  StillThere(s, ld) = StillAt(Alloc(s), ld)
BY IsBlockAt DEF StillThere, StillAt

(* Memory is taken by the program that runs. *)
LEMMA LiveTaken ==
  ASSUME NEW A, NEW st, NEW ld, Live(A, st, ld), NEW B, Blocky(B),
         A \subseteq B, \A m \in B \ A : m.own = Head(st)
  PROVE  Live(B, st, ld)
<1>1. /\ StackOK(st) /\ Owned(A, st) /\ Housed(A, st) /\ Ready(A, st, ld)
  BY DEF Live
<1>2. Len(st) \in Nat \ {0} /\ Head(st) = st[1]
  BY <1>1, StackFacts
<1>3. Owned(B, st)
  <2>1. 1 \in 1 .. Len(st)
    BY <1>2
  <2> QED
    BY <2>1, <1>1, <1>2 DEF Owned
<1>4. Housed(B, st)
  BY <1>1 DEF Housed
<1>5. Ready(B, st, ld)
  BY <1>1 DEF Ready, BlockStarts
<1> QED
  BY <1>1, <1>3, <1>4, <1>5 DEF Live

(* Blocks T are taken out, none of them that of a program; blocks N come   *)
(* instead, where T are and with the same owners.                          *)
LEMMA LiveFreed ==
  ASSUME NEW A, NEW st, NEW ld, Live(A, st, ld),
         NEW B, Blocky(B),
         \A m \in B : m \in A \/ (\E n \in A : n.own = m.own),
         \A m \in A : \/ m \in B
                      \/ \E n \in B : n.start = m.start /\ n.own = m.own
                      \/ \A i \in 1 .. Len(st) - 1 : st[i] # m.start,
         NEW ls, ls = StillAt(B, ld)
  PROVE  Live(B, st, ls)
<1>1. /\ StackOK(st) /\ Owned(A, st) /\ Housed(A, st) /\ Ready(A, st, ld)
  BY DEF Live
<1>2. Owned(B, st)
  BY <1>1 DEF Owned
<1>3. Housed(B, st)
  BY <1>1 DEF Housed
<1>4. Ready(B, st, ls)
  BY <1>1 DEF Ready, StillAt
<1> QED
  BY <1>1, <1>2, <1>3, <1>4 DEF Live

(* A program is started. *)
Pushed(st, pd, u) ==
  /\ StackOK(u) /\ Len(u) = Len(st) + 1 /\ u[1] = pd
  /\ \A i \in 1 .. Len(st) : u[i + 1] = st[i]
  /\ \A j \in 2 .. Len(u) : j - 1 \in 1 .. Len(st) /\ u[j] = st[j - 1]

LEMMA StackPushed ==
  ASSUME NEW st, StackOK(st), NEW pd \in Nat, pd \notin ToSet(st),
         NEW u, u = <<pd>> \o st
  PROVE  Pushed(st, pd, u)
<1> DEFINE n == Len(st)
           v == <<pd>>
<1>1. /\ n \in Nat \ {0} /\ st \in Seq(Nat)
      /\ st[n] = initial_basepage
      /\ \A i, j \in 1 .. n : st[i] = st[j] => i = j
      /\ \A i \in 1 .. n : st[i] # pd
  BY StackFacts DEF StackOK
<1>2. v \in Seq(Nat) /\ Len(v) = 1 /\ v[1] = pd
  OBVIOUS
<1> HIDE DEF v
<1>3. /\ u \in Seq(Nat) /\ Len(u) = n + 1
      /\ \A i \in 1 .. n + 1 : u[i] = IF i <= 1 THEN v[i] ELSE st[i - 1]
  BY <1>1, <1>2, ConcatProperties DEF v
<1>4. u[1] = pd /\ u # <<>>
  BY <1>1, <1>2, <1>3, EmptySeq
<1>5. \A j \in 2 .. n + 1 : j - 1 \in 1 .. n /\ u[j] = st[j - 1]
  BY <1>1, <1>3
<1>6. \A i \in 1 .. n : u[i + 1] = st[i]
  BY <1>1, <1>3
<1>7. u[Len(u)] = initial_basepage
  <2>1. n \in 1 .. n
    BY <1>1
  <2> QED
    BY <2>1, <1>1, <1>3, <1>6
<1>8. ASSUME NEW i \in 1 .. n + 1, NEW j \in 1 .. n + 1, u[i] = u[j]
      PROVE  i = j
  <2>1. (i = 1 \/ i \in 2 .. n + 1) /\ (j = 1 \/ j \in 2 .. n + 1)
        /\ i \in Int /\ j \in Int
    BY <1>1
  <2>2. CASE i \in 2 .. n + 1 /\ j \in 2 .. n + 1
    <3>1. /\ i - 1 \in 1 .. n /\ u[i] = st[i - 1]
          /\ j - 1 \in 1 .. n /\ u[j] = st[j - 1]
      BY <2>2, <1>5
    <3>2. i - 1 = j - 1
      BY <3>1, <1>1, <1>8
    <3> QED
      BY <2>1, <3>2
  <2>3. CASE i = 1 /\ j \in 2 .. n + 1
    BY <2>3, <1>1, <1>4, <1>5, <1>8
  <2>4. CASE j = 1 /\ i \in 2 .. n + 1
    BY <2>4, <1>1, <1>4, <1>5, <1>8
  <2> QED
    BY <2>1, <2>2, <2>3, <2>4
<1> QED
  BY <1>3, <1>4, <1>5, <1>6, <1>7, <1>8 DEF StackOK, Pushed

LEMMA LiveStarted ==
  ASSUME NEW A, NEW st, NEW ld, Live(A, st, ld), NEW B, Blocky(B),
         NEW pd \in Nat, pd \notin ToSet(st),
         \A m \in B : m \in A \/ m.own = pd,
         \A m \in A : \/ m \in B
                      \/ /\ BlockStarts(B, m.start)
                         /\ \A i \in 1 .. Len(st) - 1 : st[i] # m.start,
         NEW t \in B, t.start = pd, t.own \in {pd, Head(st)},
         \A l \in ld : l.env # pd,
         NEW u, u = <<pd>> \o st
  PROVE  Live(B, u, ld)
<1>1. /\ StackOK(st) /\ Owned(A, st) /\ Housed(A, st) /\ Ready(A, st, ld)
  BY DEF Live
<1>2. /\ StackOK(u) /\ Len(u) = Len(st) + 1 /\ u[1] = pd
      /\ \A i \in 1 .. Len(st) : u[i + 1] = st[i]
      /\ \A j \in 2 .. Len(u) : j - 1 \in 1 .. Len(st) /\ u[j] = st[j - 1]
  <2>1. Pushed(st, pd, u)
    BY <1>1, StackPushed, Zenon
  <2> QED
    BY <2>1 DEF Pushed
<1>3. Len(st) \in Nat \ {0} /\ Head(st) = st[1]
  BY <1>1, StackFacts
<1>4. \A i \in 1 .. Len(st) : i + 1 \in 1 .. Len(u)
  BY <1>2, <1>3
<1>5. 1 \in 1 .. Len(u) /\ 1 \in 1 .. Len(st) /\ u[2] = Head(st)
  <2>1. 1 \in 1 .. Len(u) /\ 1 \in 1 .. Len(st) /\ 1 + 1 = 2
    BY <1>2, <1>3
  <2> QED
    BY <2>1, <1>2, <1>3
<1>6. Owned(B, u)
  <2> SUFFICES ASSUME NEW m \in B
               PROVE  \E i \in 1 .. Len(u) : m.own = u[i]
    BY DEF Owned
  <2>1. CASE m.own = pd
    BY <2>1, <1>2, <1>5
  <2>2. CASE m \in A
    <3>1. PICK i \in 1 .. Len(st) : m.own = st[i]
      BY <2>2, <1>1 DEF Owned
    <3> QED
      BY <3>1, <1>2, <1>4
  <2> QED
    BY <2>1, <2>2
<1>7. Housed(B, u)
  <2> SUFFICES ASSUME NEW i \in 1 .. Len(u) - 1
               PROVE  \E m \in B : m.start = u[i] /\ m.own \in {u[i], u[i + 1]}
    BY DEF Housed
  <2>1. CASE i = 1
    <3>1. t.start = u[i] /\ t.own \in {u[i], u[i + 1]}
      BY <2>1, <1>2, <1>5
    <3> QED
      BY <3>1
  <2>2. CASE i # 1
    <3>1. /\ i \in 2 .. Len(u) /\ i - 1 \in 1 .. Len(st) - 1
          /\ i \in 1 .. Len(st) /\ i - 1 \in Int /\ (i - 1) + 1 = i
      BY <2>2, <1>2, <1>3
    <3>2. u[i] = st[i - 1] /\ u[i + 1] = st[i]
      BY <3>1, <1>2
    <3>3. PICK m \in A : m.start = st[i - 1] /\ m.own \in {st[i - 1], st[i]}
      <4> DEFINE j == i - 1
      <4>1. j \in 1 .. Len(st) - 1 /\ j + 1 = i
        BY <3>1
      <4> HIDE DEF j
      <4>2. \E m \in A : m.start = st[j] /\ m.own \in {st[j], st[j + 1]}
        BY <4>1, <1>1 DEF Housed
      <4> QED
        BY <4>1, <4>2 DEF j
    <3>4. m \in B
      BY <3>1, <3>3
    <3> QED
      BY <3>2, <3>3, <3>4
  <2> QED
    BY <2>1, <2>2
<1>8. Ready(B, u, ld)
  <2>1. \A a : BlockStarts(A, a) => BlockStarts(B, a)
    BY DEF BlockStarts
  <2>2. ASSUME NEW l \in ld, NEW i \in 1 .. Len(u) - 1
        PROVE  l.env # u[i]
    <3>1. i = 1 \/ (i \in 2 .. Len(u) /\ i - 1 \in 1 .. Len(st) - 1)
      BY <1>2, <1>3
    <3>2. CASE i = 1
      BY <3>2, <1>2
    <3>3. CASE i \in 2 .. Len(u) /\ i - 1 \in 1 .. Len(st) - 1
      BY <3>3, <1>1, <1>2 DEF Ready
    <3> QED
      BY <3>1, <3>2, <3>3
  <2> QED
    BY <2>1, <2>2, <1>1 DEF Ready
<1> QED
  BY <1>2, <1>6, <1>7, <1>8 DEF Live

(* A basepage is made for later. *)
LEMMA LiveReady ==
  ASSUME NEW A, NEW st, NEW ld, Live(A, st, ld),
         NEW pd \in Nat, NEW env \in Nat, BlockStarts(A, pd), BlockStarts(A, env), pd # env,
         \A l \in ld : l.env # pd /\ l.pd # env,
         \A i \in 1 .. Len(st) - 1 : env # st[i]
  PROVE  Live(A, st, ld \cup {[pd |-> pd, env |-> env]})
<1> DEFINE k == [pd |-> pd, env |-> env]
           ls == ld \cup {k}
<1>1. Ready(A, st, ld)
  BY DEF Live
<1>2. k.pd = pd /\ k.env = env /\ k \in [pd : Nat, env : Nat]
  OBVIOUS
<1> HIDE DEF k
<1>3. Ready(A, st, ls)
  BY <1>1, <1>2 DEF Ready
<1> QED
  BY <1>3 DEF Live, k

(* The program that runs has ended. *)
LEMMA LiveEnded ==
  ASSUME NEW A, NEW st, NEW ld, Live(A, st, ld), Len(st) > 1,
         NEW B, Blocky(B), B = A \ {m \in A : m.own = Head(st)},
         NEW ls, ls = StillAt(B, ld)
  PROVE  Live(B, Tail(st), ls)
<1> DEFINE u == Tail(st)
           n == Len(st)
<1>1. /\ StackOK(st) /\ Owned(A, st) /\ Housed(A, st) /\ Ready(A, st, ld)
  BY DEF Live
<1>2. /\ n \in Nat \ {0} /\ n > 1 /\ Head(st) = st[1] /\ st \in Seq(Nat)
      /\ st # <<>> /\ st[n] = initial_basepage
      /\ \A i, j \in 1 .. n : st[i] = st[j] => i = j
  BY <1>1, StackFacts DEF StackOK
<1>3. /\ u \in Seq(Nat) /\ Len(u) = n - 1
      /\ \A i \in 1 .. n - 1 : u[i] = st[i + 1]
  BY <1>2, HeadTailProperties
<1>4. \A i \in 1 .. n - 1 : i + 1 \in 1 .. n /\ i + 1 # 1
  BY <1>2
<1> HIDE DEF u
<1>5. StackOK(u)
  <2>1. u # <<>>
    BY <1>2, <1>3, EmptySeq
  <2>2. u[Len(u)] = initial_basepage
    BY <1>2, <1>3
  <2>3. ASSUME NEW i \in 1 .. Len(u), NEW j \in 1 .. Len(u), u[i] = u[j]
        PROVE  i = j
    <3>1. i \in 1 .. n - 1 /\ j \in 1 .. n - 1
      BY <1>3
    <3>2. i + 1 = j + 1
      BY <3>1, <2>3, <1>2, <1>3, <1>4
    <3> QED
      BY <3>2
  <2> QED
    BY <2>1, <2>2, <2>3, <1>3 DEF StackOK
<1>6. Owned(B, u)
  <2> SUFFICES ASSUME NEW m \in B
               PROVE  \E i \in 1 .. Len(u) : m.own = u[i]
    BY DEF Owned
  <2>1. m \in A /\ m.own # st[1]
    BY <1>2
  <2>2. PICK i \in 1 .. n : m.own = st[i]
    BY <2>1, <1>1 DEF Owned
  <2>3. i - 1 \in 1 .. n - 1 /\ (i - 1) + 1 = i
    BY <2>1, <2>2, <1>2
  <2>4. u[i - 1] = st[i]
    BY <2>3, <1>3
  <2> QED
    BY <2>2, <2>3, <2>4, <1>3
<1>7. Housed(B, u)
  <2> SUFFICES ASSUME NEW i \in 1 .. Len(u) - 1
               PROVE  \E m \in B : m.start = u[i] /\ m.own \in {u[i], u[i + 1]}
    BY DEF Housed
  <2> DEFINE j == i + 1
  <2>1. /\ j \in 1 .. n - 1 /\ j \in 1 .. n /\ j + 1 \in 1 .. n /\ j # 1 /\ j + 1 # 1
        /\ i \in 1 .. n - 1
    BY <1>2, <1>3
  <2>2. u[i] = st[j] /\ u[i + 1] = st[j + 1]
    BY <2>1, <1>3
  <2>3. st[j] # st[1] /\ st[j + 1] # st[1]
    <3>1. 1 \in 1 .. n
      BY <1>2
    <3> HIDE DEF j
    <3> QED
      BY <2>1, <3>1, <1>2
  <2> HIDE DEF j
  <2>4. PICK m \in A : m.start = st[j] /\ m.own \in {st[j], st[j + 1]}
    BY <2>1, <1>1 DEF Housed
  <2>5. m \in B
    BY <2>3, <2>4, <1>2
  <2> QED
    BY <2>2, <2>4, <2>5
<1>8. Ready(B, u, ls)
  <2>1. ASSUME NEW l \in ls, NEW i \in 1 .. Len(u) - 1
        PROVE  l.env # u[i]
    <3>1. i + 1 \in 1 .. n - 1 /\ i \in 1 .. n - 1
      BY <1>2, <1>3
    <3>2. u[i] = st[i + 1]
      BY <3>1, <1>3
    <3> QED
      BY <3>1, <3>2, <1>1 DEF Ready, StillAt
  <2> QED
    BY <2>1, <1>1 DEF Ready, StillAt
<1> QED
  BY <1>5, <1>6, <1>7, <1>8 DEF Live, u

(***************************************************************************)
(* The invariant is kept by each call.                                     *)
(***************************************************************************)
LEMMA RunFacts ==
  ASSUME MemInv
  PROVE  /\ run = Head(stack) /\ run \in Nat /\ run = stack[1]
         /\ StackOK(stack) /\ Len(stack) \in Nat \ {0} /\ MemOK(mem)
         /\ Live(Alloc(mem), stack, loaded) /\ Blocky(Alloc(mem))
         /\ Alloc(mem) \subseteq Block
BY StackFacts DEF MemInv, Live, run, Blocky

LEMMA MemStep ==
  ASSUME MemInv, Kept(mem, mem'), UNCHANGED <<added, resident>>,
         Live(Alloc(mem'), stack', loaded'), rc' \in BOOLEAN
  PROVE  MemInv'
<1>1. MemOK(mem') /\ Cover(All(mem')) = Cover(All(mem))
  BY DEF Kept
<1>2. Memory' = Memory
  BY DEF Memory
<1>3. Covered
  BY DEF MemInv
<1>4. Covered'
  BY <1>1, <1>2, <1>3 DEF Covered
<1> QED
  BY <1>1, <1>4 DEF MemInv

LEMMA KeptSame ==
  ASSUME NEW s, MemOK(s)
  PROVE  Kept(s, s)
BY DEF Kept

LEMMA GivenLive ==
  ASSUME MemInv, NEW r, Given(mem, r, run)
  PROVE  Kept(mem, r.s) /\ Live(Alloc(r.s), stack, loaded)
<1>1. /\ run = Head(stack) /\ MemOK(mem) /\ Live(Alloc(mem), stack, loaded)
  BY RunFacts
<1>2. CASE r = Found(mem, NULL)
  <2>1. r.s = mem
    BY <1>2 DEF Found
  <2> QED
    BY <2>1, <1>1, KeptSame
<1>3. CASE Kept(mem, r.s) /\ r.addr # NULL
           /\ \E m \in Block : /\ m.own = run /\ m.start = r.addr
                               /\ m \notin Alloc(mem)
                               /\ Alloc(r.s) = Alloc(mem) \cup {m}
  <2>1. PICK m \in Block : m.own = run /\ Alloc(r.s) = Alloc(mem) \cup {m}
    BY <1>3
  <2>2. MemOK(r.s)
    BY <1>3 DEF Kept
  <2>3. Blocky(Alloc(r.s))
    BY <2>2, AllocBlocky
  <2> DEFINE A == Alloc(mem)
             B == Alloc(r.s)
  <2>4. A \subseteq B /\ \A x \in B \ A : x.own = Head(stack)
    BY <2>1, <1>1
  <2> HIDE DEF A, B
  <2>5. Live(B, stack, loaded)
    BY <1>1, <2>3, <2>4, LiveTaken DEF A, B
  <2> QED
    BY <1>3, <2>5 DEF B
<1> QED
  BY <1>2, <1>3 DEF Given

LEMMA MallocKeeps ==
  ASSUME MemInv, Malloc
  PROVE  MemInv'
<1>1. PICK n \in Amounts, mode \in Modes :
             Result(xmxalloc(mem, n, mode, run)) /\ Quiet
  BY DEF Malloc
<1> DEFINE r == xmxalloc(mem, n, mode, run)
<1>2. n \in Nat \ {0} /\ MemOK(mem) /\ run \in Nat
  BY Constants, RunFacts
<1>3. Given(mem, r, run)
  BY <1>2, Xmxalloc
<1> HIDE DEF r
<1>4. Kept(mem, r.s) /\ Live(Alloc(r.s), stack, loaded)
  BY <1>3, GivenLive
<1>5. mem' = r.s /\ rc' = (r.addr # NULL)
  BY <1>1 DEF Result, r
<1>6. stack' = stack /\ loaded' = loaded /\ UNCHANGED <<added, resident>>
  BY <1>1 DEF Quiet
<1>7. Live(Alloc(mem'), stack', loaded') /\ Kept(mem, mem') /\ rc' \in BOOLEAN
  BY <1>4, <1>5, <1>6
<1> QED
  BY <1>6, <1>7, MemStep

(* A program's own block is not that of a program, but its own may be.     *)
LEMMA OwnFacts ==
  ASSUME MemInv, NEW m \in Alloc(mem), m.own = run, m.start # run
  PROVE  \A i \in 1 .. Len(stack) - 1 : stack[i] # m.start
<1> SUFFICES ASSUME NEW i \in 1 .. Len(stack) - 1, stack[i] = m.start
             PROVE  FALSE
  OBVIOUS
<1>1. /\ run = stack[1] /\ StackOK(stack) /\ Len(stack) \in Nat \ {0}
      /\ Blocky(Alloc(mem)) /\ Housed(Alloc(mem), stack)
  BY RunFacts DEF Live
<1>2. PICK n \in Alloc(mem) : n.start = stack[i] /\ n.own \in {stack[i], stack[i + 1]}
  BY <1>1 DEF Housed
<1>3. n = m
  BY <1>1, <1>2 DEF Blocky
<1>4. /\ i \in 1 .. Len(stack) /\ i + 1 \in 1 .. Len(stack)
      /\ 1 \in 1 .. Len(stack) /\ i + 1 # 1
  BY <1>1
<1>5. \A j, k \in 1 .. Len(stack) : stack[j] = stack[k] => j = k
  BY <1>1 DEF StackOK
<1>6. stack[i] # run
  OBVIOUS
<1>7. stack[i + 1] # stack[1]
  BY <1>4, <1>5
<1> QED
  BY <1>1, <1>2, <1>3, <1>6, <1>7

LEMMA OwnIs ==
  ASSUME MemInv, NEW a \in Own
  PROVE  /\ IsBlock(mem, a) /\ BlockAt(mem, a) \in Alloc(mem)
         /\ BlockAt(mem, a).start = a /\ BlockAt(mem, a).own = run /\ a # run
<1>1. PICK m \in Alloc(mem) : m.start = a /\ m.own = run /\ m.start # run
  BY DEF Own, Alloc
<1>2. IsBlock(mem, m.start) /\ BlockAt(mem, m.start) = m
  BY <1>1, RunFacts, AllocFacts
<1> QED
  BY <1>1, <1>2

LEMMA MfreeKeeps ==
  ASSUME MemInv, Mfree
  PROVE  MemInv'
<1>1. PICK a \in Own \cup {NULL} :
        /\ Result(xmfree(mem, a))
        /\ loaded' = StillThere(mem', loaded)
        /\ UNCHANGED <<stack, added, resident>>
  BY DEF Mfree
<1>0. MemOK(mem) /\ Live(Alloc(mem), stack, loaded) /\ Blocky(Alloc(mem))
  BY RunFacts
<1> DEFINE r == xmfree(mem, a)
           m == BlockAt(mem, a)
           A == Alloc(mem)
<1>2. /\ ~IsBlock(mem, a) => r.s = mem /\ r.addr = NULL
      /\ IsBlock(mem, a) => /\ Kept(mem, r.s)
                            /\ Alloc(r.s) = Alloc(mem) \ {m}
                            /\ r.addr = a
  BY <1>0, Xmfree
<1> HIDE DEF r
<1>3. mem' = r.s /\ rc' = (r.addr # NULL)
  BY <1>1 DEF Result, r
<1>4. Kept(mem, mem')
  BY <1>0, <1>2, <1>3, KeptSame
<1>5. MemOK(mem')
  BY <1>4 DEF Kept
<1>6. Blocky(Alloc(mem')) /\ loaded' = StillAt(Alloc(mem'), loaded)
  BY <1>1, <1>5, AllocBlocky, StillThereIs, Zenon
<1> DEFINE B == Alloc(mem')
<1>7. /\ \A x \in B : x \in A
      /\ \A x \in A : x \in B \/ \A i \in 1 .. Len(stack) - 1 : stack[i] # x.start
  <2>1. CASE ~IsBlock(mem, a)
    BY <2>1, <1>2, <1>3
  <2>2. CASE IsBlock(mem, a)
    <3>1. B = A \ {m}
      BY <2>2, <1>2, <1>3
    <3>2. a # NULL
      BY <2>2, <1>0, AllocFacts, Constants
    <3>3. m \in Alloc(mem) /\ m.start = a /\ m.own = run /\ a # run
      BY <1>1, <3>2, OwnIs
    <3>4. \A i \in 1 .. Len(stack) - 1 : stack[i] # m.start
      BY <3>3, OwnFacts
    <3> QED
      BY <3>1, <3>4
  <2> QED
    BY <2>1, <2>2
<1> HIDE DEF A, B
<1>8. Live(B, stack, loaded')
  <2>1. Live(A, stack, loaded) /\ Blocky(B) /\ loaded' = StillAt(B, loaded)
    BY <1>0, <1>6 DEF A, B
  <2> QED
    BY <2>1, <1>7, LiveFreed
<1>9. stack' = stack /\ UNCHANGED <<added, resident>> /\ rc' \in BOOLEAN
  BY <1>1, <1>3
<1> QED
  BY <1>4, <1>8, <1>9, MemStep DEF B

LEMMA ShrunkLive ==
  ASSUME MemInv, NEW a, NEW n \in Nat, n = 0 => a \in Own,
         NEW r, r = xsetblk(mem, a, n),
         NEW ls, ls = StillAt(Alloc(r.s), loaded)
  PROVE  Kept(mem, r.s) /\ Live(Alloc(r.s), stack, ls)
<1>0. MemOK(mem) /\ Live(Alloc(mem), stack, loaded) /\ Blocky(Alloc(mem))
  BY RunFacts
<1> DEFINE m == BlockAt(mem, a)
           A == Alloc(mem)
           B == Alloc(r.s)
<1>1. \/ r.s = mem
      \/ /\ IsBlock(mem, a) /\ n = 0 /\ r.addr # NULL
         /\ Kept(mem, r.s) /\ Alloc(r.s) = Alloc(mem) \ {m}
      \/ /\ IsBlock(mem, a) /\ n # 0 /\ r.addr # NULL
         /\ Kept(mem, r.s)
         /\ \E x \in Block :
              /\ x.start = m.start /\ x.own = m.own
              /\ x.length \in 1 .. m.length
              /\ Alloc(r.s) = (Alloc(mem) \ {m}) \cup {x}
  BY <1>0, Xsetblk
<1>2. Kept(mem, r.s)
  BY <1>0, <1>1, KeptSame
<1>3. Blocky(B)
  BY <1>2, AllocBlocky DEF Kept
<1>4. /\ \A x \in B : x \in A \/ \E y \in A : y.own = x.own
      /\ \A x \in A : \/ x \in B
                      \/ \E y \in B : y.start = x.start /\ y.own = x.own
                      \/ \A i \in 1 .. Len(stack) - 1 : stack[i] # x.start
  <2>1. CASE r.s = mem
    BY <2>1
  <2>2. CASE IsBlock(mem, a) /\ n = 0 /\ B = A \ {m}
    <3>1. m \in Alloc(mem) /\ m.start = a /\ m.own = run /\ a # run
      BY <2>2, OwnIs
    <3>2. \A i \in 1 .. Len(stack) - 1 : stack[i] # m.start
      BY <3>1, OwnFacts
    <3> QED
      BY <2>2, <3>2
  <2>3. CASE /\ IsBlock(mem, a)
             /\ \E x \in Block : /\ x.start = m.start /\ x.own = m.own
                                 /\ B = (A \ {m}) \cup {x}
    <3>1. m \in A
      BY <2>3, <1>0, AllocFacts
    <3>2. PICK x \in Block : /\ x.start = m.start /\ x.own = m.own
                             /\ B = (A \ {m}) \cup {x}
      BY <2>3
    <3> HIDE DEF m, A, B
    <3> QED
      BY <3>1, <3>2
  <2> QED
    BY <1>1, <2>1, <2>2, <2>3
<1> HIDE DEF A, B
<1>5. Live(B, stack, ls)
  <2>1. Live(A, stack, loaded) /\ ls = StillAt(B, loaded)
    BY <1>0 DEF A, B
  <2> QED
    BY <2>1, <1>3, <1>4, LiveFreed
<1> QED
  BY <1>2, <1>5 DEF B

LEMMA MshrinkKeeps ==
  ASSUME MemInv, Mshrink
  PROVE  MemInv'
<1>1. PICK a \in Own \cup {run}, n \in Amounts \cup {0} :
        /\ a = run => n > 0
        /\ Result(xsetblk(mem, a, n))
        /\ loaded' = StillThere(mem', loaded)
        /\ UNCHANGED <<stack, added, resident>>
  BY DEF Mshrink
<1> DEFINE r == xsetblk(mem, a, n)
<1>2. n \in Nat /\ (n = 0 => a \in Own)
  BY <1>1, Constants
<1> HIDE DEF r
<1>3. mem' = r.s /\ rc' = (r.addr # NULL)
  BY <1>1 DEF Result, r
<1> DEFINE ls == StillAt(Alloc(r.s), loaded)
<1> HIDE DEF ls
<1>4. Kept(mem, r.s) /\ Live(Alloc(r.s), stack, ls)
  BY <1>2, ShrunkLive DEF r, ls
<1>5. MemOK(r.s)
  BY <1>4 DEF Kept
<1>6. loaded' = ls
  BY <1>1, <1>3, <1>5, StillThereIs DEF ls
<1>7. stack' = stack /\ UNCHANGED <<added, resident>> /\ rc' \in BOOLEAN
  BY <1>1, <1>3
<1>8. Live(Alloc(mem'), stack', loaded') /\ Kept(mem, mem')
  BY <1>3, <1>4, <1>6, <1>7
<1> QED
  BY <1>7, <1>8, MemStep

(* What Pexec() has made.                                                  *)
LEMMA NewBasepageFacts ==
  ASSUME MemInv, NEW b, Prepared(mem, b, run), b.pd # NULL
  PROVE  /\ Kept(mem, b.s) /\ Blocky(Alloc(b.s))
         /\ \E e, t \in Block :
              /\ e.start = b.env /\ t.start = b.pd /\ t # e /\ t.start # e.start
              /\ e \notin Alloc(mem) /\ t \notin Alloc(mem)
              /\ e.own = run /\ t.own = run
              /\ Alloc(b.s) = Alloc(mem) \cup {e, t}
              /\ ~BlockStarts(Alloc(mem), b.pd) /\ ~BlockStarts(Alloc(mem), b.env)
              /\ b.pd # initial_basepage
<1>1. Kept(mem, b.s) /\ \E e, t : Basepage(mem, b, run, e, t)
  BY DEF Prepared
<1>2. PICK e, t : Basepage(mem, b, run, e, t)
  BY <1>1
<1>3. Blocky(Alloc(b.s))
  BY <1>1, AllocBlocky DEF Kept
<1> DEFINE A == Alloc(mem)
           B == Alloc(b.s)
<1>4. /\ e \in Block /\ e.start = b.env /\ e.own = run /\ e \notin A
      /\ t \in Block /\ t.start = b.pd /\ t.own = run /\ t \notin A \cup {e}
      /\ B = A \cup {e, t}
  BY <1>2 DEF Basepage
<1> HIDE DEF A, B
<1>5. \A x, y \in B : x.start = y.start => x = y
  BY <1>3 DEF Blocky, B
<1>6. t \in B /\ e \in B /\ A \subseteq B
  BY <1>4
<1>7. ~BlockStarts(A, b.pd) /\ ~BlockStarts(A, b.env) /\ t.start # e.start
  BY <1>4, <1>5, <1>6 DEF BlockStarts
<1>8. b.pd # initial_basepage
  <2>1. StStart <= t.start
    BY <1>3, <1>6 DEF Blocky, B
  <2> QED
    BY <2>1, <1>4, Constants
<1> QED
  BY <1>1, <1>3, <1>4, <1>7, <1>8 DEF A, B

LEMMA KeptTwice ==
  ASSUME NEW s, NEW t, NEW u, Kept(s, t), Kept(t, u)
  PROVE  Kept(s, u)
BY DEF Kept

LEMMA Elsewhere ==
  ASSUME NEW A, NEW st, NEW ld, Live(A, st, ld), NEW a, ~BlockStarts(A, a)
  PROVE  /\ \A i \in 1 .. Len(st) - 1 : st[i] # a
         /\ \A l \in ld : l.env # a /\ l.pd # a
BY DEF Live, Housed, Ready, BlockStarts

LEMMA NotRunning ==
  ASSUME NEW st, StackOK(st), NEW a, a # initial_basepage,
         \A i \in 1 .. Len(st) - 1 : st[i] # a
  PROVE  a \notin ToSet(st)
<1> SUFFICES ASSUME a \in ToSet(st)
             PROVE  FALSE
  OBVIOUS
<1>1. PICK i \in 1 .. Len(st) : a = st[i]
  BY StackFacts
<1>2. i \in 1 .. Len(st) - 1 \/ i = Len(st)
  BY <1>1, StackFacts
<1>3. st[Len(st)] = initial_basepage
  BY DEF StackOK
<1> QED
  BY <1>1, <1>2, <1>3

(* Pexec() that fails. *)
LEMMA PexecFailsKeeps ==
  ASSUME MemInv, NEW b, Prepared(mem, b, run), PexecFails(NotLoaded(b)),
         UNCHANGED <<added, resident>>
  PROVE  MemInv'
<1>1. mem' = NotLoaded(b) /\ rc' = FALSE /\ stack' = stack /\ loaded' = loaded
  BY DEF PexecFails
<1>2. MemOK(mem) /\ Live(Alloc(mem), stack, loaded)
  BY RunFacts
<1>3. Kept(mem, mem') /\ Alloc(mem') = Alloc(mem)
  BY <1>1, <1>2, NotLoadedFacts
<1>4. Live(Alloc(mem'), stack', loaded') /\ rc' \in BOOLEAN
  BY <1>1, <1>2, <1>3
<1> QED
  BY <1>3, <1>4, MemStep

(* The blocks t and e are given to own. *)
Given2(A, B, t, e, own) ==
  B = (A \ {t, e}) \cup {[t EXCEPT !.own = own], [e EXCEPT !.own = own]}

LEMMA Given2Facts ==
  ASSUME NEW A, A \subseteq Block, NEW t \in A, NEW e \in A, NEW own \in Nat,
         NEW B, Given2(A, B, t, e, own)
  PROVE  /\ \A m \in B : m \in A \/ m.own = own
         /\ \A m \in A : m \in B \/ (BlockStarts(B, m.start) /\ m \in {t, e})
         /\ \A m \in A \ {t, e} : m \in B
         /\ \A m \in B : m \in A \ {t, e} \/ m.own = own
         /\ \E x \in B : x.start = t.start /\ x.own = own
         /\ \E x \in B : x.start = e.start /\ x.own = own
<1> DEFINE u == [t EXCEPT !.own = own]
           v == [e EXCEPT !.own = own]
<1>1. u.start = t.start /\ u.own = own /\ v.start = e.start /\ v.own = own
  BY DEF Block
<1> HIDE DEF u, v
<1>2. B = (A \ {t, e}) \cup {u, v}
  BY DEF Given2, u, v
<1> QED
  BY <1>1, <1>2 DEF BlockStarts

LEMMA PexecLoadGoKeeps ==
  ASSUME MemInv, PexecLoadGo
  PROVE  MemInv'
<1>1. PICK r \in Requests : LET b == NewBasepage(mem, r) IN
        /\ \/ PexecFails(NotLoaded(b))
           \/ /\ b.pd # NULL
              /\ mem' = set_owners(b.s, b, b.pd)
              /\ stack' = <<b.pd>> \o stack
              /\ rc' = TRUE
              /\ UNCHANGED loaded
        /\ UNCHANGED <<added, resident>>
  BY DEF PexecLoadGo
<1> DEFINE b == NewBasepage(mem, r)
<1>2. /\ MemOK(mem) /\ run = Head(stack) /\ run \in Nat /\ StackOK(stack)
      /\ Live(Alloc(mem), stack, loaded)
  BY RunFacts
<1>3. Prepared(mem, b, run)
  BY <1>2, PreparedIs
<1> HIDE DEF b
<1>4. CASE PexecFails(NotLoaded(b))
  BY <1>1, <1>3, <1>4, PexecFailsKeeps
<1>5. CASE b.pd # NULL /\ mem' = set_owners(b.s, b, b.pd)
           /\ stack' = <<b.pd>> \o stack /\ rc' = TRUE /\ loaded' = loaded
  <2> DEFINE A == Alloc(mem)
             C == Alloc(b.s)
             B == Alloc(mem')
  <2>1. Kept(mem, b.s) /\ Blocky(C)
    BY <1>3, <1>5, NewBasepageFacts
  <2>2. PICK e \in Block, t \in Block :
          /\ e.start = b.env /\ t.start = b.pd /\ t # e /\ t.start # e.start
          /\ e \notin A /\ t \notin A
          /\ e.own = run /\ t.own = run
          /\ C = A \cup {e, t}
          /\ ~BlockStarts(A, b.pd) /\ ~BlockStarts(A, b.env)
          /\ b.pd # initial_basepage
    BY <1>3, <1>5, NewBasepageFacts
  <2>3. MemOK(b.s) /\ t \in C /\ e \in C /\ b.pd \in Nat /\ C \subseteq Block
    BY <2>1, <2>2 DEF Kept, Block, Blocky
  <2>4. Kept(b.s, mem') /\ Given2(C, B, t, e, b.pd)
    BY <1>5, <2>2, <2>3, SetOwners DEF Given2
  <2>5. Kept(mem, mem') /\ MemOK(mem')
    BY <2>1, <2>4, KeptTwice DEF Kept
  <2>6. Blocky(B)
    BY <2>5, AllocBlocky
  <2> HIDE DEF A, B, C
  <2>7. Live(C, stack, loaded)
    <3>1. A \subseteq C /\ \A m \in C \ A : m.own = Head(stack)
      BY <1>2, <2>2
    <3> QED
      BY <3>1, <1>2, <2>1, LiveTaken DEF A
  <2>8. /\ \A i \in 1 .. Len(stack) - 1 : stack[i] # b.pd /\ stack[i] # b.env
        /\ \A l \in loaded : l.env # b.pd
    BY <1>2, <2>2, Elsewhere DEF A
  <2>9. b.pd \notin ToSet(stack)
    BY <1>2, <2>2, <2>8, NotRunning
  <2>10. /\ \A m \in B : m \in C \/ m.own = b.pd
         /\ \A m \in C : m \in B \/ (BlockStarts(B, m.start) /\ m \in {t, e})
         /\ \E x \in B : x.start = t.start /\ x.own = b.pd
    BY <2>3, <2>4, Given2Facts
  <2>11. \A m \in C : \/ m \in B
                      \/ /\ BlockStarts(B, m.start)
                         /\ \A i \in 1 .. Len(stack) - 1 : stack[i] # m.start
    BY <2>2, <2>8, <2>10
  <2>12. PICK x \in B : x.start = b.pd /\ x.own \in {b.pd, Head(stack)}
    BY <2>2, <2>10
  <2>13. Live(B, stack', loaded)
    BY <1>5, <2>3, <2>6, <2>7, <2>8, <2>9, <2>10, <2>11, <2>12, LiveStarted
  <2>14. Live(Alloc(mem'), stack', loaded') /\ rc' \in BOOLEAN
    BY <1>5, <2>13 DEF B
  <2> QED
    BY <1>1, <2>5, <2>14, MemStep
<1> QED
  BY <1>1, <1>4, <1>5 DEF b

LEMMA PexecLoadKeeps ==
  ASSUME MemInv, PexecLoad
  PROVE  MemInv'
<1>1. PICK r \in Requests : LET b == NewBasepage(mem, r) IN
        /\ \/ PexecFails(NotLoaded(b))
           \/ /\ b.pd # NULL
              /\ mem' = set_owners(b.s, b, run)
              /\ loaded' = loaded \cup {[pd |-> b.pd, env |-> b.env]}
              /\ rc' = TRUE
              /\ UNCHANGED stack
        /\ UNCHANGED <<added, resident>>
  BY DEF PexecLoad
<1> DEFINE b == NewBasepage(mem, r)
<1>2. /\ MemOK(mem) /\ run = Head(stack) /\ run \in Nat /\ StackOK(stack)
      /\ Live(Alloc(mem), stack, loaded)
  BY RunFacts
<1>3. Prepared(mem, b, run)
  BY <1>2, PreparedIs
<1> HIDE DEF b
<1>4. CASE PexecFails(NotLoaded(b))
  BY <1>1, <1>3, <1>4, PexecFailsKeeps
<1>5. CASE b.pd # NULL /\ mem' = set_owners(b.s, b, run) /\ rc' = TRUE
           /\ loaded' = loaded \cup {[pd |-> b.pd, env |-> b.env]}
           /\ stack' = stack
  <2> DEFINE A == Alloc(mem)
             C == Alloc(b.s)
             B == Alloc(mem')
  <2>1. Kept(mem, b.s) /\ Blocky(C)
    BY <1>3, <1>5, NewBasepageFacts
  <2>2. PICK e \in Block, t \in Block :
          /\ e.start = b.env /\ t.start = b.pd /\ t # e /\ t.start # e.start
          /\ e \notin A /\ t \notin A
          /\ e.own = run /\ t.own = run
          /\ C = A \cup {e, t}
          /\ ~BlockStarts(A, b.pd) /\ ~BlockStarts(A, b.env)
          /\ b.pd # initial_basepage
    BY <1>3, <1>5, NewBasepageFacts
  <2>3. /\ MemOK(b.s) /\ t \in C /\ e \in C /\ C \subseteq Block
        /\ b.pd \in Nat /\ b.env \in Nat
    BY <2>1, <2>2 DEF Kept, Block, Blocky
  <2>4. Kept(b.s, mem') /\ Given2(C, B, t, e, run)
    BY <1>2, <1>5, <2>2, <2>3, SetOwners DEF Given2
  <2>5. Kept(mem, mem') /\ MemOK(mem')
    BY <2>1, <2>4, KeptTwice DEF Kept
  <2>6. Blocky(B)
    BY <2>5, AllocBlocky
  <2> HIDE DEF A, B, C
  <2>7. /\ \A m \in C \ {t, e} : m \in B
        /\ \A m \in B : m \in C \ {t, e} \/ m.own = run
        /\ \E x \in B : x.start = t.start /\ x.own = run
        /\ \E x \in B : x.start = e.start /\ x.own = run
    BY <1>2, <2>3, <2>4, Given2Facts
  <2>8. Live(B, stack, loaded)
    <3>1. A \subseteq B
      BY <2>2, <2>7
    <3>2. \A m \in B \ A : m.own = Head(stack)
      BY <1>2, <2>2, <2>7
    <3> QED
      BY <3>1, <3>2, <1>2, <2>6, LiveTaken DEF A
  <2>9. /\ \A i \in 1 .. Len(stack) - 1 : b.env # stack[i]
        /\ \A l \in loaded : l.env # b.pd /\ l.pd # b.env
    BY <1>2, <2>2, Elsewhere DEF A
  <2>10. BlockStarts(B, b.pd) /\ BlockStarts(B, b.env) /\ b.pd # b.env
    BY <2>2, <2>7 DEF BlockStarts
  <2>11. Live(B, stack, loaded')
    BY <1>5, <2>3, <2>8, <2>9, <2>10, LiveReady
  <2>12. Live(Alloc(mem'), stack', loaded') /\ rc' \in BOOLEAN
    BY <1>5, <2>11 DEF B
  <2> QED
    BY <1>1, <2>5, <2>12, MemStep
<1> QED
  BY <1>1, <1>4, <1>5 DEF b

LEMMA PexecGoKeeps ==
  ASSUME MemInv, PexecGo
  PROVE  MemInv'
<1>1. PICK l \in loaded, thenfree \in BOOLEAN :
        /\ l.pd \notin ToSet(stack)
        /\ BlockAt(mem, l.pd).own = run /\ BlockAt(mem, l.env).own = run
        /\ mem' = IF thenfree THEN set_owners(mem, l, l.pd) ELSE mem
        /\ stack' = <<l.pd>> \o stack
        /\ rc' = TRUE
        /\ UNCHANGED <<loaded, added, resident>>
  BY DEF PexecGo
<1> DEFINE A == Alloc(mem)
           B == Alloc(mem')
           t == BlockAt(mem, l.pd)
           e == BlockAt(mem, l.env)
<1>2. /\ MemOK(mem) /\ run = Head(stack) /\ Blocky(A) /\ A \subseteq Block
      /\ Live(A, stack, loaded)
  BY RunFacts
<1>3. /\ l.pd \in Nat /\ BlockStarts(A, l.pd) /\ BlockStarts(A, l.env)
      /\ \A k \in loaded : k.env # l.pd
      /\ \A i \in 1 .. Len(stack) - 1 : l.env # stack[i]
  BY <1>2 DEF Live, Ready
<1>4. t \in A /\ t.start = l.pd /\ e \in A /\ e.start = l.env
  BY <1>2, <1>3, IsBlockAt, AllocFacts
<1>5. t # e
  BY <1>3, <1>4
<1>6. \A i \in 1 .. Len(stack) - 1 : stack[i] # l.pd
  <2>1. \A i \in 1 .. Len(stack) : stack[i] \in ToSet(stack)
    BY <1>2, StackFacts DEF Live
  <2> QED
    BY <2>1, <1>1, <1>2, StackFacts DEF Live
<1> DEFINE C == Alloc(set_owners(mem, l, l.pd))
<1>7. Kept(mem, set_owners(mem, l, l.pd)) /\ Given2(A, C, t, e, l.pd)
  BY <1>2, <1>3, <1>4, <1>5, SetOwners DEF Given2
<1>8. Kept(mem, mem') /\ (B = A \/ Given2(A, B, t, e, l.pd))
  <2>1. CASE thenfree
    BY <2>1, <1>1, <1>7
  <2>2. CASE ~thenfree
    BY <2>2, <1>1, <1>2, KeptSame
  <2> QED
    BY <2>1, <2>2
<1>9. Blocky(B)
  BY <1>8, AllocBlocky DEF Kept
<1> HIDE DEF A, B, C
<1>10. /\ \A m \in B : m \in A \/ m.own = l.pd
       /\ \A m \in A : m \in B \/ (BlockStarts(B, m.start) /\ m \in {t, e})
       /\ \E x \in B : x.start = t.start /\ x.own \in {l.pd, run}
  <2>1. CASE B = A
    BY <2>1, <1>1, <1>4
  <2>2. CASE Given2(A, B, t, e, l.pd)
    <3> HIDE DEF t, e
    <3> QED
      BY <2>2, <1>2, <1>3, <1>4, Given2Facts
  <2> QED
    BY <2>1, <2>2, <1>8
<1> HIDE DEF t, e
<1>11. \A m \in A : \/ m \in B
                    \/ /\ BlockStarts(B, m.start)
                       /\ \A i \in 1 .. Len(stack) - 1 : stack[i] # m.start
  BY <1>3, <1>4, <1>6, <1>10
<1>12. PICK x \in B : x.start = l.pd /\ x.own \in {l.pd, Head(stack)}
  BY <1>2, <1>4, <1>10
<1>13. Live(B, stack', loaded)
  <2>1. stack' = <<l.pd>> \o stack /\ l.pd \notin ToSet(stack)
    BY <1>1
  <2> QED
    BY <2>1, <1>2, <1>3, <1>9, <1>10, <1>11, <1>12, LiveStarted
<1>14. Live(Alloc(mem'), stack', loaded') /\ rc' \in BOOLEAN
       /\ UNCHANGED <<added, resident>>
  BY <1>1, <1>13 DEF B
<1> QED
  BY <1>8, <1>14, MemStep

(***************************************************************************)
(* The end of a program.                                                   *)
(***************************************************************************)
Less(s, t, p, pd) ==
  t.mal = [s.mal EXCEPT ![p] = @ \ OwnedBy(pd, s.mal[p])]

(* The blocks of both pools that are not owned by pd.                      *)
LEMMA AllocLess ==
  ASSUME NEW s, MemOK(s), NEW t, MemOK(t), NEW u, NEW pd,
         Less(s, t, "st", pd), Less(t, u, "alt", pd)
  PROVE  /\ Alloc(u) = Alloc(s) \ {m \in Alloc(s) : m.own = pd}
         /\ OwnedBy(pd, t.mal["alt"]) = OwnedBy(pd, s.mal["alt"])
<1>1. "st" \in Pools /\ "alt" \in Pools /\ "st" # "alt"
  BY DEF Pools
<1>2. /\ t.mal["st"] = s.mal["st"] \ OwnedBy(pd, s.mal["st"])
      /\ t.mal["alt"] = s.mal["alt"]
  <2>1. s.mal \in [Pools -> SUBSET Block]
    BY MemTypes
  <2> QED
    BY <1>1, <2>1 DEF Less
<1>3. /\ u.mal["alt"] = t.mal["alt"] \ OwnedBy(pd, t.mal["alt"])
      /\ u.mal["st"] = t.mal["st"]
  <2>1. t.mal \in [Pools -> SUBSET Block]
    BY MemTypes
  <2> QED
    BY <1>1, <2>1 DEF Less
<1> QED
  BY <1>2, <1>3 DEF Alloc, OwnedBy

LEMMA Ixterm ==
  ASSUME NEW s, MemOK(s), NEW pd
  PROVE  LET u == ixterm(s, pd)
         IN  Kept(s, u) /\ Alloc(u) = Alloc(s) \ {m \in Alloc(s) : m.own = pd}
<1> DEFINE t == free_all_owned(s, "st", pd)
           u == free_all_owned(t, "alt", pd)
<1>1. "st" \in Pools /\ "alt" \in Pools
  BY DEF Pools
<1>2. /\ Kept(s, t)
      /\ t.mal = [s.mal EXCEPT !["st"] = @ \ OwnedBy(pd, s.mal["st"])]
  BY <1>1, FreeAll
<1> HIDE DEF t
<1>3. MemOK(t)
  BY <1>2 DEF Kept
<1>4. /\ Kept(t, u)
      /\ u.mal = [t.mal EXCEPT !["alt"] = @ \ OwnedBy(pd, t.mal["alt"])]
  BY <1>1, <1>3, FreeAll
<1> HIDE DEF u
<1>5. Alloc(u) = Alloc(s) \ {m \in Alloc(s) : m.own = pd}
  <2>1. Less(s, t, "st", pd) /\ Less(t, u, "alt", pd)
    BY <1>2, <1>4 DEF Less
  <2> QED
    BY <1>3, <2>1, AllocLess
<1>6. Kept(s, u)
  BY <1>2, <1>4, KeptTwice
<1>7. ixterm(s, pd) = u
  BY DEF ixterm, t, u
<1> QED
  BY <1>5, <1>6, <1>7

LEMMA EndedLive ==
  ASSUME MemInv, Len(stack) > 1, NEW A, NEW ls, Live(A, stack, ls),
         ls = loaded \/ ls = StillAt(A, loaded),
         MemOK(mem'), Alloc(mem') = A \ {m \in A : m.own = run},
         loaded' = StillThere(mem', loaded), stack' = Tail(stack)
  PROVE  Live(Alloc(mem'), stack', loaded')
<1> DEFINE B == Alloc(mem')
<1>1. Blocky(B) /\ loaded' = StillAt(B, loaded)
  BY AllocBlocky, StillThereIs
<1>2. B \subseteq A /\ B = A \ {m \in A : m.own = Head(stack)}
  BY RunFacts
<1> HIDE DEF B
<1>3. loaded' = StillAt(B, ls)
  BY <1>1, <1>2 DEF StillAt, BlockStarts
<1>4. Live(B, Tail(stack), loaded')
  BY <1>1, <1>2, <1>3, LiveEnded
<1> QED
  BY <1>4 DEF B

LEMMA PtermKeeps ==
  ASSUME MemInv, Pterm
  PROVE  MemInv'
<1>1. /\ Len(stack) > 1 /\ mem' = ixterm(mem, run) /\ stack' = Tail(stack)
      /\ loaded' = StillThere(mem', loaded) /\ rc' = TRUE
      /\ UNCHANGED <<added, resident>>
  BY DEF Pterm, Terminate
<1>2. MemOK(mem) /\ Live(Alloc(mem), stack, loaded)
  BY RunFacts
<1>3. Kept(mem, mem')
      /\ Alloc(mem') = Alloc(mem) \ {m \in Alloc(mem) : m.own = run}
  BY <1>1, <1>2, Ixterm
<1>4. MemOK(mem')
  BY <1>3 DEF Kept
<1>5. Live(Alloc(mem'), stack', loaded')
  BY <1>1, <1>2, <1>3, <1>4, EndedLive
<1> QED
  BY <1>1, <1>3, <1>5, MemStep

(* reserve_blocks() of both pools.                                         *)
LEMMA ReserveBoth ==
  ASSUME NEW s, MemOK(s), NEW pd, NEW low, NEW t,
         t = reserve_blocks(reserve_blocks(s, "st", pd, low), "alt", pd, low)
  PROVE  LET T == OwnedBy(pd, Alloc(s))
         IN  /\ MemOK(t)
             /\ Cover(All(t)) = Cover(All(s)) \ Cover(T)
             /\ Alloc(t) = Alloc(s) \ T
<1> DEFINE u == reserve_blocks(s, "st", pd, low)
           T1 == OwnedBy(pd, s.mal["st"])
           T2 == OwnedBy(pd, u.mal["alt"])
           T == OwnedBy(pd, Alloc(s))
<1>1. "st" \in Pools /\ "alt" \in Pools
  BY DEF Pools
<1>2. /\ MemOK(u) /\ Cover(All(u)) = Cover(All(s)) \ Cover(T1)
      /\ u.mal = [s.mal EXCEPT !["st"] = @ \ T1]
  BY <1>1, Reserve
<1> HIDE DEF u
<1>3. /\ MemOK(t) /\ Cover(All(t)) = Cover(All(u)) \ Cover(T2)
      /\ t.mal = [u.mal EXCEPT !["alt"] = @ \ T2]
  BY <1>1, <1>2, Reserve DEF u
<1>4. /\ Alloc(t) = Alloc(s) \ {m \in Alloc(s) : m.own = pd}
      /\ T2 = OwnedBy(pd, s.mal["alt"])
  <2>1. Less(s, u, "st", pd) /\ Less(u, t, "alt", pd)
    BY <1>2, <1>3 DEF Less
  <2> QED
    BY <1>2, <2>1, AllocLess
<1>5. T = T1 \cup T2 /\ T = {m \in Alloc(s) : m.own = pd}
  BY <1>4 DEF OwnedBy, Alloc
<1> HIDE DEF T, T1, T2
<1>6. Cover(T) = Cover(T1) \cup Cover(T2)
  BY <1>5 DEF Cover
<1>7. Cover(All(t)) = Cover(All(s)) \ Cover(T)
  BY <1>2, <1>3, <1>6
<1> QED
  BY <1>3, <1>4, <1>5, <1>7 DEF T

LEMMA PtermresKeeps ==
  ASSUME MemInv, Ptermres
  PROVE  MemInv'
<1>1. PICK n \in Amounts, low \in BOOLEAN :
        LET s == xsetblk(mem, run, n).s
            mine == OwnedBy(run, Alloc(s))
        IN  /\ Len(stack) > 1
            /\ resident' = resident \cup UNION {Bytes(m) : m \in mine}
            /\ Terminate(reserve_blocks(reserve_blocks(s, "st", run, low),
                                        "alt", run, low))
  BY DEF Ptermres, Alloc
<1> DEFINE r == xsetblk(mem, run, n)
           s == r.s
           T == OwnedBy(run, Alloc(s))
           t == reserve_blocks(reserve_blocks(s, "st", run, low), "alt", run, low)
           ls == StillAt(Alloc(s), loaded)
<1>2. n \in Nat /\ n # 0
  BY Constants
<1>3. Kept(mem, s) /\ Live(Alloc(s), stack, ls)
  <2> HIDE DEF r, ls
  <2>1. r = xsetblk(mem, run, n) /\ ls = StillAt(Alloc(r.s), loaded)
    BY DEF r, ls
  <2> QED
    BY <2>1, <1>2, ShrunkLive
<1>4. /\ resident' = resident \cup Cover(T)
      /\ mem' = ixterm(t, run) /\ stack' = Tail(stack) /\ Len(stack) > 1
      /\ loaded' = StillThere(mem', loaded) /\ rc' = TRUE /\ added' = added
  BY <1>1 DEF Terminate, Cover
<1> HIDE DEF r, s, t
<1>5. MemOK(s) /\ Cover(All(s)) = Cover(All(mem))
  BY <1>3 DEF Kept
<1>6. MemOK(t) /\ Cover(All(t)) = Cover(All(s)) \ Cover(T)
      /\ Alloc(t) = Alloc(s) \ T
  BY <1>5, ReserveBoth DEF t
<1> DEFINE own == {m \in Alloc(s) : m.own = run}
<1>7. Kept(t, mem') /\ Alloc(mem') = Alloc(s) \ own
  <2>1. Kept(t, mem') /\ Alloc(mem') = Alloc(t) \ {m \in Alloc(t) : m.own = run}
    BY <1>4, <1>6, Ixterm
  <2> QED
    BY <2>1, <1>6 DEF OwnedBy
<1>8. MemOK(mem') /\ Cover(All(mem')) = Cover(All(mem)) \ Cover(T)
  BY <1>5, <1>6, <1>7 DEF Kept
<1> HIDE DEF ls
<1>9. Live(Alloc(mem'), stack', loaded')
  <2> DEFINE A == Alloc(s)
  <2>1. /\ Live(A, stack, ls) /\ ls = StillAt(A, loaded)
        /\ Alloc(mem') = A \ {m \in A : m.own = run}
    BY <1>3, <1>7 DEF ls
  <2> HIDE DEF A
  <2> QED
    BY <2>1, <1>4, <1>8, EndedLive
<1>10. T \subseteq All(s)
  BY <1>5, AllocFacts DEF OwnedBy
<1>11. Cover(T) \subseteq Cover(All(mem))
  <2>1. Cover(T) \subseteq Cover(All(s))
    BY <1>10 DEF Cover
  <2> QED
    BY <2>1, <1>5
<1> HIDE DEF T
<1>12. Covered'
  <2> DEFINE C == Cover(All(mem))
  <2>1. /\ added \subseteq Boards
        /\ \A b \in added : StStart + StSize <= b.start
        /\ resident \subseteq Memory
        /\ C = Memory \ resident
    BY DEF MemInv, Covered
  <2>2. Memory' = Memory
    BY <1>4 DEF Memory
  <2>3. Cover(All(mem')) = C \ Cover(T) /\ Cover(T) \subseteq C
    BY <1>8, <1>11
  <2> HIDE DEF C
  <2>4. resident' \subseteq Memory /\ Cover(All(mem')) = Memory \ resident'
    BY <2>1, <2>3, <1>4
  <2> QED
    BY <2>1, <2>2, <2>4, <1>4 DEF Covered
<1> QED
  BY <1>4, <1>8, <1>9, <1>12 DEF MemInv

(***************************************************************************)
(* Boards, and the OS pool.                                                *)
(***************************************************************************)
LEMMA BoardApart ==
  ASSUME NEW b \in Boards, NEW c \in Boards, NEW a \in BoardBytes(b),
         a \in BoardBytes(c)
  PROVE  b = c
<1>1. /\ b.start \in Nat /\ b.size \in Int /\ c.start \in Nat /\ c.size \in Int
      /\ b.start \in c.start .. (c.start + c.size - 1) => b = c
      /\ c.start \in b.start .. (b.start + b.size - 1) => c = b
  BY UMemAssumption
<1> DEFINE bs == b.start
           bn == b.size
           cs == c.start
           cn == c.size
<1>2. bs \in Nat /\ bn \in Int /\ cs \in Nat /\ cn \in Int
  BY <1>1
<1>3. a \in bs .. (bs + (bn - (bn % 4)) - 1) /\ a \in cs .. (cs + (cn - (cn % 4)) - 1)
  BY DEF BoardBytes
<1> HIDE DEF bs, bn, cs, cn
<1>4. bn % 4 \in 0 .. 3 /\ cn % 4 \in 0 .. 3
  BY <1>2
<1>5. /\ a \in Int /\ bs <= a /\ a <= bs + bn - 1 /\ cs <= a /\ a <= cs + cn - 1
  <2> DEFINE x == bn % 4
             y == cn % 4
  <2>1. x \in 0 .. 3 /\ y \in 0 .. 3 /\ a \in bs .. (bs + (bn - x) - 1)
        /\ a \in cs .. (cs + (cn - y) - 1)
    BY <1>3, <1>4
  <2> HIDE DEF x, y
  <2> QED
    BY <2>1, <1>2
<1>6. bs \in cs .. (cs + cn - 1) \/ cs \in bs .. (bs + bn - 1)
  BY <1>2, <1>5
<1> QED
  BY <1>1, <1>6 DEF bs, bn, cs, cn

LEMMA BoardFresh ==
  ASSUME MemInv, NEW b \in Boards \ added, StStart + StSize <= b.start
  PROVE  BoardBytes(b) \cap Memory = {}
<1> SUFFICES ASSUME NEW a \in BoardBytes(b), a \in Memory
             PROVE  FALSE
  OBVIOUS
<1>1. added \subseteq Boards
  BY DEF MemInv, Covered
<1>2. a \notin StRam
  <2>1. b.start \in Nat /\ b.size \in Int
    BY UMemAssumption
  <2>2. a \in Int /\ b.start <= a
    <3> DEFINE z == b.start + (b.size - (b.size % 4)) - 1
    <3>1. a \in b.start .. z
      BY DEF BoardBytes
    <3> HIDE DEF z
    <3> QED
      BY <3>1
  <2>3. StStart + StSize <= a
    BY <2>1, <2>2, Constants
  <2> QED
    BY <2>2, <2>3, Constants DEF StRam
<1>3. PICK c \in added : a \in BoardBytes(c)
  BY <1>2 DEF Memory
<1> QED
  BY <1>1, <1>3, BoardApart

LEMMA MaddaltKeeps ==
  ASSUME MemInv, Maddalt
  PROVE  MemInv'
<1>1. PICK b \in Boards \ added :
        LET r == xmaddalt(b.start, b.size - (b.size % 4))
        IN  /\ Result(r)
            /\ added' = IF r.addr # NULL THEN added \cup {b} ELSE added
            /\ UNCHANGED <<stack, loaded, resident>>
  BY DEF Maddalt
<1> DEFINE size == b.size - (b.size % 4)
           r == xmaddalt(b.start, size)
           N == b.start .. b.start + size - 1
<1>2. b.start \in Nat /\ size \in Int
  <2>1. b.start \in Nat /\ b.size \in Int
    BY UMemAssumption
  <2> DEFINE z == b.size
  <2> HIDE DEF z
  <2>2. z \in Int => z - (z % 4) \in Int
    OBVIOUS
  <2> QED
    BY <2>1, <2>2 DEF z
<1>3. N = BoardBytes(b)
  BY DEF BoardBytes
<1> HIDE DEF size
<1>4. /\ MemOK(mem) /\ Live(Alloc(mem), stack, loaded)
  BY RunFacts
<1>5. CASE StStart + StSize <= b.start
  <2>1. N \cap Memory = {}
    BY <1>3, <1>5, BoardFresh
  <2>2. N \cap Cover(All(mem)) = {}
    BY <2>1 DEF MemInv, Covered
  <2>3. \/ r.s = mem /\ r.addr = NULL
        \/ /\ Grown(mem, r, b.start .. b.start + size - 1)
           /\ r.addr = b.start /\ b.start # NULL
           /\ StStart + StSize <= b.start
    BY <1>2, <1>4, <2>2, Xmaddalt
  <2> HIDE DEF r, N
  <2>4. CASE r.s = mem /\ r.addr = NULL
    <3>1. mem' = mem /\ UNCHANGED <<added, resident, stack, loaded>> /\ rc' = FALSE
      BY <1>1, <2>4 DEF Result, r, size
    <3> QED
      BY <3>1, <1>4, KeptSame, MemStep
  <2>5. CASE Grown(mem, r, N) /\ r.addr # NULL
    <3>1. /\ mem' = r.s /\ added' = added \cup {b} /\ rc' = TRUE
          /\ UNCHANGED <<resident, stack, loaded>>
      BY <1>1, <2>5 DEF Result, r, size
    <3>2. /\ MemOK(mem') /\ Cover(All(mem')) = Cover(All(mem)) \cup N
          /\ Alloc(mem') = Alloc(mem)
      BY <3>1, <2>5 DEF Grown
    <3>3. Live(Alloc(mem'), stack', loaded')
      BY <3>1, <3>2, <1>4
    <3>4. Covered'
      <4>1. /\ added \subseteq Boards
            /\ \A c \in added : StStart + StSize <= c.start
            /\ resident \subseteq Memory
            /\ Cover(All(mem)) = Memory \ resident
        BY DEF MemInv, Covered
      <4>2. Memory' = Memory \cup N
        BY <3>1, <1>3 DEF Memory
      <4>3. Cover(All(mem')) = Memory' \ resident
        BY <4>1, <4>2, <3>2, <2>1
      <4>4. resident' \subseteq Memory' /\ added' \subseteq Boards
        BY <4>1, <4>2, <3>1
      <4>5. \A c \in added' : StStart + StSize <= c.start
        BY <4>1, <3>1, <1>5
      <4> QED
        BY <4>3, <4>4, <4>5, <3>1 DEF Covered
    <3> QED
      BY <3>1, <3>2, <3>3, <3>4 DEF MemInv
  <2> QED
    BY <2>3, <2>4, <2>5 DEF N
<1>6. CASE ~(StStart + StSize <= b.start)
  <2>1. r = Found(mem, NULL)
    <3>1. b.start < StStart + StSize
      BY <1>2, <1>6, Constants
    <3> QED
      BY <3>1 DEF xmaddalt
  <2>2. r.s = mem /\ r.addr = NULL
    BY <2>1 DEF Found
  <2> HIDE DEF r
  <2>3. mem' = mem /\ UNCHANGED <<added, resident, stack, loaded>> /\ rc' = FALSE
    BY <1>1, <2>2 DEF Result, r, size
  <2> QED
    BY <2>3, <1>4, KeptSame, MemStep
<1> QED
  BY <1>5, <1>6

LEMMA OsPoolKeeps ==
  ASSUME MemInv, NEW taken, OsPool(taken), taken \subseteq Blocks,
         \A b \in taken : mem.osm.used[b] = 0
  PROVE  MemInv'
<1> DEFINE o == mem.osm
           o1 == [o EXCEPT !.taken = taken]
<1>1. MemOK(mem) /\ Live(Alloc(mem), stack, loaded)
  BY RunFacts
<1>2. /\ mem.mfl \in [Pools -> Seq(Block)] /\ mem.mal \in [Pools -> SUBSET Block]
      /\ o \in Osm /\ Sound(All(mem), o)
      /\ mem = [mfl |-> mem.mfl, mal |-> mem.mal, osm |-> o]
  BY <1>1, MemTypes
<1>3. /\ mem' = [mem EXCEPT !.osm = o1]
      /\ UNCHANGED <<stack, loaded, added, resident, rc>>
  BY DEF OsPool
<1>4. /\ o1 \in Osm /\ o1.used = o.used /\ o1.mdbroot = o.mdbroot
      /\ o1.taken = taken
  BY <1>2 DEF Osm
<1> HIDE DEF o1
<1>5. Sound(All(mem), o1)
  <2> DEFINE A == All(mem)
  <2> HIDE DEF A, o
  <2>1. Accounted(A, o) => Accounted(A, o1)
    BY <1>4 DEF Accounted, o
  <2> QED
    BY <2>1, <1>2 DEF Sound, A
<1>6. mem'.mfl = mem.mfl /\ mem'.mal = mem.mal /\ mem'.osm = o1
  BY <1>2, <1>3
<1>7. mem' \in [mfl : [Pools -> Seq(Block)], mal : [Pools -> SUBSET Block],
                osm : Osm]
  BY <1>2, <1>3, <1>4
<1>8. All(mem') = All(mem) /\ Alloc(mem') = Alloc(mem)
  BY <1>6 DEF All, Alloc, InList
<1>9. Kept(mem, mem')
  <2>1. Sound(All(mem'), mem'.osm)
    BY <1>5, <1>6, <1>8
  <2>2. \A p \in Pools : /\ Once(mem'.mfl[p])
                         /\ ToSet(mem'.mfl[p]) \cap mem'.mal[p] = {}
                         /\ \A m \in InList(mem', p) : InPool(p, m)
    <3>1. \A p : InList(mem', p) = InList(mem, p)
      BY <1>6 DEF InList
    <3> QED
      BY <3>1, <1>1, <1>6 DEF MemOK
  <2>3. Sorted(mem'.mfl["st"])
    BY <1>1, <1>6 DEF MemOK
  <2>4. MemOK(mem')
    BY <2>1, <2>2, <2>3, <1>7 DEF MemOK
  <2> QED
    BY <2>4, <1>8 DEF Kept
<1>10. Live(Alloc(mem'), stack', loaded') /\ rc' \in BOOLEAN
       /\ UNCHANGED <<added, resident>>
  BY <1>1, <1>3, <1>8 DEF MemInv
<1> QED
  BY <1>9, <1>10, MemStep

LEMMA BlockTakenKeeps ==
  ASSUME MemInv, xmgetblk \/ xmfreblk
  PROVE  MemInv'
<1> DEFINE o == mem.osm
<1>1. o.taken \subseteq Blocks /\ \A b \in o.taken : o.used[b] = 0
  BY RunFacts, MemTypes DEF Sound, Accounted, Osm
<1>2. CASE xmgetblk
  <2> DEFINE b == Min(FreeBlocks(o))
  <2>1. FreeBlocks(o) # {} /\ FreeBlocks(o) \in SUBSET Nat
    BY <1>2, Constants DEF xmgetblk, FreeBlocks
  <2>2. b \in FreeBlocks(o)
    BY <2>1, MinFacts
  <2>3. b \in Blocks /\ o.used[b] = 0
    BY <2>2 DEF FreeBlocks
  <2>4. OsPool(o.taken \cup {b})
    BY <1>2 DEF xmgetblk
  <2> HIDE DEF b
  <2> QED
    BY <2>3, <2>4, <1>1, OsPoolKeeps
<1>3. CASE xmfreblk
  <2>1. PICK b \in o.taken : OsPool(o.taken \ {b})
    BY <1>3 DEF xmfreblk
  <2> QED
    BY <2>1, <1>1, OsPoolKeeps
<1> QED
  BY <1>2, <1>3

(***************************************************************************)
(* The invariant.                                                          *)
(***************************************************************************)
LEMMA CountOne ==
  ASSUME NEW m, NEW b
  PROVE  IsFiniteSet({m}) /\ Count({m}, b) = IF m.md = b THEN 1 ELSE 0
<1>1. IsFiniteSet({m}) /\ Cardinality({m}) = 1 /\ Cardinality({}) = 0
  BY FS_Singleton, FS_EmptySet
<1>2. CASE m.md = b
  <2>1. {x \in {m} : x.md = b} = {m}
    BY <1>2
  <2> QED
    BY <2>1, <1>1, <1>2 DEF Count
<1>3. CASE m.md # b
  <2>1. {x \in {m} : x.md = b} = {}
    BY <1>3
  <2> QED
    BY <2>1, <1>1, <1>3 DEF Count
<1> QED
  BY <1>2, <1>3

LEMMA InitMem ==
  ASSUME Init
  PROVE  MemOK(mem) /\ Cover(All(mem)) = StRam /\ Alloc(mem) = {}
<1> DEFINE m == [md |-> themd, start |-> StStart, length |-> StSize, own |-> NULL]
           fl == <<m>>
           o == mem.osm
<1>0. Pools = {"st", "alt"} /\ "st" # "alt"
  BY DEF Pools
<1>1. /\ mem.mfl = [st |-> fl, alt |-> <<>>]
      /\ mem.mal = [p \in Pools |-> {}]
      /\ o.used = [b \in Blocks \cup {0} |-> IF b = 0 THEN MDS_PER_BLOCK ELSE 0]
      /\ o.mdbroot = <<>> /\ o.taken = {}
      /\ o = [used |-> o.used, mdbroot |-> o.mdbroot, taken |-> o.taken]
      /\ mem = [mfl |-> mem.mfl, mal |-> mem.mal, osm |-> o]
  BY DEF Init
<1>2. /\ m \in Block /\ m.md = themd /\ m.start = StStart /\ m.length = StSize
  BY Constants DEF Block
<1> HIDE DEF m
<1>3. /\ fl \in Seq(Block) /\ Len(fl) = 1 /\ fl[1] = m /\ DOMAIN fl = {1}
      /\ <<>> \in Seq(Block) /\ DOMAIN <<>> = {}
  BY <1>2
<1>4. ToSet(fl) = {m} /\ ToSet(<<>>) = {}
  BY <1>3 DEF ToSet
<1> HIDE DEF fl
<1>5. /\ mem.mfl \in [Pools -> Seq(Block)] /\ mem.mal \in [Pools -> SUBSET Block]
      /\ mem.mfl["st"] = fl /\ mem.mfl["alt"] = <<>>
      /\ mem.mal["st"] = {} /\ mem.mal["alt"] = {}
  <2> DEFINE e == <<>>
             f == [st |-> fl, alt |-> e]
  <2>1. e \in Seq(Block) /\ fl \in Seq(Block)
    BY <1>3
  <2> HIDE DEF e
  <2>2. f \in [{"st", "alt"} -> Seq(Block)]
    BY <2>1
  <2>3. f["st"] = fl /\ f["alt"] = e
    OBVIOUS
  <2>4. mem.mfl = f
    BY <1>1 DEF e
  <2> HIDE DEF f
  <2>5. mem.mal \in [Pools -> SUBSET Block]
    BY <1>1
  <2>6. mem.mal["st"] = {} /\ mem.mal["alt"] = {}
    BY <1>0, <1>1
  <2>7. mem.mfl \in [Pools -> Seq(Block)]
    BY <2>2, <2>4, <1>0
  <2> QED
    BY <2>3, <2>4, <2>5, <2>6, <2>7 DEF e
<1>6. InList(mem, "st") = {m} /\ InList(mem, "alt") = {}
  BY <1>4, <1>5 DEF InList
<1>7. All(mem) = {m} /\ Alloc(mem) = {}
  BY <1>5, <1>6 DEF All, Alloc
<1>8. o \in Osm
  <2>1. o.used \in [MD -> 0 .. MDS_PER_BLOCK]
    BY <1>1, Constants DEF MD
  <2>2. o.mdbroot \in Seq(MD) /\ o.taken \in SUBSET Blocks
    BY <1>1
  <2> HIDE DEF o
  <2> QED
    BY <2>1, <2>2, <1>1 DEF Osm
<1>9. Accounted({m}, o)
  <2>1. IsFiniteSet({m}) /\ \A b : Count({m}, b) = IF m.md = b THEN 1 ELSE 0
    BY CountOne
  <2>2. 0 \notin Blocks /\ themd = 0 /\ MDS_PER_BLOCK = 3
    BY Constants
  <2>3. o.used[themd] = 3 /\ \A b \in Blocks : o.used[b] = 0
    BY <1>1, <2>2
  <2>4. \A b \in MD : o.used[b] \in {0, MDS_PER_BLOCK}
    BY <2>2, <2>3 DEF MD
  <2>5. \A b \in Blocks : o.used[b] = Count({m}, b)
    BY <2>1, <2>2, <2>3, <1>2
  <2>6. Count({m}, themd) = 1 /\ o.used[themd] = MDS_PER_BLOCK
    BY <2>1, <2>2, <2>3, <1>2
  <2>7. DOMAIN o.mdbroot = {} /\ o.taken = {}
    BY <1>1
  <2>8. MDS_PER_BLOCK \in MDS_PER_BLOCK - 1 .. MDS_PER_BLOCK
    BY <2>2
  <2> HIDE DEF o
  <2> QED
    BY <2>1, <2>4, <2>5, <2>6, <2>7, <2>8, <1>2, <1>8 DEF Accounted
<1>10. Sound(All(mem), o)
  BY <1>2, <1>7, <1>9, Constants DEF Sound, Tidy
<1>11. \A p \in Pools : /\ Once(mem.mfl[p])
                        /\ ToSet(mem.mfl[p]) \cap mem.mal[p] = {}
                        /\ \A x \in InList(mem, p) : InPool(p, x)
  <2>1. Once(fl) /\ Once(<<>>)
    BY <1>3 DEF Once
  <2>2. InPool("st", m)
    BY <1>2, Constants DEF InPool
  <2> QED
    BY <2>1, <2>2, <1>0, <1>5, <1>6
<1>12. Sorted(mem.mfl["st"])
  <2>1. \A i, j \in DOMAIN fl : ~(i < j)
    BY <1>3
  <2> QED
    BY <2>1, <1>5 DEF Sorted
<1>13. MemOK(mem)
  <2> HIDE DEF o
  <2>1. mem \in [mfl : [Pools -> Seq(Block)], mal : [Pools -> SUBSET Block],
                 osm : Osm]
    BY <1>1, <1>5, <1>8
  <2> QED
    BY <2>1, <1>10, <1>11, <1>12 DEF MemOK, o
<1>14. Cover({m}) = StRam
  BY <1>2 DEF Cover, Bytes, StRam
<1> QED
  BY <1>7, <1>13, <1>14

LEMMA InitInv == Init => MemInv
<1> SUFFICES ASSUME Init
             PROVE  MemInv
  OBVIOUS
<1>1. MemOK(mem) /\ Cover(All(mem)) = StRam /\ Alloc(mem) = {}
  BY InitMem
<1>2. /\ stack = <<initial_basepage>> /\ loaded = {} /\ added = {}
      /\ resident = {} /\ rc = TRUE
  BY DEF Init
<1>3. Covered
  BY <1>1, <1>2 DEF Covered, Memory
<1>4. StackOK(stack)
  <2>1. initial_basepage \in Nat
    BY Constants
  <2>2. /\ stack \in Seq(Nat) /\ stack # <<>> /\ Len(stack) = 1
        /\ stack[1] = initial_basepage
    BY <2>1, <1>2
  <2> QED
    BY <2>2 DEF StackOK
<1>5. Len(stack) = 1
  BY <1>2
<1>6. Live({}, stack, {})
  BY <1>4, <1>5 DEF Live, Blocky, Owned, Housed, Ready
<1> QED
  BY <1>1, <1>2, <1>3, <1>6 DEF MemInv

LEMMA NextInv == MemInv /\ [Next]_vars => MemInv'
<1> SUFFICES ASSUME MemInv, [Next]_vars
             PROVE  MemInv'
  OBVIOUS
<1>1. CASE Malloc
  BY <1>1, MallocKeeps
<1>2. CASE Mfree
  BY <1>2, MfreeKeeps
<1>3. CASE Mshrink
  BY <1>3, MshrinkKeeps
<1>4. CASE PexecLoadGo
  BY <1>4, PexecLoadGoKeeps
<1>5. CASE PexecLoad
  BY <1>5, PexecLoadKeeps
<1>6. CASE PexecGo
  BY <1>6, PexecGoKeeps
<1>7. CASE Pterm
  BY <1>7, PtermKeeps
<1>8. CASE Ptermres
  BY <1>8, PtermresKeeps
<1>9. CASE Maddalt
  BY <1>9, MaddaltKeeps
<1>10. CASE xmgetblk \/ xmfreblk
  BY <1>10, BlockTakenKeeps
<1>11. CASE UNCHANGED vars
  <2>1. UNCHANGED <<mem, stack, loaded, added, resident, rc>>
    BY <1>11 DEF vars
  <2>2. Kept(mem, mem') /\ Live(Alloc(mem'), stack', loaded') /\ rc' \in BOOLEAN
    BY <2>1, RunFacts, KeptSame DEF MemInv
  <2> QED
    BY <2>1, <2>2, MemStep
<1> QED
  BY <1>1, <1>2, <1>3, <1>4, <1>5, <1>6, <1>7, <1>8, <1>9, <1>10, <1>11 DEF Next

LEMMA AlwaysInv == Spec => []MemInv
BY InitInv, NextInv, PTL DEF Spec

(***************************************************************************)
(* What the lists promise.                                                 *)
(***************************************************************************)
LEMMA OnceCounted ==
  ASSUME NEW S, NEW fl \in Seq(S), Once(fl)
  PROVE  /\ IsFiniteSet(ToSet(fl)) /\ Cardinality(ToSet(fl)) = Len(fl)
         /\ Len(fl) \in Nat
<1> DEFINE n == Len(fl)
           T == ToSet(fl)
<1>1. n \in Nat /\ DOMAIN fl = 1 .. n /\ fl \in [1 .. n -> S]
  BY LenProperties
<1>2. T = {fl[i] : i \in 1 .. n}
  BY <1>1 DEF ToSet
<1>3. fl \in [1 .. n -> T]
  BY <1>1, <1>2
<1>4. \A i, j \in 1 .. n : fl[i] = fl[j] => i = j
  BY <1>1 DEF Once
<1>5. \A x \in T : \E i \in 1 .. n : fl[i] = x
  BY <1>2
<1> HIDE DEF n, T
<1>6. fl \in Bijection(1 .. n, T)
  BY <1>3, <1>4, <1>5 DEF Bijection, Injection, Surjection, IsInjective
<1>7. ExistsBijection(1 .. n, T)
  BY <1>6 DEF ExistsBijection
<1>8. Cardinality(T) = n
  BY <1>1, <1>7, FS_CountingElements
<1>9. IsFiniteSet(T)
  BY <1>1, <1>7, FS_Interval, FS_Bijection
<1> QED
  BY <1>1, <1>8, <1>9 DEF n, T

LEMMA ListsFacts ==
  ASSUME MemInv
  PROVE  /\ MemOK(mem) /\ Allocated = Alloc(mem)
         /\ OnFreeList = ToSet(mem.mfl["st"]) \cup ToSet(mem.mfl["alt"])
         /\ AllBlocks = All(mem)
         /\ mem.mfl["st"] \in Seq(Block) /\ mem.mfl["alt"] \in Seq(Block)
         /\ mem.mal["st"] \in SUBSET Block /\ mem.mal["alt"] \in SUBSET Block
<1>1. MemOK(mem) /\ Allocated = Alloc(mem)
  BY RunFacts DEF Allocated, Alloc
<1>2. "st" \in Pools /\ "alt" \in Pools
  BY DEF Pools
<1>3. /\ mem.mfl["st"] \in Seq(Block) /\ mem.mfl["alt"] \in Seq(Block)
      /\ mem.mal["st"] \in SUBSET Block /\ mem.mal["alt"] \in SUBSET Block
  BY <1>1, <1>2, MemTypes
<1>4. OnFreeList = ToSet(mem.mfl["st"]) \cup ToSet(mem.mfl["alt"])
  <2> DEFINE f == mem.mfl["st"]
             g == mem.mfl["alt"]
             h == f \o g
  <2>1. /\ Len(f) \in Nat /\ Len(g) \in Nat /\ Len(h) = Len(f) + Len(g)
        /\ f \in Seq(Block) /\ g \in Seq(Block) /\ h \in Seq(Block)
        /\ \A i \in 1 .. Len(f) + Len(g) :
             h[i] = IF i <= Len(f) THEN f[i] ELSE g[i - Len(f)]
    BY <1>3, LenProperties, ConcatProperties
  <2> HIDE DEF f, g, h
  <2>2. /\ \A x : x \in ToSet(f) <=> \E i \in 1 .. Len(f) : f[i] = x
        /\ \A x : x \in ToSet(g) <=> \E i \in 1 .. Len(g) : g[i] = x
        /\ \A x : x \in ToSet(h) <=> \E i \in 1 .. Len(h) : h[i] = x
    BY <2>1, ListTypes
  <2>3. ASSUME NEW i \in 1 .. Len(h)
        PROVE  h[i] \in ToSet(f) \cup ToSet(g)
    <3>1. i \in 1 .. Len(f) \/ (i - Len(f) \in 1 .. Len(g) /\ ~(i <= Len(f)))
      BY <2>1
    <3>2. CASE i \in 1 .. Len(f)
      BY <3>2, <2>1, <2>2
    <3>3. CASE i - Len(f) \in 1 .. Len(g) /\ ~(i <= Len(f))
      BY <3>3, <2>1, <2>2
    <3> QED
      BY <3>1, <3>2, <3>3
  <2>4. ASSUME NEW i \in 1 .. Len(f)
        PROVE  f[i] \in ToSet(h)
    <3>1. i \in 1 .. Len(h) /\ h[i] = f[i]
      BY <2>1
    <3> QED
      BY <3>1, <2>2
  <2>5. ASSUME NEW i \in 1 .. Len(g)
        PROVE  g[i] \in ToSet(h)
    <3> DEFINE j == i + Len(f)
    <3>1. j \in 1 .. Len(h) /\ ~(j <= Len(f)) /\ j - Len(f) = i
      BY <2>1
    <3> HIDE DEF j
    <3>2. h[j] = g[j - Len(f)]
      BY <2>1, <3>1
    <3> QED
      BY <3>1, <3>2, <2>2
  <2>6. ToSet(h) = ToSet(f) \cup ToSet(g)
    BY <2>2, <2>3, <2>4, <2>5
  <2> QED
    BY <2>6 DEF OnFreeList, f, g, h
<1>5. AllBlocks = All(mem)
  BY <1>4 DEF AllBlocks, Allocated, All, InList
<1> QED
  BY <1>1, <1>3, <1>4, <1>5

(* A block of one pool is in no list of the other. *)
LEMMA PoolsApart ==
  ASSUME MemInv, NEW m \in InList(mem, "st")
  PROVE  m \notin InList(mem, "alt")
<1>1. "st" \in Pools /\ "alt" \in Pools /\ "st" # "alt"
  BY DEF Pools
<1>2. MemOK(mem)
  BY RunFacts
<1>3. m \in Block
  BY <1>1, <1>2, FindPool
<1>4. InPool("st", m) /\ (m \in InList(mem, "alt") => InPool("alt", m))
  BY <1>1, <1>2 DEF MemOK
<1> QED
  BY <1>1, <1>3, <1>4, Constants, BlockFacts DEF InPool

LEMMA PartitionHolds == MemInv => Partition
<1> SUFFICES ASSUME MemInv
             PROVE  Partition
  OBVIOUS
<1> DEFINE F == ToSet(mem.mfl["st"])
           G == ToSet(mem.mfl["alt"])
           M == mem.mal["st"]
           N == mem.mal["alt"]
<1>1. /\ MemOK(mem) /\ Allocated = M \cup N /\ OnFreeList = F \cup G
      /\ AllBlocks = All(mem)
      /\ mem.mfl["st"] \in Seq(Block) /\ mem.mfl["alt"] \in Seq(Block)
  BY ListsFacts DEF Alloc
<1>2. /\ InList(mem, "st") = F \cup M /\ InList(mem, "alt") = G \cup N
      /\ Once(mem.mfl["st"]) /\ Once(mem.mfl["alt"])
      /\ F \cap M = {} /\ G \cap N = {}
  <2>1. "st" \in Pools /\ "alt" \in Pools
    BY DEF Pools
  <2> QED
    BY <2>1, <1>1 DEF MemOK, InList
<1>3. (F \cup M) \cap (G \cup N) = {}
  <2>1. \A m \in F \cup M : m \notin G \cup N
    BY <1>2, PoolsApart
  <2> QED
    BY <2>1
<1>4. OnFreeList \cap Allocated = {}
  <2> HIDE DEF F, G, M, N
  <2> QED
    BY <1>1, <1>2, <1>3
<1>5. Cardinality(OnFreeList) = Len(mem.mfl["st"]) + Len(mem.mfl["alt"])
  <2>1. /\ IsFiniteSet(F) /\ Cardinality(F) = Len(mem.mfl["st"])
        /\ IsFiniteSet(G) /\ Cardinality(G) = Len(mem.mfl["alt"])
        /\ Len(mem.mfl["st"]) \in Nat /\ Len(mem.mfl["alt"]) \in Nat
    BY <1>1, <1>2, OnceCounted
  <2>2. F \cap G = {}
    BY <1>3
  <2> DEFINE k == Len(mem.mfl["st"])
             l == Len(mem.mfl["alt"])
  <2>4. Cardinality(F) = k /\ Cardinality(G) = l /\ k \in Nat /\ l \in Nat
    BY <2>1
  <2>5. OnFreeList = F \cup G
    BY <1>1
  <2> HIDE DEF F, G, k, l
  <2>3. Cardinality(F \cup G) = Cardinality(F) + Cardinality(G) - 0
    <3>1. Cardinality(F \cup G)
            = Cardinality(F) + Cardinality(G) - Cardinality(F \cap G)
      BY <2>1, FS_Union
    <3> QED
      BY <3>1, <2>2, FS_EmptySet
  <2>6. Cardinality(OnFreeList) = k + l
    BY <2>3, <2>4, <2>5
  <2> QED
    BY <2>6 DEF k, l
<1>6. ASSUME NEW m \in AllBlocks, NEW n \in AllBlocks, m # n
      PROVE  Bytes(m) \cap Bytes(n) = {}
  <2>1. m \in Block /\ n \in Block /\ Apart(m, n)
    BY <1>1, <1>6, MemTypes DEF Sound, Tidy
  <2>2. m.start \in Nat /\ m.length \in Nat /\ n.start \in Nat /\ n.length \in Nat
    BY <2>1, BlockFacts
  <2> DEFINE a == m.start
             b == m.length
             c == n.start
             d == n.length
  <2>3. a + b <= c \/ c + d <= a
    BY <2>1 DEF Apart
  <2> HIDE DEF a, b, c, d
  <2>4. (a .. (a + b - 1)) \cap (c .. (c + d - 1)) = {}
    BY <2>2, <2>3 DEF a, b, c, d
  <2> QED
    BY <2>4 DEF Bytes, a, b, c, d
<1>7. UNION {Bytes(m) : m \in AllBlocks} = Memory \ resident
  BY <1>1 DEF MemInv, Covered, Cover
<1> QED
  BY <1>4, <1>5, <1>6, <1>7 DEF Partition

LEMMA CoalescedHolds == MemInv => StCoalesced
<1> SUFFICES ASSUME MemInv
             PROVE  StCoalesced
  OBVIOUS
<1> DEFINE fl == mem.mfl["st"]
<1>1. fl \in Seq(Block) /\ Sorted(fl)
  BY ListsFacts DEF MemOK
<1> HIDE DEF fl
<1>2. DOMAIN fl = 1 .. Len(fl) /\ Len(fl) \in Nat
  BY <1>1, LenProperties
<1>3. ASSUME NEW i \in 1 .. Len(fl) - 1
      PROVE  fl[i].start + fl[i].length < fl[i + 1].start
  <2>1. i \in DOMAIN fl /\ i + 1 \in DOMAIN fl /\ i < i + 1
    BY <1>2
  <2> QED
    BY <2>1, <1>1 DEF Sorted
<1> QED
  BY <1>3 DEF StCoalesced, fl

LEMMA AccountedHolds == MemInv => MDsAccounted
<1> SUFFICES ASSUME MemInv
             PROVE  MDsAccounted
  OBVIOUS
<1> DEFINE o == mem.osm
           A == All(mem)
<1>1. AllBlocks = A /\ MemOK(mem) /\ Sound(A, o) /\ IsFiniteSet(A) /\ A \subseteq Block
  BY ListsFacts, MemTypes
<1>2. Accounted(A, o) /\ Tidy(A)
  BY <1>1 DEF Sound
<1>3. Cover(A) = Memory \ resident
  BY DEF MemInv, Covered
<1> HIDE DEF o, A
<1>4. /\ o \in Osm
      /\ \A b \in Blocks : o.used[b] = Count(A, b)
      /\ \A b \in o.taken : o.used[b] = 0
      /\ Count(A, themd) = 0 \/ (Count(A, themd) = 1 /\ o.used[themd] = MDS_PER_BLOCK)
      /\ \A b \in MD : (\E i \in DOMAIN o.mdbroot : o.mdbroot[i] = b)
                         <=> o.used[b] \notin {0, MDS_PER_BLOCK}
      /\ \A i, j \in DOMAIN o.mdbroot : o.mdbroot[i] = o.mdbroot[j] => i = j
      /\ \A m \in A : m.start = StStart => m.md = themd
  BY <1>2 DEF Accounted
<1>5. o.mdbroot \in Seq(MD)
  BY <1>4 DEF Osm
<1>6. /\ IsFiniteSet(ToSet(o.mdbroot))
      /\ Cardinality(ToSet(o.mdbroot)) = Len(o.mdbroot)
  <2>1. Once(o.mdbroot)
    BY <1>4 DEF Once
  <2> QED
    BY <2>1, <1>5, OnceCounted
<1>7. ToSet(o.mdbroot) = {b \in MD : o.used[b] \notin {0, MDS_PER_BLOCK}}
  <2> DEFINE c == o.mdbroot
  <2>1. \A x : x \in ToSet(c) <=> \E i \in DOMAIN c : c[i] = x
    BY DEF ToSet
  <2>2. \A i \in DOMAIN c : c[i] \in MD
    <3>1. DOMAIN c = 1 .. Len(c)
      BY <1>5, LenProperties
    <3> QED
      BY <3>1, <1>5
  <2>3. \A b \in MD : (\E i \in DOMAIN c : c[i] = b)
                        <=> o.used[b] \notin {0, MDS_PER_BLOCK}
    BY <1>4
  <2> HIDE DEF c
  <2>4. ToSet(c) = {b \in MD : o.used[b] \notin {0, MDS_PER_BLOCK}}
    BY <2>1, <2>2, <2>3
  <2> QED
    BY <2>4 DEF c
<1>8. Count(A, themd) <= 1 /\ (Count(A, themd) = 1 => o.used[themd] = MDS_PER_BLOCK)
  BY <1>4
<1>9. ASSUME StStart \notin resident, NEW m \in A
      PROVE  m.start = StStart <=> m.md = themd
  <2>1. StStart \in Memory
    BY Constants DEF Memory, StRam
  <2>2. PICK q \in A : StStart \in Bytes(q)
    BY <2>1, <1>3, <1>9 DEF Cover
  <2>3. q.start <= StStart /\ StStart <= q.start /\ q.start \in Nat
    <3>1. q.start \in Nat /\ q.length \in Nat
      BY <1>1, BlockFacts
    <3> QED
      BY <3>1, <2>2, <1>2, Constants DEF Bytes, Tidy
  <2>4. q.start = StStart /\ q.md = themd
    BY <2>3, <1>4, Constants
  <2>5. m.md = themd => m = q
    <3> SUFFICES ASSUME m.md = themd
                 PROVE  m = q
      OBVIOUS
    <3> DEFINE S == {x \in A : x.md = themd}
    <3>1. IsFiniteSet(S) /\ m \in S /\ q \in S
      BY <1>1, <2>4, FS_Subset
    <3>2. Cardinality(S) = 0 \/ Cardinality(S) = 1
      BY <1>4 DEF Count
    <3> HIDE DEF S
    <3>3. Cardinality(S) # 0
      BY <3>1, FS_EmptySet
    <3>4. PICK x : S = {x}
      BY <3>1, <3>2, <3>3, FS_Singleton
    <3> QED
      BY <3>1, <3>4
  <2> QED
    BY <2>4, <2>5, <1>4
<1>10. \A b \in Blocks : /\ o.used[b] = Count(A, b)
                         /\ b \in o.taken => Count(A, b) = 0
  BY <1>4
<1> QED
  BY <1>1, <1>6, <1>7, <1>8, <1>9, <1>10 DEF MDsAccounted, Count, MD, o

LEMMA OwnersHold == MemInv => OwnersLive
<1> SUFFICES ASSUME MemInv
             PROVE  OwnersLive
  OBVIOUS
<1>1. /\ Allocated = Alloc(mem) /\ StackOK(stack) /\ Owned(Alloc(mem), stack)
      /\ Housed(Alloc(mem), stack)
  BY ListsFacts, RunFacts DEF Live
<1>2. \A m \in Allocated : m.own \in ToSet(stack)
  BY <1>1, StackFacts DEF Owned
<1>3. \A i \in 1 .. Len(stack) - 1 : \E m \in Allocated : m.start = stack[i]
  BY <1>1 DEF Housed
<1> QED
  BY <1>2, <1>3 DEF OwnersLive

LEMMA TypesHold == MemInv => TypeOK
<1> SUFFICES ASSUME MemInv
             PROVE  TypeOK
  OBVIOUS
<1>1. /\ MemOK(mem) /\ mem.osm \in Osm /\ StackOK(stack)
      /\ \A p \in Pools : InList(mem, p) \subseteq Block
  BY RunFacts, MemTypes
<1>2. /\ mem.osm.used \in [Blocks \cup {themd} -> 0 .. MDS_PER_BLOCK]
      /\ mem.osm.taken \subseteq Blocks /\ mem.osm.mdbroot \in Seq(MD)
  BY <1>1 DEF Osm, MD
<1>3. ToSet(mem.osm.mdbroot) \subseteq Blocks \cup {0}
  <2> DEFINE c == mem.osm.mdbroot
  <2> HIDE DEF c
  <2>1. c \in Seq(MD) => ToSet(c) \subseteq MD
    BY DEF ToSet
  <2>2. ToSet(c) \subseteq MD
    BY <2>1, <1>2 DEF c
  <2> QED
    BY <2>2 DEF c, MD, themd
<1>4. stack # <<>> /\ Last(stack) = initial_basepage
  BY <1>1 DEF StackOK, Last
<1>5. added \subseteq Boards /\ resident \subseteq Memory /\ rc \in BOOLEAN
  BY DEF MemInv, Covered
<1> QED
  BY <1>1, <1>2, <1>3, <1>4, <1>5 DEF TypeOK, InList

(* Blocks, descriptors, basepages and results keep their types. *)
THEOREM MemoryTypes == Spec => []TypeOK
BY AlwaysInv, TypesHold, PTL

(* Whatever the programs ask for and in whatever order they end, no byte   *)
(* is in two blocks and none is lost, in memory of any size with any boards *)
(* that Maddalt() adds.                                                    *)
THEOREM MemoryPartitioned == Spec => []Partition
BY AlwaysInv, PartitionHolds, PTL

(* freeit() keeps the free list of ST-RAM in order and without blocks that *)
(* touch.                                                                  *)
THEOREM StRamCoalesced == Spec => []StCoalesced
BY AlwaysInv, CoalescedHolds, PTL

(* xmgetmd() and xmfremd() neither lose a memory descriptor nor hand one   *)
(* out twice, although themd is none of theirs.                            *)
THEOREM DescriptorsAccounted == Spec => []MDsAccounted
BY AlwaysInv, AccountedHolds, PTL

(* No block belongs to a program that has ended, and none that runs or     *)
(* waits has lost the memory it is in.                                     *)
THEOREM OwnersAlive == Spec => []OwnersLive
BY AlwaysInv, OwnersHold, PTL

(***************************************************************************)
(* Who has what: each call is a step of module MemoryMap, or none.         *)
(***************************************************************************)
OwnerIn(A, res, a) ==
  LET at == {m \in A : m.start <= a /\ a < m.start + m.length}
  IN  IF at # {} THEN (CHOOSE m \in at : TRUE).own
      ELSE IF a \in res THEN -1 ELSE NULL

View(M, A, res) == [a \in M |-> OwnerIn(A, res, a)]

Good(A, res) ==
  /\ A \subseteq Block
  /\ \A m, n \in A : m # n => Apart(m, n)
  /\ Cover(A) \cap res = {}

LEMMA OwnerView ==
  /\ owner = View(Memory, Alloc(mem), resident)
  /\ owner' = View(Memory', Alloc(mem'), resident')
BY DEF owner, OwnerOf, View, OwnerIn, Allocated, Alloc

LEMMA ViewAt ==
  ASSUME NEW M, NEW A, NEW res
  PROVE  /\ DOMAIN View(M, A, res) = M
         /\ \A a \in M : View(M, A, res)[a] = OwnerIn(A, res, a)
BY DEF View

LEMMA MemoryInts == Memory \subseteq Int
<1>1. StRam \subseteq Int
  BY Constants DEF StRam
<1>2. \A b : BoardBytes(b) \subseteq Int
  BY DEF BoardBytes
<1> QED
  BY <1>1, <1>2 DEF Memory

LEMMA ApartBytes ==
  ASSUME NEW m \in Block, NEW n \in Block, Apart(m, n), NEW a \in Bytes(m)
  PROVE  a \notin Bytes(n)
<1>1. m.start \in Nat /\ m.length \in Nat /\ n.start \in Nat /\ n.length \in Nat
  BY BlockFacts
<1> QED
  BY <1>1 DEF Apart, Bytes

LEMMA GoodIs ==
  ASSUME NEW s, MemOK(s), NEW res, Cover(All(s)) \cap res = {}
  PROVE  Good(Alloc(s), res)
<1>1. Alloc(s) \subseteq All(s) /\ Alloc(s) \subseteq Block
  BY AllocFacts
<1>2. Cover(Alloc(s)) \subseteq Cover(All(s))
  BY <1>1 DEF Cover
<1>3. Tidy(All(s))
  BY MemTypes DEF Sound
<1> QED
  BY <1>1, <1>2, <1>3 DEF Good, Tidy

LEMMA OwnerFacts ==
  ASSUME NEW A, NEW res, Good(A, res), NEW a \in Int
  PROVE  /\ \A m \in A : a \in Bytes(m) => OwnerIn(A, res, a) = m.own
         /\ (\A m \in A : a \notin Bytes(m))
              => OwnerIn(A, res, a) = IF a \in res THEN -1 ELSE NULL
<1> DEFINE at == {m \in A : m.start <= a /\ a < m.start + m.length}
<1>1. \A m \in A : m \in at <=> a \in Bytes(m)
  <2> TAKE m \in A
  <2>1. m.start \in Nat /\ m.length \in Nat
    BY BlockFacts DEF Good
  <2> QED
    BY <2>1 DEF Bytes
<1>2. OwnerIn(A, res, a) = IF at # {} THEN (CHOOSE m \in at : TRUE).own
                           ELSE IF a \in res THEN -1 ELSE NULL
  BY DEF OwnerIn
<1>3. at \subseteq A
  OBVIOUS
<1> HIDE DEF at
<1>4. ASSUME NEW m \in A, a \in Bytes(m)
      PROVE  at = {m}
  <2>1. \A n \in at : n = m
    BY <1>1, <1>3, <1>4, ApartBytes DEF Good
  <2> QED
    BY <2>1, <1>1, <1>4
<1>5. ASSUME NEW m \in A, a \in Bytes(m)
      PROVE  OwnerIn(A, res, a) = m.own
  <2>1. at = {m}
    BY <1>4, <1>5
  <2>2. (CHOOSE x \in {m} : TRUE) = m
    OBVIOUS
  <2> QED
    BY <2>1, <2>2, <1>2
<1>6. (\A m \in A : a \notin Bytes(m)) => at = {}
  BY <1>1, <1>3
<1> QED
  BY <1>2, <1>5, <1>6

(* Blocks are added. *)
LEMMA ViewTaken ==
  ASSUME NEW A, NEW B, NEW res, Good(A, res), Good(B, res), A \subseteq B,
         NEW r, \A m \in B \ A : m.own = r, NEW a \in Int
  PROVE  \/ OwnerIn(B, res, a) = OwnerIn(A, res, a)
         \/ OwnerIn(A, res, a) = NULL /\ OwnerIn(B, res, a) = r
<1>1. CASE \E m \in A : a \in Bytes(m)
  BY <1>1, OwnerFacts
<1>2. CASE /\ \A m \in A : a \notin Bytes(m)
           /\ \E m \in B : a \in Bytes(m)
  <2>1. PICK m \in B : a \in Bytes(m)
    BY <1>2
  <2>2. m.own = r /\ a \notin res
    BY <2>1, <1>2 DEF Good, Cover
  <2>3. OwnerIn(B, res, a) = m.own
    BY <2>1, OwnerFacts
  <2>4. OwnerIn(A, res, a) = IF a \in res THEN -1 ELSE NULL
    BY <1>2, OwnerFacts
  <2> QED
    BY <2>2, <2>3, <2>4
<1>3. CASE \A m \in B : a \notin Bytes(m)
  <2>1. \A m \in A : a \notin Bytes(m)
    BY <1>3
  <2>2. OwnerIn(A, res, a) = IF a \in res THEN -1 ELSE NULL
    BY <2>1, OwnerFacts
  <2>3. OwnerIn(B, res, a) = IF a \in res THEN -1 ELSE NULL
    BY <1>3, OwnerFacts
  <2> QED
    BY <2>2, <2>3
<1> QED
  BY <1>1, <1>2, <1>3

(* A block is taken out, or cut. *)
LEMMA ViewGiven ==
  ASSUME NEW A, NEW B, NEW res, Good(A, res), Good(B, res),
         NEW m \in A, A \ {m} \subseteq B,
         \A x \in B : x \in A \ {m} \/ (Bytes(x) \subseteq Bytes(m) /\ x.own = m.own),
         NEW a \in Int
  PROVE  \/ OwnerIn(B, res, a) = OwnerIn(A, res, a)
         \/ OwnerIn(A, res, a) = m.own /\ OwnerIn(B, res, a) = NULL
<1>1. CASE \E x \in A \ {m} : a \in Bytes(x)
  BY <1>1, OwnerFacts
<1>2. CASE (\A x \in A \ {m} : a \notin Bytes(x)) /\ a \in Bytes(m)
  <2>1. OwnerIn(A, res, a) = m.own /\ a \notin res
    BY <1>2, OwnerFacts DEF Good, Cover
  <2>2. CASE \E x \in B : a \in Bytes(x)
    BY <2>1, <2>2, <1>2, OwnerFacts
  <2>3. CASE \A x \in B : a \notin Bytes(x)
    <3>1. OwnerIn(B, res, a) = IF a \in res THEN -1 ELSE NULL
      BY <2>3, OwnerFacts
    <3> QED
      BY <3>1, <2>1
  <2> QED
    BY <2>2, <2>3
<1>3. CASE \A x \in A : a \notin Bytes(x)
  <2>1. \A x \in B : a \notin Bytes(x)
    BY <1>3
  <2>2. OwnerIn(A, res, a) = IF a \in res THEN -1 ELSE NULL
    BY <1>3, OwnerFacts
  <2>3. OwnerIn(B, res, a) = IF a \in res THEN -1 ELSE NULL
    BY <2>1, OwnerFacts
  <2> QED
    BY <2>2, <2>3
<1> QED
  BY <1>1, <1>2, <1>3

(* The blocks of r are taken out, and free or kept. *)
LEMMA ViewEnded ==
  ASSUME NEW A, NEW B, NEW res, NEW res1, Good(A, res), Good(B, res1),
         NEW r \in Nat \ {0}, B = A \ {m \in A : m.own = r},
         res1 = res \/ res1 = res \cup Cover({m \in A : m.own = r}),
         NEW a \in Int
  PROVE  \/ OwnerIn(A, res, a) = r /\ OwnerIn(B, res1, a) \in {NULL, -1}
         \/ OwnerIn(A, res, a) # r /\ OwnerIn(B, res1, a) = OwnerIn(A, res, a)
<1> DEFINE T == {m \in A : m.own = r}
<1>0. \A m \in T : m \in A /\ m.own = r
  OBVIOUS
<1>1. CASE \E m \in T : a \in Bytes(m)
  <2>1. PICK m \in T : a \in Bytes(m)
    BY <1>1
  <2>2. OwnerIn(A, res, a) = r
    BY <2>1, OwnerFacts
  <2>3. \A n \in B : a \notin Bytes(n)
    BY <2>1, ApartBytes DEF Good
  <2>4. OwnerIn(B, res1, a) = IF a \in res1 THEN -1 ELSE NULL
    BY <2>3, OwnerFacts
  <2> QED
    BY <2>2, <2>4
<1>2. CASE \E m \in B : a \in Bytes(m)
  <2>1. PICK m \in B : a \in Bytes(m)
    BY <1>2
  <2>2. OwnerIn(A, res, a) = m.own /\ OwnerIn(B, res1, a) = m.own /\ m.own # r
    BY <2>1, OwnerFacts
  <2> QED
    BY <2>2
<1>3. CASE \A m \in A : a \notin Bytes(m)
  <2>1. OwnerIn(A, res, a) = IF a \in res THEN -1 ELSE NULL
    BY <1>3, OwnerFacts
  <2>2. OwnerIn(B, res1, a) = IF a \in res1 THEN -1 ELSE NULL
    BY <1>3, OwnerFacts
  <2>3. a \in res1 <=> a \in res
    BY <1>3 DEF Cover
  <2> QED
    BY <2>1, <2>2, <2>3 DEF NULL
<1> QED
  BY <1>1, <1>2, <1>3

(* Two blocks are given to another program. *)
LEMMA ViewGiven2 ==
  ASSUME NEW A, NEW B, NEW res, Good(A, res), Good(B, res),
         NEW t \in A, NEW e \in A, NEW own \in Nat, Given2(A, B, t, e, own),
         NEW r, t.own = r, e.own = r, NEW a \in Int
  PROVE  \/ OwnerIn(B, res, a) = OwnerIn(A, res, a)
         \/ OwnerIn(A, res, a) = r /\ OwnerIn(B, res, a) = own
<1> DEFINE u == [t EXCEPT !.own = own]
           v == [e EXCEPT !.own = own]
<1>1. t \in Block /\ e \in Block
  BY DEF Good
<1>2. /\ u.own = own /\ u.start = t.start /\ u.length = t.length
      /\ v.own = own /\ v.start = e.start /\ v.length = e.length
  BY <1>1 DEF Block
<1>3. B = (A \ {t, e}) \cup {u, v}
  BY DEF Given2
<1> HIDE DEF u, v
<1>4. Bytes(u) = Bytes(t) /\ Bytes(v) = Bytes(e)
  BY <1>2 DEF Bytes
<1>5. CASE \E m \in A \ {t, e} : a \in Bytes(m)
  BY <1>3, <1>5, OwnerFacts
<1>6. CASE a \in Bytes(t) \/ a \in Bytes(e)
  <2>1. OwnerIn(A, res, a) = r
    BY <1>6, OwnerFacts
  <2>2. OwnerIn(B, res, a) = own
    BY <1>2, <1>3, <1>4, <1>6, OwnerFacts
  <2> QED
    BY <2>1, <2>2
<1>7. CASE \A m \in A : a \notin Bytes(m)
  <2>1. \A m \in B : a \notin Bytes(m)
    BY <1>3, <1>4, <1>7
  <2>2. OwnerIn(A, res, a) = IF a \in res THEN -1 ELSE NULL
    BY <1>7, OwnerFacts
  <2>3. OwnerIn(B, res, a) = IF a \in res THEN -1 ELSE NULL
    BY <2>1, OwnerFacts
  <2> QED
    BY <2>2, <2>3
<1> QED
  BY <1>5, <1>6, <1>7

LEMMA OwnersAt ==
  ASSUME MemInv, MemInv', added' = added
  PROVE  /\ DOMAIN owner = Memory /\ DOMAIN owner' = Memory
         /\ \A a \in Memory :
              /\ a \in Int
              /\ owner[a] = OwnerIn(Alloc(mem), resident, a)
              /\ owner'[a] = OwnerIn(Alloc(mem'), resident', a)
         /\ Good(Alloc(mem), resident) /\ Good(Alloc(mem'), resident')
<1>1. Memory' = Memory
  BY DEF Memory
<1>2. /\ DOMAIN owner = Memory
      /\ \A a \in Memory : owner[a] = OwnerIn(Alloc(mem), resident, a)
  BY OwnerView, ViewAt
<1>3. /\ DOMAIN owner' = Memory
      /\ \A a \in Memory : owner'[a] = OwnerIn(Alloc(mem'), resident', a)
  <2>1. owner' = View(Memory, Alloc(mem'), resident')
    BY <1>1, OwnerView
  <2> QED
    BY <2>1, ViewAt
<1>4. MemOK(mem) /\ Cover(All(mem)) \cap resident = {}
  BY DEF MemInv, Covered
<1>5. MemOK(mem') /\ Cover(All(mem')) \cap resident' = {}
  BY DEF MemInv, Covered
<1>6. Good(Alloc(mem), resident) /\ Good(Alloc(mem'), resident')
  BY <1>4, <1>5, GoodIs
<1> QED
  BY <1>2, <1>3, <1>6, MemoryInts

LEMMA SameOwner ==
  ASSUME UNCHANGED <<added, resident>>, Alloc(mem') = Alloc(mem)
  PROVE  owner' = owner
<1>1. Memory' = Memory
  BY DEF Memory
<1> QED
  BY <1>1, OwnerView

LEMMA MapTakes ==
  ASSUME stack' = stack, DOMAIN owner' = DOMAIN owner,
         \A a \in DOMAIN owner : \/ owner'[a] = owner[a]
                                 \/ owner[a] = NULL /\ owner'[a] = run
  PROVE  Map!Next
<1>1. Map!Take
  BY DEF Map!Take, Map!Changed, Map!Free, Map!Run, run, NULL
<1> QED
  BY <1>1 DEF Map!Next

LEMMA MapGives ==
  ASSUME stack' = stack, DOMAIN owner' = DOMAIN owner, NEW o, o \in Map!Mine,
         \A a \in DOMAIN owner : \/ owner'[a] = owner[a]
                                 \/ owner[a] = o /\ owner'[a] = NULL
  PROVE  Map!Next
<1>1. Map!Give
  BY DEF Map!Give, Map!Changed, Map!Free, NULL
<1> QED
  BY <1>1 DEF Map!Next

LEMMA MapExecs ==
  ASSUME NEW pd, stack' = <<pd>> \o stack, StackOK(stack), pd \in Nat,
         DOMAIN owner' = DOMAIN owner, pd \in DOMAIN owner,
         owner'[pd] \in {pd, run},
         \A a \in DOMAIN owner : \/ owner'[a] = owner[a]
                                 \/ owner[a] \in {NULL, run} /\ owner'[a] = pd
  PROVE  Map!Next
<1>1. stack' # <<>> /\ Head(stack') = pd /\ Tail(stack') = stack
  <2>1. stack \in Seq(Nat)
    BY DEF StackOK
  <2> QED
    BY <2>1
<1>2. Map!Run' = pd /\ Map!Run = run
  BY <1>1 DEF Map!Run, run
<1>3. Map!Exec
  BY <1>1, <1>2 DEF Map!Exec, Map!Changed, Map!Free, NULL
<1> QED
  BY <1>3 DEF Map!Next

LEMMA MapQuits ==
  ASSUME stack' = Tail(stack), Len(stack) > 1, DOMAIN owner' = DOMAIN owner,
         \A a \in DOMAIN owner :
            \/ owner'[a] = owner[a] /\ owner[a] # run
            \/ owner[a] = run /\ owner'[a] \in {NULL, -1}
            \/ owner[a] \in Map!Mine /\ owner'[a] = NULL,
         run \in Nat \ {0}
  PROVE  Map!Next
<1>1. Map!Run = run /\ Map!Free = 0 /\ Map!Kept = -1 /\ NULL = 0
  BY DEF Map!Run, run, Map!Free, Map!Kept, NULL
<1>2. \A a \in DOMAIN owner : owner[a] = run => owner'[a] # owner[a]
  BY <1>1
<1>3. Map!Quit
  BY <1>1, <1>2 DEF Map!Quit, Map!Changed
<1> QED
  BY <1>3 DEF Map!Next

(* A call is a step of the map or none, and none if it fails.              *)
MapStep ==
  /\ Map!Next \/ (owner' = owner /\ stack' = stack)
  /\ rc' = FALSE => owner' = owner

LEMMA GivenMaps ==
  ASSUME MemInv, MemInv', NEW r, Given(mem, r, run), mem' = r.s,
         UNCHANGED <<stack, added, resident>>, rc' = (r.addr # NULL)
  PROVE  MapStep
<1>1. CASE r = Found(mem, NULL)
  <2>1. mem' = mem
    BY <1>1 DEF Found
  <2>2. owner' = owner
    BY <2>1, SameOwner
  <2> QED
    BY <2>2 DEF MapStep
<1>2. CASE r.addr # NULL /\ \E m \in Block : /\ m.own = run
                                            /\ Alloc(r.s) = Alloc(mem) \cup {m}
  <2>1. PICK m \in Block : m.own = run /\ Alloc(r.s) = Alloc(mem) \cup {m}
    BY <1>2
  <2> DEFINE A == Alloc(mem)
             B == Alloc(mem')
  <2>2. A \subseteq B /\ \A x \in B \ A : x.own = run
    BY <2>1
  <2> HIDE DEF A, B
  <2>3. /\ DOMAIN owner' = DOMAIN owner
        /\ Good(A, resident) /\ Good(B, resident)
        /\ \A a \in DOMAIN owner : /\ a \in Int
                                   /\ owner[a] = OwnerIn(A, resident, a)
                                   /\ owner'[a] = OwnerIn(B, resident, a)
    BY OwnersAt DEF A, B
  <2>4. \A a \in DOMAIN owner : \/ owner'[a] = owner[a]
                                \/ owner[a] = NULL /\ owner'[a] = run
    BY <2>2, <2>3, ViewTaken
  <2>5. Map!Next
    BY <2>3, <2>4, MapTakes
  <2> QED
    BY <2>5, <1>2 DEF MapStep
<1> QED
  BY <1>1, <1>2 DEF Given

LEMMA MallocMaps ==
  ASSUME MemInv, MemInv', Malloc
  PROVE  MapStep
<1>1. PICK n \in Amounts, mode \in Modes :
             Result(xmxalloc(mem, n, mode, run)) /\ Quiet
  BY DEF Malloc
<1> DEFINE r == xmxalloc(mem, n, mode, run)
<1>2. n \in Nat \ {0} /\ MemOK(mem) /\ run \in Nat
  BY Constants, RunFacts
<1>3. Given(mem, r, run)
  BY <1>2, Xmxalloc
<1>4. mem' = r.s /\ rc' = (r.addr # NULL) /\ UNCHANGED <<stack, added, resident>>
  BY <1>1 DEF Result, Quiet
<1> HIDE DEF r
<1> QED
  BY <1>3, <1>4, GivenMaps

(* What a program may give back: its own, and the block that it is in.     *)
LEMMA MineIs ==
  ASSUME MemInv, NEW m \in Alloc(mem), m.own = run \/ m.start = run
  PROVE  m.own \in Map!Mine
<1>1. CASE m.own = run
  BY <1>1 DEF Map!Mine, Map!Run, run
<1>2. CASE m.start = run
  <2>1. MemOK(mem) /\ Cover(All(mem)) = Memory \ resident
    BY DEF MemInv, Covered
  <2>2. Good(Alloc(mem), resident) /\ Alloc(mem) \subseteq All(mem)
    BY <2>1, GoodIs, AllocFacts
  <2>3. m \in Block /\ m.start \in Nat /\ m.length \in Nat \ {0}
    BY <2>2, BlockFacts DEF Good
  <2>4. run \in Bytes(m) /\ run \in Int
    BY <2>3, <1>2 DEF Bytes
  <2>5. run \in Memory
    BY <2>1, <2>2, <2>4 DEF Cover
  <2>6. OwnerIn(Alloc(mem), resident, run) = m.own
    BY <2>2, <2>4, OwnerFacts
  <2>7. run \in DOMAIN owner /\ owner[run] = m.own
    BY <2>5, <2>6, OwnerView, ViewAt
  <2> QED
    BY <2>7 DEF Map!Mine, Map!Run, run
<1> QED
  BY <1>1, <1>2

LEMMA CutMaps ==
  ASSUME MemInv, MemInv', UNCHANGED <<stack, added, resident>>, rc' = TRUE,
         NEW m \in Alloc(mem), m.own = run \/ m.start = run,
         Alloc(mem) \ {m} \subseteq Alloc(mem'),
         \A x \in Alloc(mem') : \/ x \in Alloc(mem) \ {m}
                                \/ Bytes(x) \subseteq Bytes(m) /\ x.own = m.own
  PROVE  MapStep
<1> DEFINE A == Alloc(mem)
           B == Alloc(mem')
<1>1. m.own \in Map!Mine
  BY MineIs
<1>2. /\ DOMAIN owner' = DOMAIN owner
      /\ Good(A, resident) /\ Good(B, resident)
      /\ \A a \in DOMAIN owner : /\ a \in Int
                                 /\ owner[a] = OwnerIn(A, resident, a)
                                 /\ owner'[a] = OwnerIn(B, resident, a)
  BY OwnersAt
<1>3. /\ m \in A /\ A \ {m} \subseteq B
      /\ \A x \in B : x \in A \ {m} \/ (Bytes(x) \subseteq Bytes(m) /\ x.own = m.own)
  OBVIOUS
<1> HIDE DEF A, B
<1>4. \A a \in DOMAIN owner : \/ owner'[a] = owner[a]
                              \/ owner[a] = m.own /\ owner'[a] = NULL
  BY <1>2, <1>3, ViewGiven
<1>5. Map!Next
  BY <1>1, <1>2, <1>4, MapGives
<1> QED
  BY <1>5 DEF MapStep

LEMMA MfreeMaps ==
  ASSUME MemInv, MemInv', Mfree
  PROVE  MapStep
<1>1. PICK a \in Own \cup {NULL} :
        /\ Result(xmfree(mem, a))
        /\ UNCHANGED <<stack, added, resident>>
  BY DEF Mfree
<1> DEFINE r == xmfree(mem, a)
           m == BlockAt(mem, a)
<1>2. MemOK(mem)
  BY RunFacts
<1>3. /\ ~IsBlock(mem, a) => r.s = mem /\ r.addr = NULL
      /\ IsBlock(mem, a) => /\ Kept(mem, r.s)
                            /\ Alloc(r.s) = Alloc(mem) \ {m}
                            /\ r.addr = a
  BY <1>2, Xmfree
<1>4. mem' = r.s /\ rc' = (r.addr # NULL)
  BY <1>1 DEF Result
<1> HIDE DEF r
<1>5. CASE ~IsBlock(mem, a)
  <2>1. owner' = owner
    BY <1>1, <1>3, <1>4, <1>5, SameOwner
  <2> QED
    BY <2>1, <1>1 DEF MapStep
<1>6. CASE IsBlock(mem, a)
  <2>1. a # NULL
    BY <1>6, <1>2, AllocFacts, Constants
  <2>2. m \in Alloc(mem) /\ m.own = run
    BY <1>1, <2>1, OwnIs
  <2>3. Alloc(mem') = Alloc(mem) \ {m} /\ rc' = TRUE
    BY <1>3, <1>4, <1>6, <2>1
  <2> HIDE DEF m
  <2>4. /\ Alloc(mem) \ {m} \subseteq Alloc(mem')
        /\ \A x \in Alloc(mem') : x \in Alloc(mem) \ {m}
    BY <2>3
  <2> QED
    BY <2>2, <2>3, <2>4, <1>1, CutMaps
<1> QED
  BY <1>5, <1>6

(* A block cut by xsetblk(). *)
LEMMA CutBytes ==
  ASSUME NEW m \in Block, NEW x \in Block, x.start = m.start,
         x.length \in 1 .. m.length
  PROVE  Bytes(x) \subseteq Bytes(m)
<1>1. m.start \in Nat /\ m.length \in Nat /\ x.length \in Nat
  BY BlockFacts
<1> QED
  BY <1>1 DEF Bytes

(* What xsetblk() does to the allocated blocks, when the block is m. *)
Cut(A, B, m) ==
  /\ m \in A /\ A \ {m} \subseteq B
  /\ \A x \in B : x \in A \ {m} \/ (Bytes(x) \subseteq Bytes(m) /\ x.own = m.own)

LEMMA XsetblkCuts ==
  ASSUME NEW s, MemOK(s), NEW a, NEW n \in Nat, NEW r, r = xsetblk(s, a, n)
  PROVE  \/ r.s = s
         \/ /\ IsBlock(s, a) /\ r.addr # NULL
            /\ Cut(Alloc(s), Alloc(r.s), BlockAt(s, a))
<1> DEFINE m == BlockAt(s, a)
           A == Alloc(s)
           B == Alloc(r.s)
<1>1. \/ r.s = s
      \/ /\ IsBlock(s, a) /\ n = 0 /\ r.addr # NULL
         /\ Kept(s, r.s) /\ Alloc(r.s) = Alloc(s) \ {m}
      \/ /\ IsBlock(s, a) /\ n # 0 /\ r.addr # NULL
         /\ Kept(s, r.s)
         /\ \E x \in Block :
              /\ x.start = m.start /\ x.own = m.own
              /\ x.length \in 1 .. m.length
              /\ Alloc(r.s) = (Alloc(s) \ {m}) \cup {x}
  BY Xsetblk
<1>2. IsBlock(s, a) => m \in A /\ m \in Block
  BY AllocFacts
<1>3. CASE IsBlock(s, a) /\ r.addr # NULL /\ B = A \ {m}
  <2> HIDE DEF m, A, B
  <2>1. Cut(A, B, m)
    BY <1>2, <1>3 DEF Cut
  <2> QED
    BY <2>1, <1>3 DEF m, A, B
<1>4. CASE /\ IsBlock(s, a) /\ r.addr # NULL
           /\ \E x \in Block : /\ x.start = m.start /\ x.own = m.own
                               /\ x.length \in 1 .. m.length
                               /\ B = (A \ {m}) \cup {x}
  <2>1. PICK x \in Block : /\ x.start = m.start /\ x.own = m.own
                           /\ x.length \in 1 .. m.length
                           /\ B = (A \ {m}) \cup {x}
    BY <1>4
  <2> HIDE DEF m, A, B
  <2>2. Bytes(x) \subseteq Bytes(m)
    BY <1>2, <1>4, <2>1, CutBytes
  <2>3. Cut(A, B, m)
    BY <1>2, <1>4, <2>1, <2>2 DEF Cut
  <2> QED
    BY <2>3, <1>4 DEF m, A, B
<1> QED
  BY <1>1, <1>3, <1>4

LEMMA MshrinkMaps ==
  ASSUME MemInv, MemInv', Mshrink
  PROVE  MapStep
<1>1. PICK a \in Own \cup {run}, n \in Amounts \cup {0} :
        /\ Result(xsetblk(mem, a, n))
        /\ UNCHANGED <<stack, added, resident>>
  BY DEF Mshrink
<1> DEFINE r == xsetblk(mem, a, n)
           m == BlockAt(mem, a)
<1>2. MemOK(mem) /\ n \in Nat
  BY RunFacts, Constants
<1> HIDE DEF r
<1>3. \/ r.s = mem
      \/ /\ IsBlock(mem, a) /\ r.addr # NULL
         /\ Cut(Alloc(mem), Alloc(r.s), m)
  <2>1. r = xsetblk(mem, a, n)
    BY DEF r
  <2> QED
    BY <1>2, <2>1, XsetblkCuts
<1>4. mem' = r.s /\ rc' = (r.addr # NULL)
  BY <1>1 DEF Result, r
<1>5. CASE r.s = mem
  <2>1. owner' = owner
    BY <1>1, <1>4, <1>5, SameOwner
  <2> QED
    BY <2>1, <1>1 DEF MapStep
<1>6. CASE IsBlock(mem, a) /\ r.addr # NULL /\ Cut(Alloc(mem), Alloc(r.s), m)
  <2>1. m \in Alloc(mem) /\ (m.own = run \/ m.start = run)
    <3>1. m \in Alloc(mem) /\ m.start = a
      BY <1>6, <1>2, AllocFacts
    <3> QED
      BY <3>1, <1>1, OwnIs
  <2>2. rc' = TRUE /\ Cut(Alloc(mem), Alloc(mem'), m)
    BY <1>4, <1>6
  <2> HIDE DEF m
  <2> QED
    BY <2>1, <2>2, <1>1, CutMaps DEF Cut
<1> QED
  BY <1>3, <1>5, <1>6

LEMMA PexecFailsMaps ==
  ASSUME MemInv, NEW b, Prepared(mem, b, run), PexecFails(NotLoaded(b)),
         UNCHANGED <<added, resident>>
  PROVE  MapStep
<1>1. mem' = NotLoaded(b) /\ stack' = stack
  BY DEF PexecFails
<1>2. Alloc(mem') = Alloc(mem)
  BY <1>1, RunFacts, NotLoadedFacts
<1>3. owner' = owner
  BY <1>2, SameOwner
<1> QED
  BY <1>1, <1>3 DEF MapStep

(* What Pexec() has made is given to own. *)
LEMMA BasepageGiven ==
  ASSUME MemInv, NEW b, Prepared(mem, b, run), b.pd # NULL, NEW own \in Nat,
         mem' = set_owners(b.s, b, own)
  PROVE  /\ Alloc(mem) \subseteq Alloc(mem')
         /\ \A m \in Alloc(mem') \ Alloc(mem) : m.own = own
         /\ \E m \in Alloc(mem') : m.start = b.pd /\ m.own = own
<1> DEFINE A == Alloc(mem)
           C == Alloc(b.s)
           B == Alloc(mem')
<1>1. Kept(mem, b.s) /\ Blocky(C)
  BY NewBasepageFacts
<1>2. PICK e \in Block, t \in Block :
        /\ e.start = b.env /\ t.start = b.pd /\ t # e /\ t.start # e.start
        /\ e \notin A /\ t \notin A
        /\ e.own = run /\ t.own = run
        /\ C = A \cup {e, t}
        /\ ~BlockStarts(A, b.pd) /\ ~BlockStarts(A, b.env)
        /\ b.pd # initial_basepage
  BY NewBasepageFacts
<1>3. MemOK(b.s) /\ t \in C /\ e \in C /\ C \subseteq Block
  BY <1>1, <1>2 DEF Kept, Blocky
<1>4. Given2(C, B, t, e, own)
  BY <1>2, <1>3, SetOwners DEF Given2
<1> HIDE DEF A, B, C
<1>5. /\ \A m \in C \ {t, e} : m \in B
      /\ \A m \in B : m \in C \ {t, e} \/ m.own = own
      /\ \E x \in B : x.start = t.start /\ x.own = own
  BY <1>3, <1>4, Given2Facts
<1>6. A \subseteq B /\ \A m \in B \ A : m.own = own
  BY <1>2, <1>5
<1>7. \E m \in B : m.start = b.pd /\ m.own = own
  BY <1>2, <1>5
<1> QED
  BY <1>6, <1>7 DEF A, B

LEMMA PexecLoadMaps ==
  ASSUME MemInv, MemInv', PexecLoad
  PROVE  MapStep
<1>1. PICK r \in Requests : LET b == NewBasepage(mem, r) IN
        /\ \/ PexecFails(NotLoaded(b))
           \/ /\ b.pd # NULL
              /\ mem' = set_owners(b.s, b, run)
              /\ rc' = TRUE
              /\ UNCHANGED stack
        /\ UNCHANGED <<added, resident>>
  BY DEF PexecLoad
<1> DEFINE b == NewBasepage(mem, r)
<1>2. MemOK(mem) /\ run \in Nat
  BY RunFacts
<1>3. Prepared(mem, b, run)
  BY <1>2, PreparedIs
<1> HIDE DEF b
<1>4. CASE PexecFails(NotLoaded(b))
  BY <1>1, <1>3, <1>4, PexecFailsMaps
<1>5. CASE b.pd # NULL /\ mem' = set_owners(b.s, b, run) /\ rc' = TRUE
           /\ stack' = stack
  <2> DEFINE A == Alloc(mem)
             B == Alloc(mem')
  <2>1. A \subseteq B /\ \A m \in B \ A : m.own = run
    BY <1>2, <1>3, <1>5, BasepageGiven
  <2>2. /\ DOMAIN owner' = DOMAIN owner
        /\ Good(A, resident) /\ Good(B, resident)
        /\ \A a \in DOMAIN owner : /\ a \in Int
                                   /\ owner[a] = OwnerIn(A, resident, a)
                                   /\ owner'[a] = OwnerIn(B, resident, a)
    BY <1>1, OwnersAt
  <2> HIDE DEF A, B
  <2>3. \A a \in DOMAIN owner : \/ owner'[a] = owner[a]
                                \/ owner[a] = NULL /\ owner'[a] = run
    BY <2>1, <2>2, ViewTaken
  <2>4. Map!Next
    BY <1>5, <2>2, <2>3, MapTakes
  <2> QED
    BY <2>4, <1>5 DEF MapStep
<1> QED
  BY <1>1, <1>4, <1>5 DEF b

(* The program that is started is in the block at pd. *)
LEMMA StartedIn ==
  ASSUME MemInv', added' = added, NEW pd \in Nat,
         NEW m \in Alloc(mem'), m.start = pd
  PROVE  pd \in DOMAIN owner /\ owner'[pd] = m.own
<1>1. MemOK(mem') /\ Cover(All(mem')) = Memory' \ resident'
  BY DEF MemInv, Covered
<1>2. Good(Alloc(mem'), resident') /\ Alloc(mem') \subseteq All(mem')
  BY <1>1, GoodIs, AllocFacts
<1>3. m \in Block /\ m.start \in Nat /\ m.length \in Nat \ {0}
  BY <1>2, BlockFacts DEF Good
<1>4. pd \in Bytes(m) /\ pd \in Int
  BY <1>3 DEF Bytes
<1>5. pd \in Memory'
  BY <1>1, <1>2, <1>4 DEF Cover
<1>6. OwnerIn(Alloc(mem'), resident', pd) = m.own
  BY <1>2, <1>4, OwnerFacts
<1>7. owner'[pd] = m.own
  BY <1>5, <1>6, OwnerView, ViewAt
<1>8. Memory' = Memory
  BY DEF Memory
<1> QED
  BY <1>5, <1>7, <1>8, OwnerView, ViewAt

LEMMA PexecLoadGoMaps ==
  ASSUME MemInv, MemInv', PexecLoadGo
  PROVE  MapStep
<1>1. PICK r \in Requests : LET b == NewBasepage(mem, r) IN
        /\ \/ PexecFails(NotLoaded(b))
           \/ /\ b.pd # NULL
              /\ mem' = set_owners(b.s, b, b.pd)
              /\ stack' = <<b.pd>> \o stack
              /\ rc' = TRUE
        /\ UNCHANGED <<added, resident>>
  BY DEF PexecLoadGo
<1> DEFINE b == NewBasepage(mem, r)
<1>2. MemOK(mem) /\ run \in Nat /\ StackOK(stack)
  BY RunFacts
<1>3. Prepared(mem, b, run)
  BY <1>2, PreparedIs
<1> HIDE DEF b
<1>4. CASE PexecFails(NotLoaded(b))
  BY <1>1, <1>3, <1>4, PexecFailsMaps
<1>5. CASE b.pd # NULL /\ mem' = set_owners(b.s, b, b.pd) /\ rc' = TRUE
           /\ stack' = <<b.pd>> \o stack
  <2> DEFINE A == Alloc(mem)
             B == Alloc(mem')
             pd == b.pd
  <2>0. pd \in Nat
    BY <1>3, <1>5, NewBasepageFacts DEF Block
  <2>1. /\ A \subseteq B /\ \A m \in B \ A : m.own = pd
        /\ \E m \in B : m.start = pd /\ m.own = pd
    BY <1>2, <1>3, <1>5, <2>0, BasepageGiven
  <2>2. /\ DOMAIN owner' = DOMAIN owner
        /\ Good(A, resident) /\ Good(B, resident)
        /\ \A a \in DOMAIN owner : /\ a \in Int
                                   /\ owner[a] = OwnerIn(A, resident, a)
                                   /\ owner'[a] = OwnerIn(B, resident, a)
    BY <1>1, OwnersAt
  <2>3. PICK m \in Alloc(mem') : m.start = pd /\ m.own = pd
    BY <2>1
  <2>4. pd \in DOMAIN owner /\ owner'[pd] = pd
    BY <1>1, <2>0, <2>3, StartedIn
  <2>5. stack' = <<pd>> \o stack /\ rc' = TRUE
    BY <1>5
  <2> HIDE DEF A, B, pd
  <2>6. \A a \in DOMAIN owner : \/ owner'[a] = owner[a]
                                \/ owner[a] = NULL /\ owner'[a] = pd
    BY <2>1, <2>2, ViewTaken
  <2>7. Map!Next
    BY <1>2, <2>0, <2>2, <2>4, <2>5, <2>6, MapExecs
  <2> QED
    BY <2>5, <2>7 DEF MapStep
<1> QED
  BY <1>1, <1>4, <1>5 DEF b

LEMMA PexecGoMaps ==
  ASSUME MemInv, MemInv', PexecGo
  PROVE  MapStep
<1>1. PICK l \in loaded, thenfree \in BOOLEAN :
        /\ BlockAt(mem, l.pd).own = run /\ BlockAt(mem, l.env).own = run
        /\ mem' = IF thenfree THEN set_owners(mem, l, l.pd) ELSE mem
        /\ stack' = <<l.pd>> \o stack
        /\ rc' = TRUE
        /\ UNCHANGED <<added, resident>>
  BY DEF PexecGo
<1> DEFINE A == Alloc(mem)
           B == Alloc(mem')
           t == BlockAt(mem, l.pd)
           e == BlockAt(mem, l.env)
           pd == l.pd
<1>2. /\ MemOK(mem) /\ StackOK(stack) /\ A \subseteq Block
      /\ Live(A, stack, loaded)
  BY RunFacts
<1>3. /\ pd \in Nat /\ BlockStarts(A, pd) /\ BlockStarts(A, l.env)
      /\ l.env # pd
  BY <1>2 DEF Live, Ready
<1>4. t \in A /\ t.start = l.pd /\ e \in A /\ e.start = l.env
  BY <1>2, <1>3, IsBlockAt, AllocFacts
<1>5. t # e
  BY <1>3, <1>4
<1>6. B = A \/ Given2(A, B, t, e, pd)
  <2>1. CASE thenfree
    BY <2>1, <1>1, <1>2, <1>3, <1>4, <1>5, SetOwners DEF Given2
  <2>2. CASE ~thenfree
    BY <2>2, <1>1
  <2> QED
    BY <2>1, <2>2
<1>7. /\ DOMAIN owner' = DOMAIN owner
      /\ Good(A, resident) /\ Good(B, resident)
      /\ \A a \in DOMAIN owner : /\ a \in Int
                                 /\ owner[a] = OwnerIn(A, resident, a)
                                 /\ owner'[a] = OwnerIn(B, resident, a)
  BY <1>1, OwnersAt
<1>8. t.own = run /\ e.own = run /\ stack' = <<pd>> \o stack /\ rc' = TRUE
  BY <1>1
<1> HIDE DEF t, e, pd
<1>9. \E x \in B : x.start = pd /\ x.own \in {pd, run}
  <2> HIDE DEF A, B
  <2>1. CASE B = A
    BY <2>1, <1>4, <1>8 DEF pd
  <2>2. CASE Given2(A, B, t, e, pd)
    BY <2>2, <1>2, <1>3, <1>4, Given2Facts DEF pd
  <2> QED
    BY <2>1, <2>2, <1>6
<1>10. PICK x \in Alloc(mem') : x.start = pd /\ x.own \in {pd, run}
  BY <1>9
<1>11. pd \in DOMAIN owner /\ owner'[pd] \in {pd, run}
  BY <1>1, <1>3, <1>10, StartedIn
<1> HIDE DEF A, B
<1>12. \A a \in DOMAIN owner : \/ owner'[a] = owner[a]
                               \/ owner[a] = run /\ owner'[a] = pd
  <2>1. CASE B = A
    BY <2>1, <1>7
  <2>2. CASE Given2(A, B, t, e, pd)
    BY <2>2, <1>3, <1>4, <1>7, <1>8, ViewGiven2
  <2> QED
    BY <2>1, <2>2, <1>6
<1>13. Map!Next
  BY <1>2, <1>3, <1>7, <1>8, <1>11, <1>12, MapExecs
<1> QED
  BY <1>8, <1>13 DEF MapStep

(* The basepage of a program that can end is no NULL. *)
LEMMA RunNotNull ==
  ASSUME MemInv, Len(stack) > 1
  PROVE  run \in Nat \ {0}
<1>1. /\ run = stack[1] /\ run \in Nat /\ Housed(Alloc(mem), stack)
      /\ Blocky(Alloc(mem)) /\ Len(stack) \in Nat
  BY RunFacts DEF Live
<1>2. 1 \in 1 .. Len(stack) - 1
  BY <1>1
<1>3. PICK m \in Alloc(mem) : m.start = stack[1]
  BY <1>1, <1>2 DEF Housed
<1>4. StStart <= m.start
  BY <1>1 DEF Blocky
<1> QED
  BY <1>1, <1>3, <1>4, Constants

LEMMA PtermMaps ==
  ASSUME MemInv, MemInv', Pterm
  PROVE  MapStep
<1>1. /\ Len(stack) > 1 /\ mem' = ixterm(mem, run) /\ stack' = Tail(stack)
      /\ rc' = TRUE /\ UNCHANGED <<added, resident>>
  BY DEF Pterm, Terminate
<1> DEFINE A == Alloc(mem)
           B == Alloc(mem')
<1>2. B = A \ {m \in A : m.own = run}
  BY <1>1, RunFacts, Ixterm
<1>3. run \in Nat \ {0}
  BY <1>1, RunNotNull
<1>4. /\ DOMAIN owner' = DOMAIN owner
      /\ Good(A, resident) /\ Good(B, resident)
      /\ \A a \in DOMAIN owner : /\ a \in Int
                                 /\ owner[a] = OwnerIn(A, resident, a)
                                 /\ owner'[a] = OwnerIn(B, resident, a)
  BY <1>1, OwnersAt
<1> DEFINE r == run
<1> HIDE DEF A, B, r
<1>5. \A a \in DOMAIN owner : \/ owner'[a] = owner[a] /\ owner[a] # r
                              \/ owner[a] = r /\ owner'[a] \in {NULL, -1}
  <2>1. B = A \ {m \in A : m.own = r} /\ r \in Nat \ {0}
    BY <1>2, <1>3 DEF r
  <2> QED
    BY <2>1, <1>4, ViewEnded
<1>6. Map!Next
  BY <1>1, <1>3, <1>4, <1>5, MapQuits DEF r
<1> QED
  BY <1>1, <1>6 DEF MapStep

LEMMA PtermresMaps ==
  ASSUME MemInv, MemInv', Ptermres
  PROVE  MapStep
<1>1. PICK n \in Amounts, low \in BOOLEAN :
        LET s == xsetblk(mem, run, n).s
            mine == OwnedBy(run, Alloc(s))
        IN  /\ Len(stack) > 1
            /\ resident' = resident \cup UNION {Bytes(m) : m \in mine}
            /\ Terminate(reserve_blocks(reserve_blocks(s, "st", run, low),
                                        "alt", run, low))
  BY DEF Ptermres, Alloc
<1> DEFINE r == xsetblk(mem, run, n)
           s == r.s
           A == Alloc(mem)
           C == Alloc(s)
           B == Alloc(mem')
           T == OwnedBy(run, C)
           t == reserve_blocks(reserve_blocks(s, "st", run, low), "alt", run, low)
<1>2. n \in Nat /\ MemOK(mem) /\ run \in Nat \ {0} /\ (n = 0 => run \in Own)
  BY <1>1, Constants, RunFacts, RunNotNull
<1>3. /\ resident' = resident \cup Cover(T)
      /\ mem' = ixterm(t, run) /\ stack' = Tail(stack) /\ Len(stack) > 1
      /\ rc' = TRUE /\ added' = added
  BY <1>1 DEF Terminate, Cover
<1> HIDE DEF r
<1>4. Kept(mem, s)
  <2> DEFINE ls == StillAt(Alloc(r.s), loaded)
  <2> HIDE DEF ls
  <2>1. r = xsetblk(mem, run, n) /\ ls = StillAt(Alloc(r.s), loaded)
    BY DEF r, ls
  <2> QED
    BY <2>1, <1>2, ShrunkLive
<1>5. \/ s = mem
      \/ IsBlock(mem, run) /\ Cut(A, C, BlockAt(mem, run))
  <2>1. r = xsetblk(mem, run, n)
    BY DEF r
  <2> QED
    BY <2>1, <1>2, XsetblkCuts
<1> HIDE DEF s, t
<1>6. MemOK(s) /\ Cover(All(s)) = Cover(All(mem))
  BY <1>4 DEF Kept
<1>7. MemOK(t) /\ Alloc(t) = C \ T
  BY <1>6, ReserveBoth DEF t
<1>8. B = C \ {m \in C : m.own = run}
  <2>1. B = Alloc(t) \ {m \in Alloc(t) : m.own = run}
    BY <1>3, <1>7, Ixterm
  <2> QED
    BY <2>1, <1>7 DEF OwnedBy
<1>9. /\ DOMAIN owner' = DOMAIN owner
      /\ Good(A, resident) /\ Good(B, resident')
      /\ \A a \in DOMAIN owner : /\ a \in Int
                                 /\ owner[a] = OwnerIn(A, resident, a)
                                 /\ owner'[a] = OwnerIn(B, resident', a)
  BY <1>3, OwnersAt
<1>10. Good(C, resident)
  <2>1. Cover(All(s)) \cap resident = {}
    BY <1>6 DEF MemInv, Covered
  <2> QED
    BY <2>1, <1>6, GoodIs
<1> DEFINE M == Map!Mine
           u == run
           res1 == resident'
<1>11. \A a \in DOMAIN owner :
          \/ OwnerIn(C, resident, a) = owner[a]
          \/ owner[a] \in M /\ OwnerIn(C, resident, a) = NULL
  <2>1. CASE s = mem
    BY <2>1, <1>9
  <2>2. CASE IsBlock(mem, run) /\ Cut(A, C, BlockAt(mem, run))
    <3> DEFINE m == BlockAt(mem, run)
    <3>1. m \in A /\ m.start = run
      BY <2>2, <1>2, AllocFacts
    <3>2. m.own \in M
      <4> HIDE DEF m
      <4> QED
        BY <3>1, MineIs
    <3> HIDE DEF m, A, C, M
    <3>3. Cut(A, C, m)
      BY <2>2 DEF m
    <3>4. \A a \in Int :
            \/ OwnerIn(C, resident, a) = OwnerIn(A, resident, a)
            \/ OwnerIn(A, resident, a) = m.own /\ OwnerIn(C, resident, a) = NULL
      BY <3>3, <1>9, <1>10, ViewGiven DEF Cut
    <3> QED
      BY <3>2, <3>4, <1>9
  <2> QED
    BY <2>1, <2>2, <1>5
<1>12. res1 = resident \cup Cover({m \in C : m.own = u})
  BY <1>3 DEF OwnedBy
<1> HIDE DEF A, B, C, M, u, res1
<1>13. \A a \in Int :
          \/ OwnerIn(C, resident, a) = u /\ OwnerIn(B, res1, a) \in {NULL, -1}
          \/ /\ OwnerIn(C, resident, a) # u
             /\ OwnerIn(B, res1, a) = OwnerIn(C, resident, a)
  <2>1. B = C \ {m \in C : m.own = u} /\ u \in Nat \ {0} /\ Good(B, res1)
    BY <1>2, <1>8, <1>9 DEF u, res1
  <2> QED
    BY <2>1, <1>10, <1>12, ViewEnded
<1>14. \A a \in DOMAIN owner :
          \/ owner'[a] = owner[a] /\ owner[a] # u
          \/ owner[a] = u /\ owner'[a] \in {NULL, -1}
          \/ owner[a] \in M /\ owner'[a] = NULL
  <2> TAKE a \in DOMAIN owner
  <2>1. a \in Int /\ owner'[a] = OwnerIn(B, res1, a)
    BY <1>9 DEF res1
  <2>2. \/ OwnerIn(C, resident, a) = u /\ OwnerIn(B, res1, a) \in {NULL, -1}
        \/ /\ OwnerIn(C, resident, a) # u
           /\ OwnerIn(B, res1, a) = OwnerIn(C, resident, a)
    BY <2>1, <1>13
  <2>3. u # NULL
    BY <1>2, Constants DEF u
  <2> QED
    BY <2>1, <2>2, <2>3, <1>11
<1>15. Map!Next
  BY <1>2, <1>3, <1>9, <1>14, MapQuits DEF u, M
<1> QED
  BY <1>3, <1>15 DEF MapStep

LEMMA MaddaltMaps ==
  ASSUME MemInv, MemInv', Maddalt
  PROVE  MapStep
<1>1. PICK b \in Boards \ added :
        LET r == xmaddalt(b.start, b.size - (b.size % 4))
        IN  /\ Result(r)
            /\ added' = IF r.addr # NULL THEN added \cup {b} ELSE added
            /\ UNCHANGED <<stack, loaded, resident>>
  BY DEF Maddalt
<1> DEFINE size == b.size - (b.size % 4)
           r == xmaddalt(b.start, size)
           N == b.start .. b.start + size - 1
<1>2. b.start \in Nat /\ size \in Int
  <2>1. b.start \in Nat /\ b.size \in Int
    BY UMemAssumption
  <2> DEFINE z == b.size
  <2> HIDE DEF z
  <2>2. z \in Int => z - (z % 4) \in Int
    OBVIOUS
  <2> QED
    BY <2>1, <2>2 DEF z
<1>3. N = BoardBytes(b)
  BY DEF BoardBytes
<1> HIDE DEF size
<1>4. MemOK(mem) /\ Good(Alloc(mem), resident)
      /\ Cover(All(mem)) = Memory \ resident /\ Cover(Alloc(mem)) \subseteq Memory
      /\ resident \subseteq Memory
  <2>1. MemOK(mem) /\ Cover(All(mem)) = Memory \ resident /\ resident \subseteq Memory
    BY DEF MemInv, Covered
  <2>2. Good(Alloc(mem), resident) /\ Alloc(mem) \subseteq All(mem)
    BY <2>1, GoodIs, AllocFacts
  <2> QED
    BY <2>1, <2>2 DEF Cover
<1>5. CASE r.s = mem /\ r.addr = NULL
  <2>1. mem' = mem /\ UNCHANGED <<added, resident, stack>>
    BY <1>1, <1>5 DEF Result, size
  <2>2. owner' = owner
    BY <2>1, SameOwner
  <2> QED
    BY <2>1, <2>2 DEF MapStep
<1>6. CASE StStart + StSize <= b.start /\ Grown(mem, r, N) /\ r.addr # NULL
  <2>1. N \cap Memory = {}
    BY <1>3, <1>6, BoardFresh
  <2>2. /\ Alloc(mem') = Alloc(mem) /\ added' = added \cup {b} /\ rc' = TRUE
        /\ UNCHANGED <<resident, stack>>
    BY <1>1, <1>6 DEF Result, Grown, size
  <2> HIDE DEF r, N
  <2>3. Memory' = Memory \cup N
    BY <2>2, <1>3 DEF Memory
  <2>4. /\ DOMAIN owner = Memory /\ DOMAIN owner' = Memory \cup N
        /\ \A a \in Memory : owner[a] = OwnerIn(Alloc(mem), resident, a)
        /\ \A a \in Memory \cup N : owner'[a] = OwnerIn(Alloc(mem), resident, a)
    BY <2>2, <2>3, OwnerView, ViewAt
  <2>5. \A a \in N : owner'[a] = NULL
    <3> TAKE a \in N
    <3>1. a \in Int /\ a \notin resident /\ \A m \in Alloc(mem) : a \notin Bytes(m)
      BY <2>1, <1>4 DEF N, Cover
    <3>2. OwnerIn(Alloc(mem), resident, a) = IF a \in resident THEN -1 ELSE NULL
      BY <3>1, <1>4, OwnerFacts
    <3> QED
      BY <3>1, <3>2, <2>4
  <2>6. CASE N = {}
    <3>1. Memory' = Memory
      BY <2>3, <2>6
    <3>2. owner' = owner
      BY <3>1, <2>2, OwnerView
    <3> QED
      BY <3>2, <2>2 DEF MapStep
  <2>7. CASE N # {}
    <3>1. /\ DOMAIN owner # DOMAIN owner' /\ DOMAIN owner \subseteq DOMAIN owner'
      BY <2>1, <2>4, <2>7
    <3>2. \A a \in DOMAIN owner' :
            owner'[a] = IF a \in DOMAIN owner THEN owner[a] ELSE NULL
      BY <2>4, <2>5
    <3>3. Map!Add
      BY <3>1, <3>2, <2>2 DEF Map!Add, Map!Free, NULL
    <3> QED
      BY <3>3, <2>2 DEF MapStep, Map!Next
  <2> QED
    BY <2>6, <2>7
<1>7. CASE StStart + StSize <= b.start
  <2>1. N \cap Cover(All(mem)) = {}
    BY <1>3, <1>4, <1>7, BoardFresh
  <2>2. \/ r.s = mem /\ r.addr = NULL
        \/ /\ Grown(mem, r, b.start .. b.start + size - 1)
           /\ r.addr = b.start /\ b.start # NULL
           /\ StStart + StSize <= b.start
    BY <1>2, <1>4, <2>1, Xmaddalt
  <2> HIDE DEF r
  <2> QED
    BY <2>2, <1>5, <1>6, <1>7
<1>8. CASE ~(StStart + StSize <= b.start)
  <2>1. r = Found(mem, NULL)
    <3>1. b.start < StStart + StSize
      BY <1>2, <1>8, Constants
    <3> QED
      BY <3>1 DEF xmaddalt
  <2>2. r.s = mem /\ r.addr = NULL
    BY <2>1 DEF Found
  <2> HIDE DEF r
  <2> QED
    BY <2>2, <1>5
<1> QED
  BY <1>7, <1>8

LEMMA OsPoolMaps ==
  ASSUME MemInv, NEW taken, OsPool(taken)
  PROVE  MapStep
<1>1. mem' = [mem EXCEPT !.osm.taken = taken]
      /\ UNCHANGED <<stack, loaded, added, resident, rc>>
  BY DEF OsPool
<1>2. mem = [mfl |-> mem.mfl, mal |-> mem.mal, osm |-> mem.osm]
  BY RunFacts, MemTypes
<1>3. mem'.mal = mem.mal
  <2> DEFINE o1 == [mem.osm EXCEPT !.taken = taken]
  <2>1. mem' = [mem EXCEPT !.osm = o1]
    BY <1>1
  <2> HIDE DEF o1
  <2> QED
    BY <2>1, <1>2
<1>4. owner' = owner
  <2>1. Alloc(mem') = Alloc(mem)
    BY <1>3 DEF Alloc
  <2> QED
    BY <2>1, <1>1, SameOwner
<1> QED
  BY <1>1, <1>4 DEF MapStep

LEMMA NextMaps ==
  ASSUME MemInv, MemInv', [Next]_vars
  PROVE  /\ [Map!Next]_<<owner, stack>>
         /\ [rc' = FALSE => owner' = owner]_vars
<1>1. CASE Next
  <2>1. MapStep
    <3>1. CASE Malloc
      BY <3>1, MallocMaps
    <3>2. CASE Mfree
      BY <3>2, MfreeMaps
    <3>3. CASE Mshrink
      BY <3>3, MshrinkMaps
    <3>4. CASE PexecLoadGo
      BY <3>4, PexecLoadGoMaps
    <3>5. CASE PexecLoad
      BY <3>5, PexecLoadMaps
    <3>6. CASE PexecGo
      BY <3>6, PexecGoMaps
    <3>7. CASE Pterm
      BY <3>7, PtermMaps
    <3>8. CASE Ptermres
      BY <3>8, PtermresMaps
    <3>9. CASE Maddalt
      BY <3>9, MaddaltMaps
    <3>10. CASE xmgetblk \/ xmfreblk
      BY <3>10, OsPoolMaps DEF xmgetblk, xmfreblk
    <3>11. QED
      BY <1>1, <3>1, <3>2, <3>3, <3>4, <3>5, <3>6, <3>7, <3>8, <3>9, <3>10 DEF Next
  <2> QED
    BY <2>1 DEF MapStep
<1>2. CASE UNCHANGED vars
  <2>1. UNCHANGED <<mem, stack, loaded, added, resident, rc>>
    BY <1>2 DEF vars
  <2>2. owner' = owner
    BY <2>1, SameOwner
  <2> QED
    BY <1>2, <2>1, <2>2
<1> QED
  BY <1>1, <1>2

LEMMA InitMaps == Init => Map!Init
<1> SUFFICES ASSUME Init
             PROVE  Map!Init
  OBVIOUS
<1>1. Alloc(mem) = {}
  BY InitMem
<1>2. stack = <<initial_basepage>> /\ added = {} /\ resident = {}
  BY DEF Init
<1>3. Memory = StRam
  BY <1>2 DEF Memory
<1>4. \A a : OwnerIn({}, {}, a) = NULL
  BY DEF OwnerIn
<1>5. View(StRam, {}, {}) = [a \in StRam |-> NULL]
  BY <1>4 DEF View
<1>6. owner = [a \in StRam |-> NULL]
  BY <1>1, <1>2, <1>3, <1>5, OwnerView
<1> QED
  BY <1>2, <1>6 DEF Map!Init, Map!Free, NULL

(* A Malloc(), Mfree(), Mshrink(), Pexec() or Maddalt() that fails has     *)
(* left every address with the owner it had, although it may have taken    *)
(* an environment and a TPA and freed them again.                          *)
THEOREM FailedCallsClean == Spec => FailsClean
BY AlwaysInv, NextMaps, PTL DEF Spec, FailsClean

(* The lists implement the memory map: each call takes from what is free   *)
(* only, gives back only what the running program has, and leaves nothing  *)
(* to a program that has ended.                                            *)
THEOREM ImplementsMap == Spec => MemoryMapSpec
BY AlwaysInv, InitMaps, NextMaps, PTL DEF Spec, MemoryMapSpec, Map!Spec

=============================================================================
