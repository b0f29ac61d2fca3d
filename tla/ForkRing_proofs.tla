-------------------------- MODULE ForkRing_proofs --------------------------
(***************************************************************************)
(* Proofs about the fork ring, for any size of the ring, any time to wait  *)
(* for another click and any number of clicks.                             *)
(***************************************************************************)
EXTENDS ForkRing, SequenceTheorems, TLAPS

(* The ring wraps around once. *)
LEMMA ModFacts ==
  ASSUME NEW n \in Nat \ {0}, NEW x \in 0 .. 2 * n - 1
  PROVE  x % n = IF x < n THEN x ELSE x - n
<1>1. x = n * (x \div n) + (x % n) /\ x % n \in 0 .. n - 1 /\ x \div n \in Int
  OBVIOUS
<1>2. x \div n = 0 \/ x \div n = 1
  <2> DEFINE q == x \div n
  <2>1. CASE q >= 2
    <3>1. n * q >= n * 2
      BY <2>1, <1>1
    <3> QED
      BY <3>1, <1>1
  <2>2. CASE q <= -1
    <3>1. n * q <= n * (-1)
      BY <2>2, <1>1
    <3> QED
      BY <3>1, <1>1
  <2> QED
    BY <2>1, <2>2, <1>1
<1>3. CASE x \div n = 0
  BY <1>1, <1>3
<1>4. CASE x \div n = 1
  BY <1>1, <1>4
<1> QED
  BY <1>2, <1>3, <1>4

(***************************************************************************)
(* The types.                                                              *)
(***************************************************************************)

MostTicks == DClick + 3 * MaxClicks

(* The clicks that were counted bound the ticks to wait, there is one while *)
(* there is a wait and while forks are made of it, and an interrupt leaves  *)
(* no more forks than slots, so that put() adds one to at most NFORKS.      *)
TypeInv ==
  /\ TypeOK
  /\ gl_bdely <= DClick + 3 * gl_bclick
  /\ gl_bdely # 0 => gl_bclick >= 1
  /\ main \in {"delay", "decide", "take1"} => gl_bclick >= 1
  /\ main \in {"put1", "put2"} => fpcnt <= NFORKS

(* The forks that are made are forks. *)
LEMMA ForkTypes ==
  /\ \A s \in {0, 1}, n \in 1 .. MaxClicks : bchangeFork(s, n) \in Fork
  /\ NoFork \in Fork
  BY DEF bchangeFork, Fork, NoFork

(* forkq() keeps the types, and never fills more slots than there are. *)
LEMMA forkqType ==
  ASSUME TypeOK, NEW fs \in Seq(Fork), forkq(fs)
  PROVE  /\ g_fpdx' \in [0 .. NFORKS - 1 -> Fork]
         /\ fph' = fph
         /\ fpt' \in 0 .. NFORKS - 1
         /\ fpcnt' \in 0 .. NFORKS + 1
         /\ fpcnt <= NFORKS => fpcnt' <= NFORKS
<1> DEFINE n == IF fpcnt >= NFORKS THEN 0
                ELSE IF fpcnt + Len(fs) <= NFORKS THEN Len(fs) ELSE NFORKS - fpcnt
<1>1. NFORKS \in Nat \ {0} /\ fpcnt \in Nat /\ Len(fs) \in Nat
  BY RingAssumption DEF TypeOK
<1>2. n \in 0 .. Len(fs) /\ (n = 0 \/ fpcnt + n <= NFORKS)
  BY <1>1
<1>3. g_fpdx' = Filled(fs, n) /\ fpt' = At(n) /\ fpcnt' = fpcnt + n /\ fph' = fph
  BY DEF forkq
<1> HIDE DEF n
<1>4. Filled(fs, n) \in [0 .. NFORKS - 1 -> Fork]
  <2>1. ASSUME NEW i \in 0 .. NFORKS - 1, NEW k \in 0 .. n - 1
        PROVE  fs[1 + k] \in Fork
    BY <1>2, <2>1
  <2>2. ASSUME NEW i \in 0 .. NFORKS - 1
        PROVE  (IF \E k \in 0 .. n - 1 : At(k) = i
                THEN fs[1 + CHOOSE k \in 0 .. n - 1 : At(k) = i]
                ELSE g_fpdx[i]) \in Fork
    <3>1. CASE \E k \in 0 .. n - 1 : At(k) = i
      <4>1. (CHOOSE k \in 0 .. n - 1 : At(k) = i) \in 0 .. n - 1
        BY <3>1, Zenon
      <4> QED
        BY <2>1, <3>1, <4>1
    <3>2. CASE ~ \E k \in 0 .. n - 1 : At(k) = i
      BY <3>2 DEF TypeOK
    <3> QED
      BY <3>1, <3>2
  <2>3. DOMAIN g_fpdx = 0 .. NFORKS - 1
    BY DEF TypeOK
  <2> QED
    BY <2>2, <2>3, Zenon DEF Filled
<1>5. At(n) \in 0 .. NFORKS - 1
  BY <1>1, <1>2 DEF At, TypeOK
<1> QED
  BY <1>1, <1>2, <1>3, <1>4, <1>5 DEF TypeOK

(* b_delay() makes one or two forks. *)
LEMMA DelayForksType ==
  ASSUME TypeOK, gl_bclick >= 1
  PROVE  /\ DelayFork(TRUE) \in Fork /\ DelayFork(FALSE) \in Fork
         /\ DelayForks \in Seq(Fork)
         /\ Len(DelayForks) \in {1, 2}
<1>1. gl_bclick \in 1 .. MaxClicks /\ 1 \in 1 .. MaxClicks
  BY RingAssumption DEF TypeOK
<1>2. DelayFork(TRUE) \in Fork /\ DelayFork(FALSE) \in Fork
  BY <1>1, ForkTypes DEF DelayFork, TypeOK
<1>3. \A a, b \in Fork : /\ <<a>> \in Seq(Fork) /\ Len(<<a>>) = 1
                        /\ <<a, b>> \in Seq(Fork) /\ Len(<<a, b>>) = 2
  OBVIOUS
<1>4. DelayForks \in {<<DelayFork(TRUE)>>, <<DelayFork(TRUE), DelayFork(FALSE)>>}
  BY Zenon DEF DelayForks
<1>5. DelayForks \in Seq(Fork) /\ (Len(DelayForks) = 1 \/ Len(DelayForks) = 2)
  BY <1>2, <1>3, <1>4, Zenon
<1> QED
  BY <1>2, <1>5, Zenon

LEMMA DelayForksLast ==
  /\ DelayForks[Len(DelayForks)].code = "bchange"
  /\ DelayForks[Len(DelayForks)].state = gl_btrue
<1>1. \A a, b : Len(<<a>>) = 1 /\ <<a>>[1] = a /\ Len(<<a, b>>) = 2 /\ <<a, b>>[2] = b
  OBVIOUS
<1>2. CASE gl_bdesired = gl_btrue
  <2>1. DelayForks = <<bchangeFork(gl_btrue, gl_bclick)>>
    BY <1>2, Zenon DEF DelayForks, DelayFork
  <2> QED
    BY <2>1 DEF bchangeFork
<1>3. CASE gl_bdesired # gl_btrue
  <2>1. DelayForks = <<bchangeFork(gl_bdesired, gl_bclick), bchangeFork(gl_btrue, 1)>>
    BY <1>3, Zenon DEF DelayForks, DelayFork
  <2> QED
    BY <2>1 DEF bchangeFork
<1> QED
  BY <1>2, <1>3

LEMMA TypeInvInit == Init => TypeInv
<1> SUFFICES ASSUME Init PROVE TypeInv
  OBVIOUS
<1>1. NFORKS \in Nat \ {0} /\ DClick \in Nat \ {0} /\ MaxClicks \in Nat \ {0}
  BY RingAssumption
<1>2. g_fpdx \in [0 .. NFORKS - 1 -> Fork] /\ fpd \in Fork
  BY ForkTypes DEF Init
<1>3. {gl_bpend, raced, refused} \subseteq BOOLEAN
  BY Zenon DEF Init
<1>4. 0 \in 0 .. NFORKS - 1 /\ 0 \in 0 .. NFORKS + 1 /\ 0 \in 0 .. MostTicks /\ 0 \in 0 .. MaxClicks
  BY <1>1 DEF MostTicks
<1> QED
  BY <1>1, <1>2, <1>3, <1>4 DEF Init, TypeInv, TypeOK, MostTicks

LEMMA TypeInvStep == TypeInv /\ [Next]_vars => TypeInv'
<1> SUFFICES ASSUME TypeInv, [Next]_vars PROVE TypeInv'
  OBVIOUS
<1> USE DEF TypeInv
<1>0. /\ NFORKS \in Nat \ {0} /\ DClick \in Nat \ {0} /\ MaxClicks \in Nat \ {0}
      /\ NoFork \in Fork
  BY RingAssumption, ForkTypes
<1>1. CASE b_click
  <2>1. gl_btrue' \in {0, 1}
    BY <1>1 DEF b_click, TypeOK
  <2>2. CASE gl_bdely # 0
    <3>1. /\ gl_bdely' \in 0 .. MostTicks /\ gl_bclick' \in 0 .. MaxClicks
          /\ gl_bdely' <= DClick + 3 * gl_bclick' /\ gl_bclick' >= 1
      BY <1>0, <1>1, <2>2 DEF b_click, TypeOK, MostTicks
    <3> QED
      BY <1>0, <1>1, <2>1, <2>2, <3>1
      DEF b_click, interrupt, local, ring, TypeOK, MostTicks
  <2>3. CASE gl_bdely = 0 /\ gl_bpend /\ gl_btrue' = 1
    BY <1>0, <1>1, <2>1, <2>3 DEF b_click, interrupt, local, ring, TypeOK
  <2>4. CASE gl_bdely = 0 /\ ~(gl_bpend /\ gl_btrue' = 1)
    <3>1. <<bchangeFork(gl_btrue', 1)>> \in Seq(Fork)
      BY <1>0, <2>1, ForkTypes
    <3>2. forkq(<<bchangeFork(gl_btrue', 1)>>)
      BY <1>1, <2>4 DEF b_click
    <3> QED
      BY <1>0, <1>1, <2>1, <2>4, <3>1, <3>2, forkqType
      DEF b_click, interrupt, local, TypeOK
  <2> QED
    BY <2>2, <2>3, <2>4
<1>2. CASE b_delay
  <2>1. gl_bdely' = gl_bdely - 1 /\ gl_bdely' \in 0 .. MostTicks /\ gl_bclick >= 1
    BY <1>0, <1>2 DEF b_delay, Minus, TypeOK, MostTicks
  <2>2. CASE UNCHANGED ring
    BY <1>0, <1>2, <2>1, <2>2 DEF b_delay, interrupt, local, ring, TypeOK, MostTicks
  <2>3. CASE forkq(DelayForks)
    BY <1>0, <1>2, <2>1, <2>3, DelayForksType, forkqType
    DEF b_delay, interrupt, local, TypeOK, MostTicks
  <2> QED
    BY <1>2, <2>2, <2>3 DEF b_delay
<1>3. CASE other_fork
  <2>1. <<[code |-> "mchange"]>> \in Seq(Fork)
    BY ForkTypes DEF NoFork
  <2> QED
    BY <1>0, <1>3, <2>1, forkqType DEF other_fork, interrupt, local, click, TypeOK
<1>4. CASE forker
  <2>1. g_fpdx[fph] \in Fork
    BY DEF TypeOK
  <2>2. button' \in {0, 1}
    BY <1>4, <2>1 DEF forker, TypeOK, Fork
  <2>3. /\ main' \in {"forker", "delay"} /\ amnt' \in {amnt, gl_bdely}
        /\ main' = "delay" => gl_bclick >= 1
    BY <1>4 DEF forker, TypeOK
  <2>4. Wrap(fph) \in 0 .. NFORKS - 1 /\ fpcnt - 1 \in 0 .. NFORKS + 1
    BY <1>0, <1>4 DEF forker, Wrap, TypeOK
  <2> QED
    BY <1>4, <2>2, <2>3, <2>4 DEF forker, click, TypeOK
<1>5. CASE delay
  <2>1. gl_bdely' \in 0 .. MostTicks /\ gl_bdely' <= gl_bdely
    BY <1>0, <1>5 DEF delay, Minus, TypeOK, MostTicks
  <2> QED
    BY <1>0, <1>5, <2>1 DEF delay, Leave, local, ring, TypeOK, MostTicks
<1>6. CASE decide
  <2>1. CASE main' = "take1"
    BY <1>6, <2>1, DelayForksType DEF decide, Leave, ring, click, TypeOK
  <2>2. CASE main' # "take1"
    BY <1>0, <1>6, <2>2 DEF decide, Leave, ring, click, TypeOK
  <2> QED
    BY <2>1, <2>2
<1>7. CASE take
  <2>1. Wrap(fpt) \in 0 .. NFORKS - 1
    BY <1>0 DEF Wrap, TypeOK
  <2>2. CASE Room(1)
    <3>1. DelayFork(main = "take1") \in Fork
      <4>1. CASE main = "take1"
        BY <4>1, DelayForksType
      <4>2. CASE main # "take1"
        <5>1. bchangeFork(gl_btrue, 1) \in Fork
          BY <1>0, ForkTypes DEF TypeOK
        <5> QED
          BY <4>2, <5>1 DEF DelayFork
      <4> QED
        BY <4>1, <4>2
    <3>2. fpcnt <= NFORKS
      BY <1>0, <2>2 DEF Room, TypeOK
    <3> QED
      BY <1>7, <2>1, <2>2, <3>1, <3>2 DEF take, click, TypeOK
  <2>3. CASE ~Room(1)
    BY <1>0, <1>7, <2>3 DEF take, After, Leave, local, click, TypeOK
  <2> QED
    BY <2>2, <2>3
<1>8. CASE put
  <2>1. [g_fpdx EXCEPT ![slot] = fpd] \in [0 .. NFORKS - 1 -> Fork]
    BY DEF TypeOK
  <2>2. fpcnt + 1 \in 0 .. NFORKS + 1
    BY <1>0, <1>8 DEF put, TypeOK
  <2> QED
    BY <1>0, <1>8, <2>1, <2>2 DEF put, After, Leave, local, click, TypeOK
<1>9. CASE bpend
  BY <1>9 DEF bpend, ring, click, local, TypeOK
<1>10. CASE UNCHANGED vars
  BY <1>10 DEF vars, ring, click, local, TypeOK
<1> QED
  BY <1>1, <1>2, <1>3, <1>4, <1>5, <1>6, <1>7, <1>8, <1>9, <1>10 DEF Next

THEOREM TypeCorrect == Spec => []TypeInv
<1> QED
  BY TypeInvInit, TypeInvStep, PTL DEF Spec

(* Every variable has its type: no index leaves the ring and fpcnt counts  *)
(* at most one fork more than it has slots.                                *)
THEOREM TypesHold == Spec => []TypeOK
<1>1. TypeInv => TypeOK
  BY DEF TypeInv
<1> QED
  BY <1>1, TypeCorrect, PTL

(***************************************************************************)
(* The ring is a queue.                                                    *)
(***************************************************************************)

(* The slot that is k slots after h. *)
SlotAfter(h, k) == (h + k) % NFORKS

(* The slot to put in is the one after the forks that are there; while     *)
(* forkq() is between its two steps it is the one that it took.            *)
QueueInv ==
  ~raced =>
    IF main \in {"put1", "put2"}
    THEN fpcnt < NFORKS /\ slot = SlotAfter(fph, fpcnt) /\ fpt = Wrap(slot)
    ELSE fpcnt <= NFORKS /\ fpt = SlotAfter(fph, fpcnt)

LEMMA SlotFacts ==
  /\ \A h \in 0 .. NFORKS - 1, k \in 0 .. NFORKS :
        SlotAfter(h, k) = IF h + k < NFORKS THEN h + k ELSE h + k - NFORKS
  /\ \A h \in 0 .. NFORKS - 1, k \in 0 .. NFORKS : SlotAfter(h, k) \in 0 .. NFORKS - 1
  /\ \A h \in 0 .. NFORKS - 1 : Wrap(h) = SlotAfter(h, 1)
<1>0. NFORKS \in Nat \ {0}
  BY RingAssumption
<1>1. ASSUME NEW h \in 0 .. NFORKS - 1, NEW k \in 0 .. NFORKS
      PROVE  SlotAfter(h, k) = IF h + k < NFORKS THEN h + k ELSE h + k - NFORKS
  <2>1. h + k \in 0 .. 2 * NFORKS - 1
    BY <1>0
  <2>2. (h + k) % NFORKS = IF h + k < NFORKS THEN h + k ELSE (h + k) - NFORKS
    BY <1>0, <2>1, ModFacts
  <2> QED
    BY <1>0, <2>2 DEF SlotAfter
<1>2. \A h \in 0 .. NFORKS - 1 : Wrap(h) = SlotAfter(h, 1)
  BY <1>0, <1>1 DEF Wrap
<1> QED
  BY <1>0, <1>1, <1>2

(* forkq() adds the forks it has room for at the end, and changes no other. *)
LEMMA forkqQueue ==
  ASSUME TypeOK, QueueInv, main = "forker", ~raced,
         NEW fs \in Seq(Fork), Len(fs) \in {1, 2}, forkq(fs)
  PROVE  /\ IsQueueStep
         /\ fpcnt' <= NFORKS /\ fpt' = SlotAfter(fph', fpcnt')
         /\ Room(Len(fs)) => fpcnt' = fpcnt + Len(fs)
         /\ Len(fs) = 1 /\ ~Room(1) => Contents' = Contents
         /\ \A i \in 1 .. fpcnt : Contents'[i] = Contents[i]
         /\ \A k \in 1 .. fpcnt' - fpcnt : Contents'[fpcnt + k] = fs[k]
<1> DEFINE n == IF fpcnt >= NFORKS THEN 0
                ELSE IF fpcnt + Len(fs) <= NFORKS THEN Len(fs) ELSE NFORKS - fpcnt
<1>0. /\ NFORKS \in Nat \ {0} /\ fph \in 0 .. NFORKS - 1 /\ fpt \in 0 .. NFORKS - 1
      /\ fpcnt \in 0 .. NFORKS /\ fpt = SlotAfter(fph, fpcnt)
  BY RingAssumption DEF TypeOK, QueueInv
<1>1. n \in {0, 1, 2} /\ fpcnt + n <= NFORKS
  <2>1. Len(fs) = 1 \/ Len(fs) = 2
    OBVIOUS
  <2>2. CASE fpcnt >= NFORKS
    BY <1>0, <2>2
  <2>3. CASE fpcnt < NFORKS /\ fpcnt + Len(fs) <= NFORKS
    BY <1>0, <2>1, <2>3
  <2>4. CASE fpcnt < NFORKS /\ ~(fpcnt + Len(fs) <= NFORKS)
    <3>1. n = NFORKS - fpcnt
      BY <1>0, <2>4
    <3>2. NFORKS - fpcnt = 1 /\ fpcnt + 1 = NFORKS
      <4> HIDE DEF n
      <4>1. fpcnt \in Nat /\ NFORKS \in Nat
        BY <1>0
      <4>2. \A a, b \in Nat, c \in {1, 2} : a < b /\ ~(a + c <= b) => b - a = 1 /\ a + 1 = b
        OBVIOUS
      <4> QED
        BY <2>4, <4>1, <4>2, Zenon
    <3>3. n = 1
      BY <3>1, <3>2, Zenon
    <3> HIDE DEF n
    <3> QED
      BY <1>0, <3>2, <3>3
  <2> QED
    BY <1>0, <2>1, <2>2, <2>3, <2>4
<1>2. g_fpdx' = Filled(fs, n) /\ fpt' = At(n) /\ fpcnt' = fpcnt + n /\ fph' = fph
  BY DEF forkq
<1> HIDE DEF n
<1>3. \A k \in 0 .. n : At(k) = SlotAfter(fph, fpcnt + k)
  <2> SUFFICES ASSUME NEW k \in 0 .. n PROVE At(k) = SlotAfter(fph, fpcnt + k)
    OBVIOUS
  <2>1. At(k) = SlotAfter(fpt, k)
    BY DEF At, SlotAfter
  <2>2. k \in 0 .. NFORKS /\ fpcnt + k \in 0 .. NFORKS
    BY <1>0, <1>1
  <2>3. /\ SlotAfter(fph, fpcnt) = IF fph + fpcnt < NFORKS THEN fph + fpcnt ELSE fph + fpcnt - NFORKS
        /\ SlotAfter(fpt, k) = IF fpt + k < NFORKS THEN fpt + k ELSE fpt + k - NFORKS
        /\ SlotAfter(fph, fpcnt + k) = IF fph + (fpcnt + k) < NFORKS THEN fph + (fpcnt + k)
                                       ELSE fph + (fpcnt + k) - NFORKS
    BY <1>0, <2>2, SlotFacts, Zenon
  <2> QED
    BY <1>0, <2>1, <2>2, <2>3
<1>4. ASSUME NEW i \in 1 .. fpcnt
      PROVE  g_fpdx'[SlotAfter(fph, i - 1)] = g_fpdx[SlotAfter(fph, i - 1)]
  <2>0. i - 1 \in 0 .. NFORKS
    BY <1>0
  <2>1. i - 1 \in 0 .. NFORKS /\ SlotAfter(fph, i - 1) \in 0 .. NFORKS - 1
    BY <1>0, <2>0, SlotFacts, Zenon
  <2>2. ~ \E k \in 0 .. n - 1 : At(k) = SlotAfter(fph, i - 1)
    <3> SUFFICES ASSUME NEW k \in 0 .. n - 1 PROVE At(k) # SlotAfter(fph, i - 1)
      OBVIOUS
    <3>1. At(k) = SlotAfter(fph, fpcnt + k) /\ fpcnt + k \in 0 .. NFORKS - 1 /\ i - 1 < fpcnt + k
      BY <1>0, <1>1, <1>3
    <3>2. fpcnt + k \in 0 .. NFORKS
      BY <1>0, <3>1
    <3>3. /\ SlotAfter(fph, i - 1) = IF fph + (i - 1) < NFORKS THEN fph + (i - 1)
                                     ELSE fph + (i - 1) - NFORKS
          /\ SlotAfter(fph, fpcnt + k) = IF fph + (fpcnt + k) < NFORKS THEN fph + (fpcnt + k)
                                         ELSE fph + (fpcnt + k) - NFORKS
      BY <1>0, <2>1, <3>2, SlotFacts, Zenon
    <3> QED
      BY <1>0, <2>1, <3>1, <3>2, <3>3
  <2>3. DOMAIN g_fpdx = 0 .. NFORKS - 1
    BY DEF TypeOK
  <2> QED
    BY <1>2, <2>1, <2>2, <2>3 DEF Filled
<1>5. /\ Contents = [i \in 1 .. fpcnt |-> g_fpdx[SlotAfter(fph, i - 1)]]
      /\ Contents' = [i \in 1 .. fpcnt + n |-> g_fpdx'[SlotAfter(fph, i - 1)]]
  <2>1. ASSUME NEW i \in Int PROVE fph + i - 1 = fph + (i - 1)
    BY <1>0
  <2>2. \A i \in 1 .. fpcnt + n : (fph + i - 1) % NFORKS = SlotAfter(fph, i - 1)
    BY <2>1 DEF SlotAfter
  <2>3. \A i \in 1 .. fpcnt : i \in 1 .. fpcnt + n
    BY <1>0, <1>1
  <2> QED
    BY <1>2, <2>2, <2>3 DEF Contents
<1>6. Len(Contents) = fpcnt /\ Len(Contents') = fpcnt + n
  <2>1. fpcnt \in Nat /\ fpcnt + n \in Nat
    BY <1>0, <1>1
  <2> QED
    BY <1>5, <2>1
<1>7. ASSUME n = 0
      PROVE  IsQueueStep
  <2>1. fpcnt + n = fpcnt
    BY <1>0, <1>7
  <2>2. Contents' = Contents
    BY <1>4, <1>5, <2>1
  <2> QED
    BY <2>2, Zenon DEF IsQueueStep
<1>8. ASSUME n # 0
      PROVE  IsQueueStep
  <2>1. SubSeq(Contents', 1, fpcnt) = Contents
    <3>1. SubSeq(Contents', 1, fpcnt) = [i \in 1 .. fpcnt |-> Contents'[i]]
      BY <1>0, <1>1, <1>5, <1>6
    <3>2. \A i \in 1 .. fpcnt : Contents'[i] = Contents[i]
      BY <1>0, <1>1, <1>4, <1>5
    <3>3. Contents = [i \in 1 .. fpcnt |-> Contents[i]]
      BY <1>5
    <3> QED
      BY <3>1, <3>2, <3>3
  <2>2. Len(Contents') - Len(Contents) \in {1, 2}
    BY <1>0, <1>1, <1>6, <1>8
  <2>3. SubSeq(Contents', 1, Len(Contents)) = Contents
    BY <1>6, <2>1, Zenon
  <2> QED
    BY <2>2, <2>3, Zenon DEF IsQueueStep
<1>9. fpcnt' <= NFORKS /\ fpt' = SlotAfter(fph', fpcnt')
  BY <1>0, <1>1, <1>2, <1>3
<1>10. IsQueueStep
  BY <1>7, <1>8, Zenon
<1>11. Room(Len(fs)) => fpcnt' = fpcnt + Len(fs)
  <2> SUFFICES ASSUME Room(Len(fs)) PROVE fpcnt' = fpcnt + Len(fs)
    OBVIOUS
  <2>0. (Len(fs) = 1 \/ Len(fs) = 2) /\ fpcnt + Len(fs) <= NFORKS
    BY DEF Room
  <2>a. fpcnt \in Nat /\ NFORKS \in Nat
    BY <1>0
  <2>b. Len(fs) \in Nat \ {0}
    BY <2>0
  <2>1. fpcnt < NFORKS /\ ~(fpcnt >= NFORKS)
    <3> DEFINE k == Len(fs)
    <3>1. k \in Nat \ {0} /\ fpcnt + k <= NFORKS
      BY <2>0, <2>b
    <3> HIDE DEF k
    <3> QED
      BY <2>a, <3>1
  <2>2. n = Len(fs)
    BY <2>0, <2>1, Zenon DEF n
  <2> QED
    BY <1>2, <2>2
<1>12. Len(fs) = 1 /\ ~Room(1) => Contents' = Contents
  <2> SUFFICES ASSUME ~Room(1) PROVE Contents' = Contents
    OBVIOUS
  <2>1. fpcnt = NFORKS
    BY <1>0 DEF Room
  <2>2. n = 0
    BY <1>0, <2>1 DEF n
  <2>3. fpcnt + n = fpcnt
    BY <1>0, <2>2
  <2> QED
    BY <1>4, <1>5, <2>3
<1>13. \A i \in 1 .. fpcnt : Contents'[i] = Contents[i]
  BY <1>0, <1>1, <1>4, <1>5
<1>14. ASSUME NEW k \in 1 .. fpcnt' - fpcnt
       PROVE  Contents'[fpcnt + k] = fs[k]
  <2>1. k - 1 \in 0 .. n - 1 /\ k \in 1 .. n /\ fpcnt + k \in 1 .. fpcnt + n
        /\ (fpcnt + k) - 1 = fpcnt + (k - 1) /\ fpcnt + (k - 1) \in 0 .. NFORKS - 1
    BY <1>0, <1>1, <1>2
  <2>2. Contents'[fpcnt + k] = g_fpdx'[At(k - 1)]
    <3>1. Contents'[fpcnt + k] = g_fpdx'[SlotAfter(fph, (fpcnt + k) - 1)]
      BY <1>5, <2>1
    <3>2. k - 1 \in 0 .. n
      BY <2>1, <1>1
    <3>3. At(k - 1) = SlotAfter(fph, fpcnt + (k - 1))
      BY <1>3, <3>2
    <3> QED
      BY <2>1, <3>1, <3>3, Zenon
  <2>3. \A j \in 0 .. n - 1 : At(j) = At(k - 1) => j = k - 1
    <3> SUFFICES ASSUME NEW j \in 0 .. n - 1, At(j) = At(k - 1) PROVE j = k - 1
      OBVIOUS
    <3>1. /\ fpcnt + j \in 0 .. NFORKS - 1 /\ fpcnt + j \in 0 .. NFORKS
          /\ fpcnt + (k - 1) \in 0 .. NFORKS /\ j \in Int /\ j \in 0 .. n
          /\ k - 1 \in 0 .. n
      BY <1>0, <1>1, <2>1
    <3>2. SlotAfter(fph, fpcnt + j) = SlotAfter(fph, fpcnt + (k - 1))
      BY <1>3, <3>1
    <3>3. /\ SlotAfter(fph, fpcnt + j) = IF fph + (fpcnt + j) < NFORKS THEN fph + (fpcnt + j)
                                         ELSE fph + (fpcnt + j) - NFORKS
          /\ SlotAfter(fph, fpcnt + (k - 1)) =
               IF fph + (fpcnt + (k - 1)) < NFORKS THEN fph + (fpcnt + (k - 1))
               ELSE fph + (fpcnt + (k - 1)) - NFORKS
      BY <1>0, <3>1, SlotFacts, Zenon
    <3> QED
      BY <1>0, <2>1, <3>1, <3>2, <3>3
  <2>4. At(k - 1) \in DOMAIN g_fpdx
    <3>1. k - 1 \in 0 .. n /\ fpcnt + (k - 1) \in 0 .. NFORKS
      BY <1>0, <1>1, <2>1
    <3> QED
      BY <1>0, <1>3, <3>1, SlotFacts DEF TypeOK
  <2>5. (CHOOSE j \in 0 .. n - 1 : At(j) = At(k - 1)) = k - 1
    BY <2>1, <2>3
  <2>6. g_fpdx'[At(k - 1)] = fs[1 + (k - 1)]
    BY <1>2, <2>1, <2>4, <2>5 DEF Filled
  <2>7. 1 + (k - 1) = k
    BY <2>1
  <2> QED
    BY <2>2, <2>6, <2>7
<1> QED
  BY <1>9, <1>10, <1>11, <1>12, <1>13, <1>14, Zenon

(* forker() takes the oldest fork. *)
LEMMA forkerQueue ==
  ASSUME TypeInv, QueueInv, forker
  PROVE  ~raced => /\ Contents # <<>> /\ Contents' = Tail(Contents)
                   /\ fpcnt' <= NFORKS /\ fpt' = SlotAfter(fph', fpcnt')
<1> SUFFICES ASSUME ~raced
             PROVE  /\ Contents # <<>> /\ Contents' = Tail(Contents)
                    /\ fpcnt' <= NFORKS /\ fpt' = SlotAfter(fph', fpcnt')
  OBVIOUS
<1>0. /\ NFORKS \in Nat \ {0} /\ fph \in 0 .. NFORKS - 1 /\ fpcnt \in 1 .. NFORKS
      /\ fpt = SlotAfter(fph, fpcnt)
  BY RingAssumption DEF TypeInv, TypeOK, QueueInv, forker
<1>1. fpcnt' = fpcnt - 1 /\ fph' = Wrap(fph) /\ fph' = SlotAfter(fph, 1) /\ g_fpdx' = g_fpdx
      /\ fpt' = fpt /\ fph' \in 0 .. NFORKS - 1
  BY <1>0, SlotFacts DEF forker
<1>2. ASSUME NEW i \in 0 .. fpcnt - 1
      PROVE  SlotAfter(fph', i) = SlotAfter(fph, i + 1)
  <2>1. i \in 0 .. NFORKS /\ i + 1 \in 0 .. NFORKS /\ 1 \in 0 .. NFORKS
    BY <1>0
  <2>2. /\ SlotAfter(fph, 1) = IF fph + 1 < NFORKS THEN fph + 1 ELSE fph + 1 - NFORKS
        /\ SlotAfter(fph', i) = IF fph' + i < NFORKS THEN fph' + i ELSE fph' + i - NFORKS
        /\ SlotAfter(fph, i + 1) = IF fph + (i + 1) < NFORKS THEN fph + (i + 1)
                                   ELSE fph + (i + 1) - NFORKS
    BY <1>0, <1>1, <2>1, SlotFacts, Zenon
  <2> QED
    BY <1>0, <1>1, <2>1, <2>2
<1>3. fpcnt' <= NFORKS /\ fpt' = SlotAfter(fph', fpcnt')
  <2>1. fpcnt - 1 \in 0 .. fpcnt - 1 /\ (fpcnt - 1) + 1 = fpcnt /\ fpcnt - 1 <= NFORKS
    BY <1>0
  <2>2. SlotAfter(fph', fpcnt - 1) = SlotAfter(fph, fpcnt)
    BY <1>2, <2>1
  <2> QED
    BY <1>0, <1>1, <2>1, <2>2
<1>4. /\ Contents = [i \in 1 .. fpcnt |-> g_fpdx[SlotAfter(fph, i - 1)]]
      /\ Contents' = [i \in 1 .. fpcnt - 1 |-> g_fpdx[SlotAfter(fph', i - 1)]]
  <2>1. \A i \in 1 .. fpcnt : (fph + i - 1) % NFORKS = SlotAfter(fph, i - 1)
    <3>1. \A i \in Int : fph + i - 1 = fph + (i - 1)
      BY <1>0
    <3> QED
      BY <3>1 DEF SlotAfter
  <2>2. \A i \in 1 .. fpcnt - 1 : (fph' + i - 1) % NFORKS = SlotAfter(fph', i - 1)
    <3>1. \A i \in Int : fph' + i - 1 = fph' + (i - 1)
      BY <1>1
    <3> QED
      BY <3>1 DEF SlotAfter
  <2> QED
    BY <1>1, <2>1, <2>2 DEF Contents
<1>5. Contents # <<>> /\ Contents' = Tail(Contents)
  <2>1. \A i \in 1 .. fpcnt - 1 : g_fpdx[SlotAfter(fph', i - 1)] = g_fpdx[SlotAfter(fph, (i + 1) - 1)]
    <3> SUFFICES ASSUME NEW i \in 1 .. fpcnt - 1
                 PROVE  SlotAfter(fph', i - 1) = SlotAfter(fph, (i + 1) - 1)
      OBVIOUS
    <3>1. i - 1 \in 0 .. fpcnt - 1 /\ (i - 1) + 1 = (i + 1) - 1
      BY <1>0
    <3> QED
      BY <1>2, <3>1
  <2>2. \A i \in 1 .. fpcnt - 1 : Contents[i + 1] = g_fpdx[SlotAfter(fph, (i + 1) - 1)]
    BY <1>0, <1>4
  <2>3. Contents \in Seq(Fork) /\ Len(Contents) = fpcnt /\ Contents # <<>>
    <3>1. \A i \in 1 .. fpcnt : i - 1 \in 0 .. NFORKS
      BY <1>0
    <3>2. \A i \in 1 .. fpcnt : g_fpdx[SlotAfter(fph, i - 1)] \in Fork
      BY <1>0, <3>1, SlotFacts DEF TypeInv, TypeOK
    <3>3. Contents \in [1 .. fpcnt -> Fork]
      BY <1>4, <3>2
    <3> QED
      BY <1>0, <3>3
  <2>4. /\ Tail(Contents) \in Seq(Fork) /\ Len(Tail(Contents)) = fpcnt - 1
        /\ \A i \in 1 .. fpcnt - 1 : Tail(Contents)[i] = Contents[i + 1]
    BY <2>3, HeadTailProperties
  <2>5. Tail(Contents) = [i \in 1 .. fpcnt - 1 |-> Tail(Contents)[i]]
    <3>1. \A s \in Seq(Fork) : s = [i \in 1 .. Len(s) |-> s[i]]
      OBVIOUS
    <3>2. Tail(Contents) = [i \in 1 .. Len(Tail(Contents)) |-> Tail(Contents)[i]]
      BY <2>4, <3>1, Zenon
    <3> QED
      BY <2>4, <3>2, Zenon
  <2>6. \A i \in 1 .. fpcnt - 1 : Tail(Contents)[i] = g_fpdx[SlotAfter(fph', i - 1)]
    BY <2>1, <2>2, <2>4, Zenon
  <2>7. Contents' = Tail(Contents)
    BY <1>4, <2>5, <2>6
  <2> QED
    BY <2>3, <2>7
<1> QED
  BY <1>3, <1>5, Zenon

LEMMA QueueInvInit == Init => QueueInv
<1> SUFFICES ASSUME Init PROVE QueueInv
  OBVIOUS
<1>1. NFORKS \in Nat \ {0} /\ 0 \in 0 .. NFORKS - 1 /\ 0 \in 0 .. NFORKS
  BY RingAssumption
<1>2. SlotAfter(0, 0) = 0
  BY <1>1, SlotFacts
<1> QED
  BY <1>1, <1>2 DEF Init, QueueInv

(* A step keeps the invariant, and is one of a queue if it is not in       *)
(* mchange()'s call of b_delay().                                          *)
LEMMA QueueInvStep ==
  ASSUME TypeInv, TypeInv', QueueInv, [Next]_vars
  PROVE  /\ QueueInv'
         /\ main = "forker" /\ main' = "forker" /\ ~raced' => IsQueueStep
<1> SUFFICES ASSUME ~raced'
             PROVE  QueueInv' /\ (main = "forker" /\ main' = "forker" => IsQueueStep)
  BY DEF QueueInv
<1>0. TypeOK /\ ~raced
  <2>1. raced => raced'
    BY  DEF Next, vars, b_click, b_delay, other_fork, interrupt, forker, delay,
       decide, take, put, bpend
  <2> QED
    BY <2>1, Zenon DEF TypeInv
<1>1. ASSUME b_click \/ b_delay \/ other_fork
      PROVE  main = "forker" /\ main' = "forker" /\ UNCHANGED local
  BY <1>1, Zenon DEF b_click, b_delay, other_fork, interrupt
<1>2. ASSUME NEW fs \in Seq(Fork), Len(fs) \in {1, 2}, forkq(fs),
             main = "forker", main' = "forker"
      PROVE  QueueInv' /\ IsQueueStep
  <2>1. IsQueueStep /\ fpcnt' <= NFORKS /\ fpt' = SlotAfter(fph', fpcnt')
    BY <1>0, <1>2, forkqQueue
  <2> QED
    BY <1>2, <2>1 DEF QueueInv, SlotAfter
<1>3. ASSUME UNCHANGED ring, main = "forker", main' = "forker"
      PROVE  QueueInv' /\ IsQueueStep
  <2>1. Contents' = Contents
    BY <1>3 DEF ring, Contents
  <2>2. QueueInv'
    BY <1>0, <1>3 DEF ring, QueueInv, SlotAfter
  <2> QED
    BY <2>1, <2>2, Zenon DEF IsQueueStep
<1>4. CASE b_click
  <2>1. UNCHANGED ring \/ forkq(<<bchangeFork(gl_btrue', 1)>>)
    BY <1>4, Zenon DEF b_click
  <2>2. bchangeFork(gl_btrue', 1) \in Fork
    <3>1. gl_btrue' \in {0, 1}
      BY DEF TypeInv, TypeOK
    <3>2. 1 \in 1 .. MaxClicks
      BY RingAssumption
    <3> QED
      BY <3>1, <3>2, ForkTypes
  <2>3. <<bchangeFork(gl_btrue', 1)>> \in Seq(Fork) /\ Len(<<bchangeFork(gl_btrue', 1)>>) \in {1, 2}
    BY <2>2
  <2> QED
    BY <1>1, <1>2, <1>3, <1>4, <2>1, <2>3
<1>5. CASE b_delay
  <2>1. UNCHANGED ring \/ forkq(DelayForks)
    BY <1>5, Zenon DEF b_delay
  <2>2. gl_bclick >= 1
    BY <1>5 DEF b_delay, TypeInv
  <2> QED
    BY <1>0, <1>1, <1>2, <1>3, <1>5, <2>1, <2>2, DelayForksType
<1>6. CASE other_fork
  <2>1. <<NoFork>> \in Seq(Fork) /\ Len(<<NoFork>>) \in {1, 2}
    BY ForkTypes
  <2>2. forkq(<<NoFork>>)
    BY <1>6, Zenon DEF other_fork, NoFork
  <2> QED
    BY <1>1, <1>2, <1>6, <2>1, <2>2
<1>7. CASE forker
  <2>1. IsQueueStep /\ fpcnt' <= NFORKS /\ fpt' = SlotAfter(fph', fpcnt')
    BY <1>0, <1>7, forkerQueue, Zenon DEF IsQueueStep
  <2>2. main' \in {"forker", "delay"}
    BY <1>7 DEF forker
  <2> QED
    BY <2>1, <2>2 DEF QueueInv, SlotAfter
<1>8. CASE delay
  <2>1. main = "delay" /\ main' \in {"forker", "decide"} /\ UNCHANGED ring
    BY <1>8 DEF delay, Leave
  <2> QED
    BY <1>0, <2>1 DEF ring, QueueInv, SlotAfter
<1>9. CASE decide
  <2>1. main = "decide" /\ main' \in {"forker", "take1"} /\ UNCHANGED ring
    BY <1>9 DEF decide, Leave
  <2> QED
    BY <1>0, <2>1 DEF ring, QueueInv, SlotAfter
<1>10. CASE take
  <2>1. main \in {"take1", "take2"} /\ UNCHANGED <<fph, fpcnt>>
    BY <1>10 DEF take
  <2>2. fpcnt \in 0 .. NFORKS /\ fpt = SlotAfter(fph, fpcnt) /\ NFORKS \in Nat
    BY <1>0, <2>1, RingAssumption DEF QueueInv, TypeOK
  <2>3. CASE Room(1)
    <3>1. fpcnt < NFORKS
      BY <2>2, <2>3 DEF Room
    <3>2. main' \in {"put1", "put2"} /\ slot' = fpt /\ fpt' = Wrap(slot')
      BY <1>10, <2>3 DEF take, Wrap
    <3> QED
      BY <2>1, <2>2, <3>1, <3>2 DEF QueueInv, SlotAfter, Wrap
  <2>4. CASE ~Room(1)
    <3>1. main' \in {"forker", "take2"} /\ fpt' = fpt
      BY <1>10, <2>4 DEF take, After, Leave
    <3> QED
      BY <2>1, <2>2, <3>1 DEF QueueInv, SlotAfter
  <2> QED
    BY <2>3, <2>4
<1>11. CASE put
  <2>1. /\ main \in {"put1", "put2"} /\ main' \in {"forker", "take2"}
        /\ UNCHANGED <<fph, fpt>> /\ fpcnt' = fpcnt + 1
    BY <1>11 DEF put, After, Leave
  <2>2. /\ fpcnt < NFORKS /\ slot = SlotAfter(fph, fpcnt) /\ fpt = Wrap(slot)
        /\ fpcnt \in Nat /\ NFORKS \in Nat \ {0} /\ fph \in 0 .. NFORKS - 1
    BY <1>0, <2>1, RingAssumption DEF QueueInv, TypeOK
  <2>3. fpt = SlotAfter(fph, fpcnt + 1)
    <3>1. fpcnt \in 0 .. NFORKS /\ fpcnt + 1 \in 0 .. NFORKS
      BY <2>2
    <3>2. /\ SlotAfter(fph, fpcnt) = IF fph + fpcnt < NFORKS THEN fph + fpcnt
                                     ELSE fph + fpcnt - NFORKS
          /\ SlotAfter(fph, fpcnt + 1) = IF fph + (fpcnt + 1) < NFORKS THEN fph + (fpcnt + 1)
                                         ELSE fph + (fpcnt + 1) - NFORKS
      BY <2>2, <3>1, SlotFacts, Zenon
    <3> QED
      BY <2>2, <3>1, <3>2 DEF Wrap
  <2> QED
    BY <2>1, <2>2, <2>3 DEF QueueInv, SlotAfter
<1>12. CASE bpend
  BY <1>3, <1>12 DEF bpend
<1>13. CASE UNCHANGED vars
  <2>1. CASE main = "forker"
    BY <1>3, <1>13, <2>1 DEF vars
  <2>2. CASE main # "forker"
    BY <1>0, <1>13, <2>2 DEF vars, ring, local, QueueInv, SlotAfter, Wrap
  <2> QED
    BY <2>1, <2>2
<1> QED
  BY <1>4, <1>5, <1>6, <1>7, <1>8, <1>9, <1>10, <1>11, <1>12, <1>13 DEF Next

(* The ring is a queue until an interrupt has come in mchange()'s call of  *)
(* b_delay(): forker() takes the oldest fork, forkq() adds behind the last *)
(* and a full ring loses none that it has.                                 *)
THEOREM QueueHolds == Spec => RingIsQueue
<1>1. TypeInv /\ QueueInv /\ [Next]_vars => QueueInv'
  BY TypeInvStep, QueueInvStep
<1>2. TypeInv /\ QueueInv /\ [Next]_vars
        => [main = "forker" /\ main' = "forker" /\ ~raced' => IsQueueStep]_vars
  BY TypeInvStep, QueueInvStep
<1> QED
  BY <1>1, <1>2, QueueInvInit, TypeCorrect, PTL DEF Spec, RingIsQueue

(***************************************************************************)
(* The button is not stuck.                                                *)
(***************************************************************************)

(* The last that the forks s, or b if none of them is of the button, tell  *)
(* of the button is at most x.                                             *)
TellsLast(s, i) == s[i].code = "bchange" /\ \A j \in DOMAIN s : j > i => s[j].code # "bchange"

Told(s, b, x) ==
  /\ \A i \in DOMAIN s : TellsLast(s, i) => s[i].state <= x
  /\ (\A i \in DOMAIN s : s[i].code # "bchange") => b <= x

LEMMA ForkFields ==
  \A f \in Fork : f.code \in {"bchange", "mchange"} /\ (f.code = "bchange" => f.state \in {0, 1})
  BY DEF Fork

LEMMA ToldMore ==
  ASSUME NEW s \in Seq(Fork), NEW b \in {0, 1}, NEW x \in {0, 1}, NEW y \in {0, 1},
         x <= y, Told(s, b, x)
  PROVE  Told(s, b, y)
<1>1. \A i \in DOMAIN s : s[i] \in Fork
  OBVIOUS
<1>2. ASSUME NEW i \in DOMAIN s, TellsLast(s, i)
      PROVE  s[i].state <= y
  <2>1. s[i].state \in {0, 1} /\ s[i].state <= x
    BY <1>1, <1>2, ForkFields DEF Told, TellsLast
  <2> QED
    BY <2>1
<1>3. ASSUME \A i \in DOMAIN s : s[i].code # "bchange"
      PROVE  b <= y
  BY <1>3 DEF Told
<1> QED
  BY <1>2, <1>3 DEF Told

LEMMA ToldLast ==
  ASSUME NEW t \in Seq(Fork), t # <<>>, NEW b \in {0, 1}, NEW x \in {0, 1},
         t[Len(t)].code = "bchange", t[Len(t)].state <= x
  PROVE  Told(t, b, x)
<1>1. Len(t) \in DOMAIN t /\ DOMAIN t = 1 .. Len(t) /\ Len(t) \in Nat
  OBVIOUS
<1>2. ASSUME NEW i \in DOMAIN t, TellsLast(t, i)
      PROVE  i = Len(t)
  BY <1>1, <1>2 DEF TellsLast
<1> QED
  BY <1>1, <1>2 DEF Told

LEMMA ToldOneMore ==
  ASSUME NEW s \in Seq(Fork), NEW t \in Seq(Fork), NEW b \in {0, 1}, NEW x \in {0, 1},
         Len(t) = Len(s) + 1, \A i \in 1 .. Len(s) : t[i] = s[i],
         t[Len(s) + 1].code # "bchange", Told(s, b, x)
  PROVE  Told(t, b, x)
<1>1. /\ DOMAIN t = 1 .. Len(s) + 1 /\ DOMAIN s = 1 .. Len(s) /\ Len(s) \in Nat
      /\ \A i \in DOMAIN t : i # Len(s) + 1 => i \in DOMAIN s
  OBVIOUS
<1>2. ASSUME NEW i \in DOMAIN t, TellsLast(t, i)
      PROVE  t[i].state <= x
  <2>1. i \in DOMAIN s
    BY <1>1, <1>2 DEF TellsLast
  <2>2. TellsLast(s, i)
    BY <1>1, <1>2, <2>1 DEF TellsLast
  <2> QED
    BY <1>1, <2>1, <2>2 DEF Told
<1>3. ASSUME \A i \in DOMAIN t : t[i].code # "bchange"
      PROVE  b <= x
  <2>1. \A i \in DOMAIN s : s[i].code # "bchange"
    BY <1>1, <1>3
  <2> QED
    BY <2>1 DEF Told
<1> QED
  BY <1>2, <1>3 DEF Told

LEMMA ToldTail ==
  ASSUME NEW s \in Seq(Fork), s # <<>>, NEW b \in {0, 1}, NEW x \in {0, 1}, Told(s, b, x),
         NEW c \in {0, 1},
         IF s[1].code = "bchange" THEN c = s[1].state ELSE c = b
  PROVE  Told(Tail(s), c, x)
<1>1. /\ Len(s) \in Nat \ {0} /\ DOMAIN s = 1 .. Len(s) /\ DOMAIN Tail(s) = 1 .. Len(s) - 1
      /\ \A i \in DOMAIN Tail(s) : Tail(s)[i] = s[i + 1] /\ i + 1 \in DOMAIN s
      /\ \A j \in DOMAIN s : j > 1 => j - 1 \in DOMAIN Tail(s) /\ Tail(s)[j - 1] = s[j]
      /\ 1 \in DOMAIN s
  <2>1. /\ Tail(s) \in Seq(Fork) /\ Len(Tail(s)) = Len(s) - 1
        /\ \A i \in 1 .. Len(Tail(s)) : Tail(s)[i] = s[i + 1]
    BY HeadTailProperties
  <2>2. /\ Len(s) \in Nat \ {0} /\ DOMAIN s = 1 .. Len(s)
        /\ DOMAIN Tail(s) = 1 .. Len(s) - 1 /\ 1 \in DOMAIN s
    BY <2>1
  <2>3. ASSUME NEW j \in DOMAIN s, j > 1
        PROVE  j - 1 \in DOMAIN Tail(s) /\ Tail(s)[j - 1] = s[j]
    <3>1. j - 1 \in 1 .. Len(s) - 1 /\ (j - 1) + 1 = j
      BY <2>2, <2>3
    <3> QED
      BY <2>1, <2>2, <3>1
  <2> QED
    BY <2>1, <2>2, <2>3
<1>2. ASSUME NEW i \in DOMAIN Tail(s), TellsLast(Tail(s), i)
      PROVE  Tail(s)[i].state <= x
  <2>1. ASSUME NEW j \in DOMAIN s, j > i + 1
        PROVE  s[j].code # "bchange"
    <3>1. j > 1 /\ j - 1 > i
      BY <1>1, <2>1
    <3> QED
      BY <1>1, <1>2, <2>1, <3>1 DEF TellsLast
  <2>2. TellsLast(s, i + 1)
    BY <1>1, <1>2, <2>1 DEF TellsLast
  <2> QED
    BY <1>1, <2>2 DEF Told
<1>3. ASSUME \A i \in DOMAIN Tail(s) : Tail(s)[i].code # "bchange"
      PROVE  c <= x
  <2>1. \A j \in DOMAIN s : j > 1 => s[j].code # "bchange"
    BY <1>1, <1>3
  <2>2. CASE s[1].code = "bchange"
    <3>1. TellsLast(s, 1)
      BY <2>1, <2>2 DEF TellsLast
    <3> QED
      BY <1>1, <2>2, <3>1 DEF Told
  <2>3. CASE s[1].code # "bchange"
    <3>1. \A j \in DOMAIN s : j = 1 \/ j > 1
      BY <1>1
    <3>2. \A j \in DOMAIN s : s[j].code # "bchange"
      BY <2>1, <2>3, <3>1
    <3> QED
      BY <2>3, <3>2 DEF Told
  <2> QED
    BY <2>2, <2>3
<1> QED
  BY <1>2, <1>3 DEF Told

(* The forks in the ring, and what put() makes of them. *)
LEMMA ContentsType ==
  TypeOK /\ fpcnt <= NFORKS => Contents \in Seq(Fork) /\ Len(Contents) = fpcnt
<1> SUFFICES ASSUME TypeOK, fpcnt <= NFORKS
             PROVE  Contents \in Seq(Fork) /\ Len(Contents) = fpcnt
  OBVIOUS
<1>0. NFORKS \in Nat \ {0} /\ fph \in 0 .. NFORKS - 1 /\ fpcnt \in 0 .. NFORKS
  BY RingAssumption DEF TypeOK
<1>1. ASSUME NEW i \in 1 .. fpcnt
      PROVE  g_fpdx[(fph + i - 1) % NFORKS] \in Fork
  <2>1. i - 1 \in 0 .. NFORKS /\ fph + i - 1 = fph + (i - 1)
    BY <1>0
  <2>2. (fph + i - 1) % NFORKS \in 0 .. NFORKS - 1
    BY <1>0, <2>1, SlotFacts DEF SlotAfter
  <2> QED
    BY <2>2 DEF TypeOK
<1>2. Contents \in [1 .. fpcnt -> Fork]
  BY <1>1 DEF Contents
<1> QED
  BY <1>0, <1>2

LEMMA ContentsTypeNext ==
  (TypeOK /\ fpcnt <= NFORKS => Contents \in Seq(Fork) /\ Len(Contents) = fpcnt)'
<1> QED
  BY ContentsType, PTL

LEMMA putContents ==
  ASSUME TypeInv, TypeInv', QueueInv, QueueInv', ~raced, put
  PROVE  /\ Contents \in Seq(Fork) /\ Contents' \in Seq(Fork)
         /\ Len(Contents') = Len(Contents) + 1
         /\ Contents'[Len(Contents')] = fpd
<1>0. /\ NFORKS \in Nat \ {0} /\ fph \in 0 .. NFORKS - 1 /\ fpcnt \in 0 .. NFORKS - 1
      /\ slot = SlotAfter(fph, fpcnt) /\ slot \in 0 .. NFORKS - 1
      /\ fpcnt' = fpcnt + 1 /\ fph' = fph /\ g_fpdx' = [g_fpdx EXCEPT ![slot] = fpd]
      /\ DOMAIN g_fpdx = 0 .. NFORKS - 1
  BY RingAssumption DEF put, QueueInv, TypeInv, TypeOK
<1>1. fpcnt <= NFORKS /\ fpcnt' <= NFORKS
  BY <1>0
<1>2. Contents \in Seq(Fork) /\ Len(Contents) = fpcnt
  BY <1>1, ContentsType DEF TypeInv
<1>3. Contents' \in Seq(Fork) /\ Len(Contents') = fpcnt'
  <2>1. TypeOK' /\ (fpcnt <= NFORKS)'
    BY <1>1 DEF TypeInv
  <2> QED
    BY <2>1, ContentsTypeNext
<1>4. Contents'[fpcnt + 1] = fpd
  <2>1. (fph + (fpcnt + 1) - 1) % NFORKS = slot
    <3>1. fph + (fpcnt + 1) - 1 = fph + fpcnt
      BY <1>0
    <3> QED
      BY <1>0, <3>1 DEF SlotAfter
  <2>2. Contents'[fpcnt + 1] = g_fpdx'[(fph + (fpcnt + 1) - 1) % NFORKS]
    BY <1>0 DEF Contents
  <2> QED
    BY <1>0, <2>1, <2>2
<1> QED
  BY <1>0, <1>2, <1>3, <1>4

(* While the button is let go of and counted, the forks tell nothing but   *)
(* that it is up; in b_delay() there is room for the forks that are made,  *)
(* and the last of them tells the true state.                              *)
ToldInv ==
  ~raced /\ ~refused =>
    /\ main = "forker" => Told(Contents, button, IF gl_bdely # 0 THEN 0 ELSE gl_btrue)
    /\ main = "delay" => gl_bdely = amnt /\ gl_bdely # 0
    /\ main \in {"decide", "take1", "put1", "take2", "put2"} => gl_bdely = 0
    /\ main \in {"delay", "decide", "take1", "put1"} => Told(Contents, button, 0)
    /\ main \in {"take1", "put1"} =>
         fpcnt + calls <= NFORKS /\ (calls = 1 => gl_bdesired = gl_btrue)
    /\ main = "put1" => fpd.code = "bchange" /\ fpd.state = gl_bdesired
    /\ main \in {"take2", "put2"} => fpcnt < NFORKS
    /\ main = "put2" => fpd.code = "bchange" /\ fpd.state = gl_btrue

LEMMA ToldInvInit == Init => ToldInv
<1> SUFFICES ASSUME Init PROVE ToldInv
  OBVIOUS
<1>1. Contents = <<>>
  BY DEF Init, Contents
<1>2. Told(<<>>, 0, 0)
  BY DEF Told
<1> QED
  BY <1>1, <1>2 DEF Init, ToldInv

(* b_click() and b_delay() put the true state last; other_fork() says      *)
(* nothing of the button.                                                  *)
LEMMA forkqTold ==
  ASSUME TypeInv, TypeInv', QueueInv, main = "forker", ~raced,
         NEW fs \in Seq(Fork), Len(fs) \in {1, 2}, forkq(fs), NEW x \in {0, 1}
  PROVE  /\ Room(Len(fs)) /\ fs[Len(fs)].code = "bchange" /\ fs[Len(fs)].state <= x
              => Told(Contents', button, x)
         /\ Len(fs) = 1 /\ fs[1].code # "bchange" /\ Told(Contents, button, x)
              => Told(Contents', button, x)
<1>1. /\ fpcnt' <= NFORKS
      /\ Room(Len(fs)) => fpcnt' = fpcnt + Len(fs)
      /\ Len(fs) = 1 /\ ~Room(1) => Contents' = Contents
      /\ \A i \in 1 .. fpcnt : Contents'[i] = Contents[i]
      /\ \A k \in 1 .. fpcnt' - fpcnt : Contents'[fpcnt + k] = fs[k]
  BY forkqQueue DEF TypeInv
<1>2. fpcnt \in 0 .. NFORKS /\ fpcnt' \in Nat /\ button \in {0, 1} /\ NFORKS \in Nat
  BY RingAssumption DEF TypeInv, TypeOK, QueueInv
<1>3. Contents \in Seq(Fork) /\ Len(Contents) = fpcnt
  BY <1>2, ContentsType DEF TypeInv
<1>4. Contents' \in Seq(Fork) /\ Len(Contents') = fpcnt'
  BY <1>1, ContentsTypeNext DEF TypeInv
<1>5. ASSUME Room(Len(fs)), fs[Len(fs)].code = "bchange", fs[Len(fs)].state <= x
      PROVE  Told(Contents', button, x)
  <2>1. /\ Len(fs) \in Nat \ {0} /\ fpcnt' = fpcnt + Len(fs)
        /\ Len(fs) \in 1 .. fpcnt' - fpcnt
    BY <1>1, <1>2, <1>5
  <2>2. Contents'[Len(Contents')] = fs[Len(fs)] /\ Contents' # <<>>
    BY <1>1, <1>2, <1>4, <2>1
  <2> QED
    BY <1>2, <1>4, <1>5, <2>2, ToldLast
<1>6. ASSUME Len(fs) = 1, fs[1].code # "bchange", Told(Contents, button, x)
      PROVE  Told(Contents', button, x)
  <2>1. CASE Room(1)
    <3>1. fpcnt' = fpcnt + 1 /\ 1 \in 1 .. fpcnt' - fpcnt
      BY <1>1, <1>2, <1>6, <2>1
    <3>2. /\ Len(Contents') = Len(Contents) + 1
          /\ \A i \in 1 .. Len(Contents) : Contents'[i] = Contents[i]
          /\ Contents'[Len(Contents) + 1] = fs[1]
      BY <1>1, <1>3, <1>4, <3>1
    <3> QED
      BY <1>2, <1>3, <1>4, <1>6, <3>2, ToldOneMore
  <2>2. CASE ~Room(1)
    BY <1>1, <1>6, <2>2
  <2> QED
    BY <2>1, <2>2
<1> QED
  BY <1>5, <1>6

LEMMA ToldInvStep ==
  ASSUME TypeInv, TypeInv', QueueInv, QueueInv', ToldInv, [Next]_vars
  PROVE  ToldInv'
<1> SUFFICES ASSUME ~raced', ~refused'
             PROVE  ToldInv'
  BY DEF ToldInv
<1>0. ~raced /\ ~refused
  <2>1. raced => raced'
    BY DEF Next, vars, b_click, b_delay, other_fork, interrupt, forker, delay,
       decide, take, put, bpend
  <2>2. refused => refused'
    <3>1. CASE b_click
      BY <3>1 DEF b_click
    <3>2. CASE ~b_click
      BY <3>2 DEF Next, vars, b_delay, other_fork, forker, delay, decide, take, put, bpend
    <3> QED
      BY <3>1, <3>2
  <2> QED
    BY <2>1, <2>2, Zenon
<1>12. /\ NFORKS \in Nat \ {0} /\ fpcnt \in 0 .. NFORKS
       /\ gl_btrue \in {0, 1} /\ button \in {0, 1} /\ gl_bdesired \in {0, 1}
       /\ gl_bdely \in Nat
  BY <1>0, RingAssumption DEF TypeInv, TypeOK, QueueInv
<1>13. Contents \in Seq(Fork) /\ Len(Contents) = fpcnt
  BY <1>12, ContentsType DEF TypeInv
<1>1. CASE b_click
  <2>0. main = "forker" /\ main' = "forker" /\ button' = button
    BY <1>0, <1>1 DEF b_click, interrupt, local
  <2>1. CASE gl_bdely # 0
    <3>1. gl_bdely' # 0 /\ Contents' = Contents
      BY <1>12, <1>1, <2>1 DEF b_click, ring, Contents
    <3> QED
      BY <1>0, <2>0, <2>1, <3>1 DEF ToldInv, Told, TellsLast
  <2>2. CASE gl_bdely = 0 /\ gl_bpend /\ gl_btrue' = 1
    <3>1. gl_bdely' # 0 /\ Contents' = Contents /\ gl_btrue = 0
      BY <1>12, <1>1, <2>2, RingAssumption DEF b_click, ring, Contents
    <3> QED
      BY <1>0, <2>0, <2>2, <3>1 DEF ToldInv, Told, TellsLast
  <2>3. CASE gl_bdely = 0 /\ ~(gl_bpend /\ gl_btrue' = 1)
    <3> DEFINE fs == <<bchangeFork(gl_btrue', 1)>>
    <3>1. gl_btrue' \in {0, 1} /\ gl_bdely' = 0 /\ forkq(fs) /\ Room(1)
      <4>1. gl_btrue' \in {0, 1}
        BY <1>12, <1>1 DEF b_click
      <4>2. gl_bdely' = gl_bdely /\ forkq(fs) /\ refused' = (refused \/ ~Room(1))
        BY <1>1, <2>3, Zenon DEF b_click
      <4>3. Room(1)
        BY <4>2
      <4> QED
        BY <2>3, <4>1, <4>2, <4>3
    <3>2. bchangeFork(gl_btrue', 1) \in Fork
      BY <3>1, RingAssumption, ForkTypes
    <3>3. fs \in Seq(Fork) /\ Len(fs) = 1 /\ fs[Len(fs)].code = "bchange" /\ fs[Len(fs)].state = gl_btrue'
      BY <3>2 DEF bchangeFork
    <3> HIDE DEF fs
    <3>4. fs[Len(fs)].state <= gl_btrue' /\ Room(Len(fs)) /\ Len(fs) \in {1, 2}
      BY <3>1, <3>3
    <3>5. Told(Contents', button, gl_btrue')
      BY <1>0, <2>0, <3>1, <3>3, <3>4, forkqTold
    <3> QED
      BY <2>0, <3>1, <3>5 DEF ToldInv, Told, TellsLast
  <2> QED
    BY <2>1, <2>2, <2>3
<1>2. CASE b_delay
  <2>0. /\ main = "forker" /\ main' = "forker" /\ button' = button /\ gl_btrue' = gl_btrue
        /\ gl_bdely # 0 /\ Told(Contents, button, 0) /\ gl_bclick >= 1
    BY <1>0, <1>2, Zenon DEF b_delay, interrupt, local, ToldInv, TypeInv
  <2>1. Told(Contents, button, gl_btrue)
    BY <1>12, <1>13, <2>0, ToldMore
  <2>2. CASE UNCHANGED ring
    <3>1. Contents' = Contents
      BY <2>2 DEF ring, Contents
    <3> QED
      BY <2>0, <2>1, <3>1 DEF ToldInv, Told, TellsLast
  <2>3. CASE gl_bdely' = 0 /\ Room(Len(DelayForks)) /\ forkq(DelayForks)
    <3>1. DelayForks \in Seq(Fork) /\ Len(DelayForks) \in {1, 2}
      BY <2>0, DelayForksType DEF TypeInv
    <3>2. /\ DelayForks[Len(DelayForks)].code = "bchange"
          /\ DelayForks[Len(DelayForks)].state = gl_btrue
      BY DelayForksLast
    <3>3. Told(Contents', button, gl_btrue)
      BY <1>0, <1>12, <2>0, <2>3, <3>1, <3>2, forkqTold
    <3> QED
      BY <2>0, <2>3, <3>3 DEF ToldInv, Told, TellsLast
  <2> QED
    BY <1>2, <2>2, <2>3 DEF b_delay
<1>3. CASE other_fork
  <2>0. main = "forker" /\ main' = "forker" /\ UNCHANGED <<button, gl_bdely, gl_btrue>>
    BY <1>0, <1>3 DEF other_fork, interrupt, local, click
  <2> DEFINE x == IF gl_bdely # 0 THEN 0 ELSE gl_btrue
  <2>1. x \in {0, 1} /\ Told(Contents, button, x)
    BY <1>0, <1>12, <2>0 DEF ToldInv
  <2> HIDE DEF x
  <2>2. <<NoFork>> \in Seq(Fork) /\ Len(<<NoFork>>) = 1 /\ <<NoFork>>[1].code # "bchange"
    BY ForkTypes DEF NoFork
  <2>3. forkq(<<NoFork>>)
    BY <1>3, Zenon DEF other_fork, NoFork
  <2>4. Told(Contents', button, x)
    BY <1>0, <2>0, <2>1, <2>2, <2>3, forkqTold
  <2> QED
    BY <2>0, <2>4 DEF ToldInv, Told, TellsLast, x
<1>4. CASE forker
  <2>0. /\ main = "forker" /\ fpcnt > 0 /\ Contents[1] = g_fpdx[fph] /\ Contents # <<>>
        /\ UNCHANGED <<gl_bdely, gl_btrue>>
    <3>1. (fph + 1 - 1) % NFORKS = fph
      <4>1. fph \in 0 .. NFORKS - 1 /\ fph + 1 - 1 = fph + 0 /\ 0 \in 0 .. NFORKS /\ fph + 0 = fph
        BY <1>12 DEF TypeInv, TypeOK
      <4>2. SlotAfter(fph, 0) = IF fph + 0 < NFORKS THEN fph + 0 ELSE fph + 0 - NFORKS
        BY <4>1, SlotFacts, Zenon
      <4>3. SlotAfter(fph, 0) = fph
        BY <1>12, <4>1, <4>2
      <4> QED
        BY <4>1, <4>3, Zenon DEF SlotAfter
    <3>2. fpcnt > 0 /\ 1 \in 1 .. fpcnt
      BY <1>12, <1>4 DEF forker
    <3>3. Contents[1] = g_fpdx[(fph + 1 - 1) % NFORKS]
      BY <3>2 DEF Contents
    <3> QED
      BY <1>4, <1>13, <3>1, <3>2, <3>3 DEF forker, click
  <2> DEFINE x == IF gl_bdely # 0 THEN 0 ELSE gl_btrue
  <2>1. x \in {0, 1} /\ Told(Contents, button, x)
    BY <1>0, <1>12, <2>0 DEF ToldInv
  <2> HIDE DEF x
  <2>2. Contents' = Tail(Contents)
    BY <1>0, <1>4, forkerQueue
  <2>3. IF Contents[1].code = "bchange" THEN button' = Contents[1].state ELSE button' = button
    BY <1>4, <2>0 DEF forker
  <2>4. Told(Contents', button', x)
    <3>1. button' \in {0, 1}
      BY DEF TypeInv, TypeOK
    <3> QED
      BY <1>12, <1>13, <2>0, <2>1, <2>2, <2>3, <3>1, ToldTail
  <2>5. CASE main' = "forker"
    BY <2>0, <2>4, <2>5 DEF ToldInv, Told, TellsLast, x
  <2>6. CASE main' = "delay" /\ amnt' = gl_bdely /\ gl_bdely # 0
    BY <2>0, <2>4, <2>6 DEF ToldInv, Told, TellsLast, x
  <2> QED
    BY <1>4, <2>0, <2>5, <2>6 DEF forker
<1>5. CASE delay
  <2>0. /\ main = "delay" /\ UNCHANGED <<button, gl_btrue>> /\ Contents' = Contents
        /\ gl_bdely = amnt /\ gl_bdely # 0 /\ Told(Contents, button, 0)
    BY <1>0, <1>5 DEF delay, ring, Contents, ToldInv
  <2>1. gl_bdely' = 0 /\ main' = "decide"
    BY <1>12, <1>5, <2>0 DEF delay, Minus
  <2> QED
    BY <2>0, <2>1 DEF ToldInv, Told, TellsLast
<1>6. CASE decide
  <2>0. /\ main = "decide" /\ UNCHANGED <<button, gl_btrue, gl_bdely, gl_bdesired, fpcnt>>
        /\ Contents' = Contents /\ gl_bdely = 0 /\ Told(Contents, button, 0)
    BY <1>0, <1>6 DEF decide, ring, click, Contents, ToldInv
  <2>1. CASE Room(Len(DelayForks)) /\ main' = "take1" /\ calls' = Len(DelayForks)
    <3>1. fpcnt + Len(DelayForks) <= NFORKS
      BY <2>1 DEF Room
    <3>2. Len(DelayForks) = 1 => gl_bdesired = gl_btrue
      <4>1. Len(<<DelayFork(TRUE), DelayFork(FALSE)>>) # 1
        BY <2>0
      <4> QED
        BY <4>1, Zenon DEF DelayForks
    <3> QED
      BY <2>0, <2>1, <3>1, <3>2 DEF ToldInv, Told, TellsLast
  <2>2. CASE main' = "forker"
    <3>1. Told(Contents, button, gl_btrue)
      BY <1>12, <1>13, <2>0, ToldMore
    <3> QED
      BY <2>0, <2>2, <3>1 DEF ToldInv, Told, TellsLast
  <2> QED
    BY <1>6, <2>0, <2>1, <2>2, Zenon DEF decide, Leave
<1>7. CASE take
  <2>0. /\ UNCHANGED <<button, gl_btrue, gl_bdely, gl_bdesired, fpcnt>> /\ Contents' = Contents
        /\ main \in {"take1", "take2"} /\ gl_bdely = 0
    BY <1>0, <1>7 DEF take, click, Contents, ToldInv
  <2>1. Room(1)
    BY <1>0, <1>12, <2>0 DEF Room, ToldInv, TypeInv, TypeOK
  <2>2. CASE main = "take1"
    <3>1. main' = "put1" /\ fpd' = bchangeFork(gl_bdesired, gl_bclick) /\ calls' = calls
      BY <1>7, <2>1, <2>2, Zenon DEF take, DelayFork
    <3>2. fpd'.code = "bchange" /\ fpd'.state = gl_bdesired
      BY <3>1 DEF bchangeFork
    <3> QED
      BY <1>0, <2>0, <2>2, <3>1, <3>2 DEF ToldInv, Told, TellsLast
  <2>3. CASE main = "take2"
    <3>1. main' = "put2" /\ fpd' = bchangeFork(gl_btrue, 1)
      <4>1. main # "take1"
        BY <2>3
      <4> QED
        BY <1>7, <2>1, <4>1, Zenon DEF take, DelayFork
    <3>2. fpd'.code = "bchange" /\ fpd'.state = gl_btrue
      BY <3>1 DEF bchangeFork
    <3> QED
      BY <1>0, <2>0, <2>3, <3>1, <3>2 DEF ToldInv
  <2> QED
    BY <2>0, <2>2, <2>3
<1>8. CASE put
  <2>0. /\ UNCHANGED <<button, gl_btrue, gl_bdely, gl_bdesired>> /\ fpcnt' = fpcnt + 1
        /\ main \in {"put1", "put2"} /\ gl_bdely = 0 /\ calls \in {1, 2}
    BY <1>0, <1>8 DEF put, click, ToldInv, TypeInv, TypeOK
  <2>1. /\ Contents' \in Seq(Fork) /\ Contents' # <<>>
        /\ Contents'[Len(Contents')] = fpd
    BY <1>0, <1>8, putContents
  <2>2. CASE main' = "forker" /\ fpd.code = "bchange" /\ fpd.state = gl_btrue
    <3>1. Told(Contents', button, gl_btrue)
      BY <1>12, <2>1, <2>2, ToldLast
    <3> QED
      BY <2>0, <2>2, <3>1 DEF ToldInv, Told, TellsLast
  <2>3. CASE main = "put1" /\ calls = 1
    <3>1. main' = "forker"
      BY <1>8, <2>3 DEF put, After, Leave
    <3>2. fpd.code = "bchange" /\ fpd.state = gl_btrue
      BY <1>0, <2>3 DEF ToldInv
    <3> QED
      BY <2>2, <3>1, <3>2
  <2>4. CASE main = "put1" /\ calls = 2
    <3>1. main' = "take2"
      BY <1>8, <2>4 DEF put, After
    <3>2. fpcnt + 2 <= NFORKS
      BY <1>0, <2>4 DEF ToldInv
    <3>3. fpcnt' < NFORKS
      BY <1>12, <2>0, <3>2
    <3> QED
      BY <2>0, <3>1, <3>3 DEF ToldInv
  <2>5. CASE main = "put2"
    <3>1. main' = "forker"
      BY <1>8, <2>5 DEF put, After, Leave
    <3>2. fpd.code = "bchange" /\ fpd.state = gl_btrue
      BY <1>0, <2>5 DEF ToldInv
    <3> QED
      BY <2>2, <3>1, <3>2
  <2> QED
    BY <2>0, <2>3, <2>4, <2>5
<1>9. CASE bpend
  BY <1>0, <1>9 DEF bpend, ring, click, local, Contents, ToldInv, Told, TellsLast
<1>10. CASE UNCHANGED vars
  BY <1>0, <1>10 DEF vars, ring, click, local, Contents, ToldInv, Told, TellsLast
<1> QED
  BY <1>1, <1>2, <1>3, <1>4, <1>5, <1>6, <1>7, <1>8, <1>9, <1>10 DEF Next

(* The button is told to the processes as down only while it is, unless    *)
(* b_click() has met a full ring or an interrupt has come in mchange()'s   *)
(* call of b_delay(): the double-click filter, the end of its wait and the *)
(* forks that it makes never leave it stuck.                               *)
THEOREM ButtonFree == Spec => []NotStuckDown
<1>1. TypeInv /\ QueueInv /\ ToldInv /\ [Next]_vars => QueueInv' /\ ToldInv'
  BY TypeInvStep, QueueInvStep, ToldInvStep
<1>2. TypeInv /\ QueueInv /\ ToldInv => NotStuckDown
  <2> SUFFICES ASSUME ToldInv, Settled, ~refused, ~raced
               PROVE  button <= gl_btrue
    BY DEF NotStuckDown
  <2>1. Told(Contents, button, gl_btrue)
    BY DEF ToldInv, Settled
  <2>2. DOMAIN Contents = {}
    BY DEF Contents, Settled
  <2> QED
    BY <2>1, <2>2 DEF Told
<1>3. Init => QueueInv /\ ToldInv
  BY QueueInvInit, ToldInvInit
<1> QED
  BY <1>1, <1>2, <1>3, TypeCorrect, PTL DEF Spec
=============================================================================
