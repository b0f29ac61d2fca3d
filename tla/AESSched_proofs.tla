--------------------------- MODULE AESSched_proofs ---------------------------
(***************************************************************************)
(* Proofs about the AES kernel, for any number of processes, any masks and *)
(* any sizes of the fork ring and of the keyboard buffers.                 *)
(*                                                                         *)
(* The invariants are proved one on top of the other:                      *)
(*                                                                         *)
(*   TypeOK   by itself;                                                   *)
(*   ListInv  where the processes are (OneList);                           *)
(*   EventInv what a process that waits holds (NoLostWakeup, NoEventLeak), *)
(*            and that the wait list of the semaphore is right;            *)
(*   LockInv  who has the screen (MutualExclusion, LockHandedOn).          *)
(***************************************************************************)
EXTENDS AESSched, SequenceTheorems, FiniteSetTheorems, TLAPS

(***************************************************************************)
(* Lists.                                                                  *)
(***************************************************************************)

(* Members and Distinct of a list without its head: schedule(), mwait_act()*)
(* and unsync() take the first of a list off.                              *)
LEMMA TailFacts ==
  ASSUME NEW S, NEW s \in Seq(S), s # <<>>
  PROVE  /\ Head(s) \in Members(s) /\ Head(s) \in S
         /\ Tail(s) \in Seq(S)
         /\ Members(s) = Members(Tail(s)) \cup {Head(s)}
         /\ Distinct(s) => Distinct(Tail(s)) /\ Head(s) \notin Members(Tail(s))
<1>1. /\ Head(s) \in S /\ Tail(s) \in Seq(S)
      /\ Len(Tail(s)) = Len(s) - 1 /\ Head(s) = s[1] /\ Len(s) >= 1 /\ Len(s) \in Nat
      /\ DOMAIN s = 1 .. Len(s) /\ DOMAIN Tail(s) = 1 .. Len(s) - 1
      /\ \A i \in 1 .. Len(s) - 1 : Tail(s)[i] = s[i + 1]
  OBVIOUS
<1>2. Members(s) = Members(Tail(s)) \cup {Head(s)}
  <2>1. ASSUME NEW i \in 1 .. Len(s), i # 1
        PROVE  i - 1 \in 1 .. Len(s) - 1 /\ Tail(s)[i - 1] = s[i]
    <3>1. i - 1 \in 1 .. Len(s) - 1 /\ (i - 1) + 1 = i
      BY <1>1, <2>1
    <3> QED
      BY <1>1, <3>1
  <2>2. ASSUME NEW i \in 1 .. Len(s) - 1
        PROVE  i + 1 \in 1 .. Len(s) /\ Tail(s)[i] = s[i + 1]
    BY <1>1
  <2>3. 1 \in 1 .. Len(s)
    BY <1>1
  <2>4. ASSUME NEW x
        PROVE  x \in Members(s) <=> x \in Members(Tail(s)) \cup {Head(s)}
    <3>1. x \in Members(s) <=> \E i \in 1 .. Len(s) : x = s[i]
      BY <1>1 DEF Members
    <3>2. x \in Members(Tail(s)) <=> \E i \in 1 .. Len(s) - 1 : x = Tail(s)[i]
      BY <1>1 DEF Members
    <3>3. x \in Members(s) => x \in Members(Tail(s)) \cup {Head(s)}
      BY <1>1, <2>1, <3>1, <3>2
    <3>4. x \in Members(Tail(s)) \cup {Head(s)} => x \in Members(s)
      BY <1>1, <2>2, <2>3, <3>1, <3>2
    <3> QED
      BY <3>3, <3>4
  <2> QED
    BY <2>4
<1>3. ASSUME Distinct(s)
      PROVE  Distinct(Tail(s)) /\ Head(s) \notin Members(Tail(s))
  BY <1>1, <1>3 DEF Members, Distinct
<1> QED
  BY <1>1, <1>2, <1>3 DEF Members

(* Members and Distinct of two lists joined: schedule() appends the        *)
(* drive-ready list to the ready list.                                     *)
LEMMA ConcatFacts ==
  ASSUME NEW S, NEW s \in Seq(S), NEW t \in Seq(S)
  PROVE  /\ s \o t \in Seq(S)
         /\ Members(s \o t) = Members(s) \cup Members(t)
         /\ Distinct(s) /\ Distinct(t) /\ Members(s) \cap Members(t) = {}
              => Distinct(s \o t)
<1>1. /\ s \o t \in Seq(S)
      /\ Len(s) \in Nat /\ Len(t) \in Nat
      /\ DOMAIN s = 1 .. Len(s) /\ DOMAIN t = 1 .. Len(t)
      /\ DOMAIN (s \o t) = 1 .. Len(s) + Len(t)
      /\ \A i \in 1 .. Len(s) : (s \o t)[i] = s[i]
      /\ \A i \in Len(s) + 1 .. Len(s) + Len(t) : (s \o t)[i] = t[i - Len(s)]
  OBVIOUS
<1>2. ASSUME NEW i \in DOMAIN t
      PROVE  i + Len(s) \in DOMAIN (s \o t) /\ (s \o t)[i + Len(s)] = t[i]
  BY <1>1
<1>3. ASSUME NEW i \in DOMAIN (s \o t)
      PROVE  \/ i \in DOMAIN s /\ (s \o t)[i] = s[i]
             \/ i - Len(s) \in DOMAIN t /\ (s \o t)[i] = t[i - Len(s)]
  BY <1>1
<1>4. Members(s \o t) = Members(s) \cup Members(t)
  <2>1. ASSUME NEW i \in DOMAIN s
        PROVE  i \in DOMAIN (s \o t) /\ (s \o t)[i] = s[i]
    BY <1>1
  <2>2. ASSUME NEW x
        PROVE  x \in Members(s \o t) <=> x \in Members(s) \cup Members(t)
    <3>1. /\ x \in Members(s \o t) <=> \E i \in DOMAIN (s \o t) : x = (s \o t)[i]
          /\ x \in Members(s) <=> \E i \in DOMAIN s : x = s[i]
          /\ x \in Members(t) <=> \E i \in DOMAIN t : x = t[i]
      BY DEF Members
    <3>2. x \in Members(s \o t) => x \in Members(s) \cup Members(t)
      BY <1>3, <3>1
    <3>3. x \in Members(s) \cup Members(t) => x \in Members(s \o t)
      BY <1>2, <2>1, <3>1
    <3> QED
      BY <3>2, <3>3
  <2> QED
    BY <2>2
<1>5. ASSUME Distinct(s), Distinct(t), Members(s) \cap Members(t) = {}
      PROVE  Distinct(s \o t)
  <2>1. SUFFICES ASSUME NEW i \in DOMAIN (s \o t), NEW j \in DOMAIN (s \o t),
                        (s \o t)[i] = (s \o t)[j]
                 PROVE  i = j
    BY DEF Distinct
  <2>2. i \in Int /\ j \in Int /\ Len(s) \in Int
    BY <1>1
  <2>3. CASE i \in DOMAIN s /\ (s \o t)[i] = s[i]
    <3>1. CASE j \in DOMAIN s /\ (s \o t)[j] = s[j]
      BY <1>5, <2>1, <2>3, <3>1 DEF Distinct
    <3>2. CASE j - Len(s) \in DOMAIN t /\ (s \o t)[j] = t[j - Len(s)]
      BY <1>5, <2>1, <2>3, <3>2 DEF Members
    <3> QED
      BY <1>3, <3>1, <3>2
  <2>4. CASE i - Len(s) \in DOMAIN t /\ (s \o t)[i] = t[i - Len(s)]
    <3>1. CASE j \in DOMAIN s /\ (s \o t)[j] = s[j]
      BY <1>5, <2>1, <2>4, <3>1 DEF Members
    <3>2. CASE j - Len(s) \in DOMAIN t /\ (s \o t)[j] = t[j - Len(s)]
      <4>1. i - Len(s) = j - Len(s)
        BY <1>5, <2>1, <2>4, <3>2 DEF Distinct
      <4> QED
        BY <2>2, <4>1
    <3> QED
      BY <1>3, <3>1, <3>2
  <2> QED
    BY <1>3, <2>3, <2>4
<1> QED
  BY <1>1, <1>4, <1>5

(* A list of one. *)
LEMMA OneFacts ==
  ASSUME NEW S, NEW x \in S
  PROVE  /\ <<x>> \in Seq(S) /\ Members(<<x>>) = {x} /\ Distinct(<<x>>)
         /\ <<x>> # <<>>
  BY DEF Members, Distinct

(* apret() and azombie() put a process in front of a list.                 *)
LEMMA ConsFacts ==
  ASSUME NEW S, NEW s \in Seq(S), NEW x \in S
  PROVE  /\ <<x>> \o s \in Seq(S) /\ <<x>> \o s # <<>>
         /\ Members(<<x>> \o s) = {x} \cup Members(s)
         /\ Distinct(s) /\ x \notin Members(s) => Distinct(<<x>> \o s)
<1>1. <<x>> \in Seq(S) /\ Members(<<x>>) = {x} /\ Distinct(<<x>>)
  BY OneFacts
<1>2. <<x>> \o s # <<>>
  OBVIOUS
<1>3. /\ <<x>> \o s \in Seq(S)
      /\ Members(<<x>> \o s) = Members(<<x>>) \cup Members(s)
      /\ Distinct(<<x>>) /\ Distinct(s) /\ Members(<<x>>) \cap Members(s) = {}
           => Distinct(<<x>> \o s)
  BY <1>1, ConcatFacts
<1> QED
  BY <1>1, <1>2, <1>3

(* disp_act() moves the head of the ready list to its end. *)
LEMMA RotateFacts ==
  ASSUME NEW S, NEW s \in Seq(S), s # <<>>
  PROVE  /\ Append(Tail(s), Head(s)) \in Seq(S)
         /\ Append(Tail(s), Head(s)) # <<>>
         /\ Members(Append(Tail(s), Head(s))) = Members(s)
         /\ Distinct(s) => Distinct(Append(Tail(s), Head(s)))
<1> DEFINE h == Head(s)
           t == Tail(s)
<1>1. /\ h \in S /\ t \in Seq(S)
      /\ Members(s) = Members(t) \cup {h}
      /\ Distinct(s) => Distinct(t) /\ h \notin Members(t)
  BY TailFacts
<1> HIDE DEF h, t
<1>2. Append(t, h) = t \o <<h>> /\ Append(t, h) # <<>>
  <2>1. Append(t, h) # <<>>
    BY <1>1, AppendProperties
  <2> QED
    BY <1>1, <2>1, AppendIsConcat
<1>3. <<h>> \in Seq(S) /\ Members(<<h>>) = {h} /\ Distinct(<<h>>)
  BY <1>1, OneFacts
<1>4. /\ t \o <<h>> \in Seq(S)
      /\ Members(t \o <<h>>) = Members(t) \cup Members(<<h>>)
      /\ Distinct(t) /\ Distinct(<<h>>) /\ Members(t) \cap Members(<<h>>) = {}
           => Distinct(t \o <<h>>)
  BY <1>1, <1>3, ConcatFacts
<1>5. /\ Append(t, h) \in Seq(S) /\ Append(t, h) # <<>>
      /\ Members(Append(t, h)) = Members(s)
      /\ Distinct(s) => Distinct(Append(t, h))
  BY <1>1, <1>2, <1>3, <1>4
<1> QED
  BY <1>5 DEF h, t


(* The order the processes were made in is a list of all of them. *)
LEMMA BootFacts ==
  ASSUME NEW s \in Boot
  PROVE  s \in Seq(Procs) /\ s # <<>> /\ Members(s) = Procs /\ Distinct(s)
<1>1. Cardinality(Procs) \in Nat
  BY SchedAssumption, FS_CardinalityType
<1>2. s \in Seq(Procs) /\ Members(s) = Procs /\ Distinct(s)
  BY <1>1 DEF Boot
<1>3. s # <<>>
  BY <1>2, SchedAssumption DEF Members
<1> QED
  BY <1>2, <1>3

(***************************************************************************)
(* Types.                                                                  *)
(***************************************************************************)

LEMMA TypeInit == Init => TypeOK
<1> SUFFICES ASSUME Init
             PROVE  TypeOK
  OBVIOUS
<1>1. PICK s \in Boot : rlr = <<Head(s)>> /\ drl = Tail(s)
  BY DEF Init
<1>2. rlr \in Seq(Procs) /\ drl \in Seq(Procs)
  BY <1>1, BootFacts, TailFacts, OneFacts
<1>3. ring \in Seq(Codes) /\ Len(ring) <= NFORKS
  BY SchedAssumption DEF Init
<1> QED
  BY <1>2, <1>3, SchedAssumption DEF Init, TypeOK

(* The completion of an event keeps the types. *)
LEMMA AzombieType ==
  ASSUME TypeOK, NEW p \in Procs, NEW k \in Kinds, azombie(p, k)
  PROVE  /\ drl' \in Seq(Procs) /\ nrl' \subseteq Procs /\ waitin' \subseteq Procs
         /\ zlr' \in [Procs -> SUBSET Kinds] /\ evflg' \in [Procs -> SUBSET Kinds]
<1>1. <<p>> \o drl \in Seq(Procs)
  BY ConsFacts DEF TypeOK
<1> QED
  BY <1>1 DEF TypeOK, azombie

(* So do the start of a wait and the dispatch of the process that runs. *)
LEMMA IasyncType ==
  ASSUME TypeOK, NEW p \in Procs, NEW ks \in SUBSET Kinds, NEW now \in SUBSET Kinds,
         rlr # <<>>, iasync(p, ks, now)
  PROVE  /\ rlr' \in Seq(Procs) /\ drl' \in Seq(Procs)
         /\ nrl' \subseteq Procs /\ waitin' \subseteq Procs
         /\ mode' \in {"run", "disp"}
         /\ evlist' \in [Procs -> SUBSET Kinds] /\ zlr' \in [Procs -> SUBSET Kinds]
         /\ evflg' \in [Procs -> SUBSET Kinds] /\ evwait' \in [Procs -> SUBSET Kinds]
<1>1. Tail(rlr) \in Seq(Procs)
  BY TailFacts DEF TypeOK
<1> QED
  BY <1>1 DEF TypeOK, iasync, mwait, lists

LEMMA DispActType ==
  ASSUME TypeOK, NEW p, rlr # <<>>, p = Head(rlr), disp_act(p)
  PROVE  rlr' \in Seq(Procs) /\ mode' = "disp"
  BY RotateFacts DEF TypeOK, disp_act

LEMMA ApretType ==
  ASSUME TypeOK, NEW p \in Procs, NEW ks, NEW held \in SUBSET Kinds,
         apret(p, ks, held)
  PROVE  /\ evlist' \in [Procs -> SUBSET Kinds] /\ zlr' \in [Procs -> SUBSET Kinds]
         /\ evflg' \in [Procs -> SUBSET Kinds]
         /\ pc' \in [Procs -> {"user", "multi", "block", "new", "leave"}]
  BY DEF TypeOK, apret, Return

LEMMA ForkqType ==
  ASSUME TypeOK, NEW code \in Codes
  PROVE  forkq(ring, code) \in Seq(Codes) /\ Len(forkq(ring, code)) <= NFORKS
<1>1. Append(ring, code) \in Seq(Codes) /\ Len(Append(ring, code)) = Len(ring) + 1
  BY AppendProperties DEF TypeOK
<1> QED
  BY <1>1, SchedAssumption DEF TypeOK, forkq

LEMMA ChkkbdType ==
  ASSUME TypeOK, chkkbd
  PROVE  ring' \in Seq(Codes) /\ Len(ring') <= NFORKS
  BY ForkqType DEF TypeOK, chkkbd, Codes

LEMMA UnsyncType ==
  ASSUME TypeOK, NEW p, rlr # <<>>, p = Head(rlr), unsync(p)
  PROVE  /\ rlr' \in Seq(Procs) /\ drl' \in Seq(Procs)
         /\ nrl' \subseteq Procs /\ waitin' \subseteq Procs
         /\ mode' \in {"run", "multi", "disp"}
         /\ evlist' \in [Procs -> SUBSET Kinds] /\ zlr' \in [Procs -> SUBSET Kinds]
         /\ evflg' \in [Procs -> SUBSET Kinds] /\ evwait' \in [Procs -> SUBSET Kinds]
         /\ sy_tas' \in Nat /\ sy_owner' \in Procs \cup {NoProc}
         /\ sy_wait' \in Seq(Procs)
<1>1. CASE sy_tas = 1 /\ sy_wait # <<>>
  <2>1. Tail(sy_wait) \in Seq(Procs) /\ Head(sy_wait) \in Procs
    BY <1>1, TailFacts DEF TypeOK
  <2>2. /\ azombie(Head(sy_wait), "MUTEX") /\ disp_act(p)
        /\ sy_wait' = Tail(sy_wait) /\ sy_owner' = Head(sy_wait)
        /\ UNCHANGED <<sy_tas, evlist, evwait>>
    BY <1>1 DEF unsync
  <2>3. "MUTEX" \in Kinds
    BY DEF Kinds
  <2>4. /\ drl' \in Seq(Procs) /\ nrl' \subseteq Procs /\ waitin' \subseteq Procs
        /\ zlr' \in [Procs -> SUBSET Kinds] /\ evflg' \in [Procs -> SUBSET Kinds]
    BY <2>1, <2>2, <2>3, AzombieType
  <2>5. rlr' \in Seq(Procs) /\ mode' \in {"run", "multi", "disp"}
    BY <2>2, DispActType
  <2>6. /\ evlist' \in [Procs -> SUBSET Kinds] /\ evwait' \in [Procs -> SUBSET Kinds]
        /\ sy_tas' \in Nat
    BY <2>2 DEF TypeOK
  <2> QED
    BY <2>1, <2>2, <2>4, <2>5, <2>6
<1>2. CASE ~(sy_tas = 1 /\ sy_wait # <<>>)
  <2>1. /\ UNCHANGED <<lists, mode, events, sy_wait>>
        /\ \/ sy_tas' = sy_tas /\ sy_owner' = sy_owner
           \/ sy_tas > 1 /\ sy_tas' = sy_tas - 1 /\ sy_owner' = sy_owner
           \/ sy_tas' = 0 /\ sy_owner' = NoProc
    BY <1>2 DEF unsync, lock
  <2>2. sy_tas' \in Nat /\ sy_owner' \in Procs \cup {NoProc} /\ sy_wait' \in Seq(Procs)
    BY <2>1 DEF TypeOK
  <2> QED
    BY <2>1, <2>2 DEF TypeOK, lists, events
<1> QED
  BY <1>1, <1>2

(* The keys that are counted: one less is taken only from a count above 0. *)
LEMMA CountType ==
  ASSUME TypeOK, NEW p \in Procs, NEW what, "KEYBD" \in what => kcnt[p] > 0,
         kcnt' = [kcnt EXCEPT ![p] = IF "KEYBD" \in what THEN @ - 1 ELSE @]
  PROVE  kcnt' \in [Procs -> 0 .. KBD_SIZE]
<1> DEFINE left == IF "KEYBD" \in what THEN kcnt[p] - 1 ELSE kcnt[p]
<1>1. kcnt[p] \in 0 .. KBD_SIZE /\ kcnt \in [Procs -> 0 .. KBD_SIZE] /\ KBD_SIZE \in Nat
  BY SchedAssumption DEF TypeOK
<1>2. left \in 0 .. KBD_SIZE
  BY <1>1
<1>3. kcnt' = [kcnt EXCEPT ![p] = left]
  BY Zenon
<1> HIDE DEF left
<1> QED
  BY <1>1, <1>2, <1>3

(* What has happened already when a wait for k starts. *)
LEMMA AtOnceFacts ==
  ASSUME NEW p, NEW k, NEW now \in AtOnce(p, k)
  PROVE  now \in {{}, {"BUTTON"}} \/ (now = {"KEYBD"} /\ kcnt[p] > 0)
<1>1. CASE k = "KEYBD"
  BY <1>1 DEF AtOnce
<1>2. CASE k = "BUTTON"
  BY <1>2 DEF AtOnce
<1>3. CASE k # "KEYBD" /\ k # "BUTTON"
  BY <1>3 DEF AtOnce
<1> QED
  BY <1>1, <1>2, <1>3

(* A lock more inside of those that are allowed. *)
LEMMA DeeperType ==
  ASSUME TypeOK, NEW p \in Procs, inside[p] < MaxNest,
         inside' = [inside EXCEPT ![p] = @ + 1]
  PROVE  inside' \in [Procs -> 0 .. MaxNest]
<1>1. /\ inside \in [Procs -> 0 .. MaxNest] /\ inside[p] \in 0 .. MaxNest
      /\ MaxNest \in Nat
  BY SchedAssumption DEF TypeOK
<1>2. inside[p] + 1 \in 0 .. MaxNest
  BY <1>1
<1> QED
  BY <1>1, <1>2

(* Every step keeps the types. *)
LEMMA TypeNext == TypeOK /\ [Next]_vars => TypeOK'
<1> SUFFICES ASSUME TypeOK, [Next]_vars
             PROVE  TypeOK'
  OBVIOUS
<1> USE DEF TypeOK
<1>1. CASE interrupt
  <2>1. PICK code \in Codes : ring' = forkq(ring, code)
    BY <1>1 DEF interrupt, Codes
  <2> QED
    BY <1>1, <2>1, ForkqType
    DEF interrupt, lists, events, input, lock
<1>2. CASE forker
  <2>1. Head(ring) \in Codes /\ Tail(ring) \in Seq(Codes) /\ Len(Tail(ring)) <= NFORKS
    <3>1. Len(Tail(ring)) = Len(ring) - 1 /\ Len(ring) \in Nat
      BY <1>2, HeadTailProperties DEF forker
    <3> QED
      BY <1>2, <3>1, HeadTailProperties, SchedAssumption DEF forker
  <2> QED
    BY <1>2, <2>1 DEF forker, lists, events, input, lock
<1>3. CASE kchange
  <2>1. CASE azombie(gl_mowner, "KEYBD") /\ UNCHANGED <<rlr, evlist, evwait, kcnt>>
    BY <1>3, <2>1, AzombieType DEF kchange, lock, Kinds
  <2>2. CASE UNCHANGED <<lists, events>>
    <3>1. \/ kcnt' = kcnt
          \/ /\ kcnt[gl_mowner] < KBD_SIZE
             /\ kcnt' = [kcnt EXCEPT ![gl_mowner] = @ + 1]
      BY <1>3 DEF kchange
    <3>2. kcnt' \in [Procs -> 0 .. KBD_SIZE]
      <4>1. ASSUME kcnt[gl_mowner] < KBD_SIZE
            PROVE  kcnt[gl_mowner] + 1 \in 0 .. KBD_SIZE
        BY <4>1, SchedAssumption
      <4> QED
        BY <3>1, <4>1
    <3> QED
      BY <1>3, <2>2, <3>2 DEF kchange, lists, events, lock
  <2> QED
    BY <1>3, <2>1, <2>2 DEF kchange
<1>4. CASE bchange
  BY <1>4, AzombieType DEF bchange, lists, events, lock, Kinds
<1>5. CASE tchange
  BY <1>5, AzombieType DEF tchange, lists, events, input, lock, Kinds
<1>6. CASE schedule
  <2>1. rlr \o drl \in Seq(Procs) /\ <<>> \in Seq(Procs)
    OBVIOUS
  <2> QED
    BY <1>6, <2>1, ChkkbdType DEF schedule, events, input, lock
<1>7. CASE \E p \in Procs : ProcStep(p)
  <2>1. PICK p \in Procs : ProcStep(p)
    BY <1>7
  <2>2. CASE super(p)
    BY <2>2, DispActType DEF super, Running, forks, events, input, lock
  <2>3. CASE dsptch(p)
    BY <2>3, DispActType DEF dsptch, Running, forks, events, input, lock
  <2>4. CASE \E k \in Block : ev_block(p, k)
    <3>1. PICK k \in Block : ev_block(p, k)
      BY <2>4
    <3>2. PICK now \in AtOnce(p, k) :
            /\ iasync(p, {k}, now)
            /\ kcnt' = [kcnt EXCEPT ![p] = IF "KEYBD" \in now THEN @ - 1 ELSE @]
      BY <3>1 DEF ev_block
    <3>3. {k} \in SUBSET Kinds /\ now \in SUBSET Kinds /\ ("KEYBD" \in now => kcnt[p] > 0)
      <4>1. k \in Kinds /\ {"KEYBD"} \subseteq Kinds /\ {"BUTTON"} \subseteq Kinds
        BY SchedAssumption DEF Kinds
      <4>2. now \in {{}, {"BUTTON"}} \/ (now = {"KEYBD"} /\ kcnt[p] > 0)
        <5>1. now \in AtOnce(p, k)
          BY <3>2
        <5> QED
          BY <5>1, AtOnceFacts
      <4> QED
        BY <4>1, <4>2
    <3>4. kcnt' \in [Procs -> 0 .. KBD_SIZE]
      <4>1. "KEYBD" \in now => kcnt[p] > 0
        BY <3>3
      <4>2. kcnt' = [kcnt EXCEPT ![p] = IF "KEYBD" \in now THEN @ - 1 ELSE @]
        BY <3>2
      <4> QED
        BY <4>1, <4>2, CountType
    <3> QED
      BY <3>1, <3>2, <3>3, <3>4, IasyncType DEF ev_block, Running, forks, lock
  <2>5. CASE block_ret(p)
    <3>1. evwait' \in [Procs -> SUBSET Kinds] /\ inside' \in [Procs -> 0 .. MaxNest]
      BY <2>5, SchedAssumption DEF block_ret
    <3>2. apret(p, wants[p], evlist[p]) /\ evlist[p] \in SUBSET Kinds
      BY <2>5 DEF block_ret
    <3> QED
      BY <2>5, <3>1, <3>2, ApretType DEF block_ret, lists, forks, input, lock
  <2>6. CASE \E flags \in Multi : ev_multi(p, flags)
    <3>1. PICK flags \in Multi : ev_multi(p, flags)
      BY <2>6
    <3>2. flags \in SUBSET Kinds
      BY SchedAssumption
    <3> QED
      BY <3>1, <3>2, ChkkbdType DEF ev_multi, lists, events, input, lock
  <2>7. CASE multi_check(p)
    <3>1. CASE \E what \in Quick(p) \ {{}} :
                 /\ kcnt' = [kcnt EXCEPT ![p] = IF "KEYBD" \in what THEN @ - 1 ELSE @]
                 /\ mode' = "run"
                 /\ pc' = Return(p)
                 /\ UNCHANGED <<lists, events>>
      <4>1. kcnt' \in [Procs -> 0 .. KBD_SIZE]
        <5>1. PICK what \in Quick(p) :
                kcnt' = [kcnt EXCEPT ![p] = IF "KEYBD" \in what THEN @ - 1 ELSE @]
          BY <3>1
        <5>2. "KEYBD" \in what => kcnt[p] > 0
          BY <5>1 DEF Quick
        <5> QED
          BY <5>1, <5>2, CountType
      <4> QED
        BY <2>7, <3>1, <4>1 DEF multi_check, Return, lists, forks, events, lock
    <3>2. CASE /\ \E now \in SUBSET (wants[p] \cap {"BUTTON"}) : iasync(p, wants[p], now)
               /\ UNCHANGED <<kcnt, pc>>
      <4>1. PICK now \in SUBSET (wants[p] \cap {"BUTTON"}) : iasync(p, wants[p], now)
        BY <3>2
      <4>2. now \in SUBSET Kinds /\ wants[p] \in SUBSET Kinds
        OBVIOUS
      <4> QED
        BY <2>7, <3>2, <4>1, <4>2, IasyncType DEF multi_check, forks, lock
    <3> QED
      BY <2>7, <3>1, <3>2 DEF multi_check
  <2>8. CASE multi_ret(p)
    <3>1. evlist[p] \ (Pending(p) \cap wants[p]) \in SUBSET Kinds
      OBVIOUS
    <3>2. apret(p, evflg[p] \cup (zlr[p] \cap wants[p]),
                evlist[p] \ (Pending(p) \cap wants[p]))
      BY <2>8 DEF multi_ret
    <3>3. evwait' \in [Procs -> SUBSET Kinds]
      BY <2>8 DEF multi_ret
    <3> QED
      BY <2>8, <3>1, <3>2, <3>3, ApretType DEF multi_ret, lists, forks, input, lock
  <2>9. CASE wm_update_beg(p)
    <3>1. CASE MayTake(p)
      <4>1. /\ sy_tas' = sy_tas + 1 /\ sy_owner' = p
            /\ inside[p] < MaxNest
            /\ inside' = [inside EXCEPT ![p] = @ + 1]
            /\ pc' = Return(p)
            /\ UNCHANGED <<lists, mode, wants, events, sy_wait, forks, input>>
        BY <2>9, <3>1 DEF wm_update_beg
      <4>2. inside' \in [Procs -> 0 .. MaxNest]
        BY <4>1, DeeperType
      <4>3. pc' \in [Procs -> {"user", "multi", "block", "new", "leave"}]
        BY <4>1 DEF Return
      <4> QED
        BY <4>1, <4>2, <4>3 DEF lists, forks, events, input
    <3>2. CASE ~MayTake(p)
      <4>1. <<p>> \o sy_wait \in Seq(Procs)
        BY ConsFacts
      <4>2. {"MUTEX"} \in SUBSET Kinds /\ {} \in SUBSET Kinds
        BY DEF Kinds
      <4>3. /\ rlr # <<>> /\ iasync(p, {"MUTEX"}, {})
            /\ sy_wait' = <<p>> \o sy_wait
            /\ pc' = [pc EXCEPT ![p] = "block"]
            /\ wants' = [wants EXCEPT ![p] = {"MUTEX"}]
            /\ UNCHANGED <<sy_tas, sy_owner, inside, forks, input>>
        BY <2>9, <3>2 DEF wm_update_beg, Running
      <4>4. /\ pc' \in [Procs -> {"user", "multi", "block", "new", "leave"}]
            /\ wants' \in [Procs -> SUBSET Kinds]
        BY <4>2, <4>3
      <4> QED
        BY <4>1, <4>2, <4>3, <4>4, IasyncType DEF forks, input
    <3> QED
      BY <3>1, <3>2
  <2>10. CASE wm_update_end(p)
    <3>1. inside' \in [Procs -> 0 .. MaxNest]
      BY <2>10, SchedAssumption DEF wm_update_end
    <3> QED
      BY <2>10, <3>1, UnsyncType DEF wm_update_end, Running, Return, forks, input
  <2>11. CASE wm_new(p)
    <3>1. CASE unsync(p) /\ Running(p, "new") /\ UNCHANGED <<pc, inside>>
      BY <2>11, <3>1, UnsyncType DEF wm_new, Running, forks, input
    <3>2. CASE UNCHANGED <<lists, mode, events, lock>>
      <4>1. inside' = inside \/ inside' = [inside EXCEPT ![p] = 0]
        BY <2>11 DEF wm_new
      <4>2. 0 \in 0 .. MaxNest
        BY SchedAssumption
      <4>3. inside' \in [Procs -> 0 .. MaxNest]
        BY <4>1, <4>2
      <4>4. pc' \in [Procs -> {"user", "multi", "block", "new", "leave"}]
        BY <2>11 DEF wm_new, Return
      <4> QED
        BY <2>11, <3>2, <4>3, <4>4 DEF wm_new, lists, forks, events, lock, input
    <3> QED
      BY <2>11, <3>1, <3>2 DEF wm_new
  <2>12. CASE \E m \in Procs : set_mown(p, m)
    BY <2>12, AzombieType DEF set_mown, Return, lists, forks, events, lock, Kinds
  <2> QED
    BY <2>1, <2>2, <2>3, <2>4, <2>5, <2>6, <2>7, <2>8, <2>9, <2>10, <2>11, <2>12
    DEF ProcStep
<1>8. CASE UNCHANGED vars
  BY <1>8 DEF vars, lists, forks, events, input, lock
<1> QED
  BY <1>1, <1>2, <1>3, <1>4, <1>5, <1>6, <1>7, <1>8 DEF Next, Kernel

(* Every variable of the AES kernel keeps its type. *)
THEOREM TypeCorrect == Spec => []TypeOK
<1>1. Init => TypeOK
  BY TypeInit
<1>2. TypeOK /\ [Next]_vars => TypeOK'
  BY TypeNext
<1> QED
  BY <1>1, <1>2, PTL DEF Spec

(***************************************************************************)
(* Where the processes are. OneList is inductive once it is known that     *)
(* somebody is at the head of the ready list when a process runs.          *)
(***************************************************************************)

ListInv == OneList /\ (mode # "disp" => rlr # <<>>)

LEMMA ListInit == Init => ListInv
<1> SUFFICES ASSUME Init
             PROVE  ListInv
  OBVIOUS
<1>1. PICK s \in Boot : rlr = <<Head(s)>> /\ drl = Tail(s)
  BY DEF Init
<1>2. /\ s \in Seq(Procs) /\ s # <<>> /\ Members(s) = Procs /\ Distinct(s)
      /\ Head(s) \in Procs
  BY BootFacts, TailFacts
<1>3. /\ Members(s) = Members(Tail(s)) \cup {Head(s)}
      /\ Distinct(Tail(s)) /\ Head(s) \notin Members(Tail(s))
  BY <1>2, TailFacts
<1>4. Members(<<Head(s)>>) = {Head(s)} /\ Distinct(<<Head(s)>>) /\ <<Head(s)>> # <<>>
  BY <1>2, OneFacts
<1> QED
  BY <1>1, <1>2, <1>3, <1>4 DEF Init, ListInv, OneList

(* The completion of an event moves a process from the sleeping to the     *)
(* drive-ready ones, or none.                                              *)
LEMMA AzombieList ==
  ASSUME TypeOK, ListInv, NEW p \in Procs, NEW k \in Kinds, azombie(p, k)
  PROVE  /\ Distinct(drl')
         /\ Members(rlr) \cap Members(drl') = {}
         /\ nrl' = Procs \ (Members(rlr) \cup Members(drl'))
         /\ waitin' = nrl'
<1>1. CASE p \in nrl /\ evflg'[p] \cap evwait[p] # {}
  <2>1. nrl' = nrl \ {p} /\ drl' = <<p>> \o drl /\ waitin' = waitin \ {p}
    BY <1>1 DEF azombie
  <2>2. p \notin Members(rlr) /\ p \notin Members(drl)
    BY <1>1 DEF ListInv, OneList
  <2>3. Members(drl') = {p} \cup Members(drl) /\ Distinct(drl')
    BY <2>1, <2>2, ConsFacts DEF TypeOK, ListInv, OneList
  <2> QED
    BY <1>1, <2>1, <2>2, <2>3 DEF ListInv, OneList
<1>2. CASE ~(p \in nrl /\ evflg'[p] \cap evwait[p] # {})
  BY <1>2 DEF azombie, ListInv, OneList
<1> QED
  BY <1>1, <1>2

LEMMA DispActList ==
  ASSUME TypeOK, NEW p, rlr # <<>>, p = Head(rlr), Distinct(rlr), disp_act(p)
  PROVE  Members(rlr') = Members(rlr) /\ Distinct(rlr') /\ rlr' # <<>> /\ mode' = "disp"
  BY RotateFacts DEF TypeOK, disp_act

LEMMA IasyncList ==
  ASSUME TypeOK, ListInv, NEW p, rlr # <<>>, p = Head(rlr),
         NEW ks, NEW now, iasync(p, ks, now)
  PROVE  ListInv'
<1>1. /\ p \in Members(rlr) /\ Members(rlr) = Members(Tail(rlr)) \cup {p}
      /\ Distinct(Tail(rlr)) /\ p \notin Members(Tail(rlr)) /\ p \in Procs
  BY TailFacts DEF TypeOK, ListInv, OneList
<1>2. \/ mode' = "run" /\ UNCHANGED lists
      \/ /\ mode' = "disp" /\ rlr' = Tail(rlr) /\ nrl' = nrl \cup {p}
         /\ waitin' = waitin \cup {p} /\ drl' = drl
  BY DEF iasync, mwait
<1>3. CASE mode' = "run" /\ UNCHANGED lists
  BY <1>3 DEF ListInv, OneList, lists
<1>4. CASE /\ mode' = "disp" /\ rlr' = Tail(rlr) /\ nrl' = nrl \cup {p}
           /\ waitin' = waitin \cup {p} /\ drl' = drl
  BY <1>1, <1>4 DEF ListInv, OneList
<1> QED
  BY <1>2, <1>3, <1>4

LEMMA UnsyncList ==
  ASSUME TypeOK, ListInv, NEW p, rlr # <<>>, p = Head(rlr), unsync(p)
  PROVE  ListInv'
<1>1. CASE sy_tas = 1 /\ sy_wait # <<>>
  <2>1. Head(sy_wait) \in Procs /\ "MUTEX" \in Kinds
    BY <1>1, TailFacts DEF TypeOK, Kinds
  <2>2. azombie(Head(sy_wait), "MUTEX") /\ disp_act(p)
    BY <1>1 DEF unsync
  <2>3. Members(rlr') = Members(rlr) /\ Distinct(rlr') /\ rlr' # <<>> /\ mode' = "disp"
    BY <2>2, DispActList DEF ListInv, OneList
  <2> QED
    BY <2>1, <2>2, <2>3, AzombieList DEF ListInv, OneList
<1>2. CASE ~(sy_tas = 1 /\ sy_wait # <<>>)
  BY <1>2 DEF TypeOK, unsync, lists, ListInv, OneList
<1> QED
  BY <1>1, <1>2

(* A step that leaves the lists alone and does not leave the dispatcher. *)
LEMMA SameLists ==
  ASSUME ListInv, UNCHANGED lists, mode' = "disp" \/ rlr # <<>>
  PROVE  ListInv'
  BY DEF ListInv, OneList, lists

LEMMA ListNext == TypeOK /\ ListInv /\ [Next]_vars => ListInv'
<1> SUFFICES ASSUME TypeOK, ListInv, [Next]_vars
             PROVE  ListInv'
  OBVIOUS
<1>1. ASSUME NEW p \in Procs, NEW k \in Kinds, azombie(p, k), UNCHANGED <<rlr, mode>>
      PROVE  ListInv'
  BY <1>1, AzombieList DEF ListInv, OneList
<1>2. ASSUME UNCHANGED <<lists, mode>>
      PROVE  ListInv'
  BY <1>2 DEF ListInv, OneList, lists
<1>4. CASE interrupt \/ forker
  BY <1>4, <1>2 DEF interrupt, forker
<1>5. CASE kchange
  <2>1. \/ UNCHANGED <<lists, mode>>
        \/ azombie(gl_mowner, "KEYBD") /\ UNCHANGED <<rlr, mode>>
    BY <1>5 DEF kchange
  <2> QED
    BY <2>1, <1>1, <1>2 DEF TypeOK, Kinds
<1>6. CASE bchange
  <2>1. PICK m \in Procs : \/ UNCHANGED <<lists, mode>>
                           \/ azombie(m, "BUTTON") /\ UNCHANGED <<rlr, mode>>
    BY <1>6 DEF bchange
  <2> QED
    BY <2>1, <1>1, <1>2 DEF Kinds
<1>7. CASE tchange
  <2>1. \/ UNCHANGED <<lists, mode>>
        \/ \E p \in Procs : azombie(p, "TIMER") /\ UNCHANGED <<rlr, mode>>
    BY <1>7 DEF tchange
  <2> QED
    BY <2>1, <1>1, <1>2 DEF Kinds
<1>8. CASE schedule
  <2>1. /\ rlr' = rlr \o drl /\ drl' = <<>> /\ UNCHANGED <<nrl, waitin>>
        /\ mode' # "disp" => rlr' # <<>>
    BY <1>8 DEF schedule
  <2>2. Members(rlr') = Members(rlr) \cup Members(drl) /\ Distinct(rlr')
    BY <2>1, ConcatFacts DEF TypeOK, ListInv, OneList
  <2>3. Members(<<>>) = {} /\ Distinct(<<>>)
    BY DEF Members, Distinct
  <2> QED
    BY <2>1, <2>2, <2>3 DEF ListInv, OneList
<1>9. CASE \E p \in Procs : ProcStep(p)
  <2>1. PICK p \in Procs : ProcStep(p)
    BY <1>9
  <2>2. CASE super(p) \/ dsptch(p)
    <3>1. /\ rlr # <<>> /\ p = Head(rlr) /\ disp_act(p)
          /\ UNCHANGED <<drl, nrl, waitin>>
      BY <2>2 DEF super, dsptch, Running
    <3> QED
      BY <3>1, DispActList DEF ListInv, OneList
  <2>3. CASE \E k \in Block : ev_block(p, k)
    BY <2>3, IasyncList DEF ev_block, Running
  <2>4. CASE \E flags \in Multi : ev_multi(p, flags)
    BY <2>4, SameLists DEF ev_multi, Running
  <2>5. CASE multi_check(p)
    BY <2>5, IasyncList, SameLists DEF multi_check
  <2>6. CASE block_ret(p) \/ multi_ret(p)
    BY <2>6, <1>2 DEF block_ret, multi_ret
  <2>7. CASE wm_update_beg(p)
    <3>1. CASE MayTake(p)
      BY <2>7, <3>1, <1>2 DEF wm_update_beg
    <3>2. CASE ~MayTake(p)
      BY <2>7, <3>2, IasyncList DEF wm_update_beg, Running
    <3> QED
      BY <3>1, <3>2
  <2>8. CASE wm_update_end(p)
    BY <2>8, UnsyncList DEF wm_update_end, Running
  <2>9. CASE wm_new(p)
    BY <2>9, <1>2, UnsyncList DEF wm_new, Running
  <2>10. CASE \E m \in Procs : set_mown(p, m)
    <3>1. PICK m \in Procs : \/ UNCHANGED <<lists, mode>>
                             \/ azombie(m, "BUTTON") /\ UNCHANGED <<rlr, mode>>
      BY <2>10 DEF set_mown
    <3> QED
      BY <3>1, <1>1, <1>2 DEF Kinds
  <2> QED
    BY <2>1, <2>2, <2>3, <2>4, <2>5, <2>6, <2>7, <2>8, <2>9, <2>10 DEF ProcStep
<1>10. CASE UNCHANGED vars
  BY <1>10, <1>2 DEF vars
<1> QED
  BY <1>4, <1>5, <1>6, <1>7, <1>8, <1>9, <1>10 DEF Next, Kernel

(* Whatever completes while a process is put to sleep, woken or dispatched,*)
(* it is on one list only, and WAITIN says whether it sleeps.              *)
THEOREM OnOneList == Spec => []OneList
<1>1. Init => TypeOK /\ ListInv
  BY TypeInit, ListInit
<1>2. TypeOK /\ ListInv /\ [Next]_vars => (TypeOK /\ ListInv)'
  BY TypeNext, ListNext
<1>3. ListInv => OneList
  BY DEF ListInv
<1> QED
  BY <1>1, <1>2, <1>3, PTL DEF Spec

(***************************************************************************)
(* What a process that waits holds. A process in ev_multi() that still     *)
(* runs the forks, or in its own code, holds nothing; any other holds the  *)
(* events it waits for, asleep if none has completed. The semaphore's wait *)
(* list belongs here: that unsync() wakes the right process depends on it. *)
(***************************************************************************)

Holding(p) == pc[p] \in {"multi", "block"} /\ ~(mode = "multi" /\ p = Head(rlr))

ProcInv(p) ==
  /\ evflg[p] = zlr[p] /\ zlr[p] \subseteq evlist[p] /\ evwait[p] = evlist[p]
  /\ Holding(p) => evlist[p] = wants[p]
  /\ ~Holding(p) => evlist[p] = {}
  /\ pc[p] \in {"multi", "block"} => wants[p] # {}
  /\ pc[p] = "multi" => "MUTEX" \notin wants[p]
  /\ pc[p] = "block" => wants[p] = {"MUTEX"} \/ "MUTEX" \notin wants[p]
  /\ p \in nrl => Holding(p) /\ zlr[p] = {}

WaitListInv == Distinct(sy_wait) /\ Members(sy_wait) = nrl \cap Asking

EventInv ==
  /\ \A p \in Procs : ProcInv(p)
  /\ mode = "multi" => pc[Head(rlr)] = "multi"
  /\ WaitListInv

LEMMA EventInit == Init => EventInv
<1> SUFFICES ASSUME Init
             PROVE  EventInv
  OBVIOUS
<1>1. ASSUME NEW p \in Procs
      PROVE  ProcInv(p)
  BY DEF Init, ProcInv, Holding
<1>2. WaitListInv
  BY DEF Init, WaitListInv, Members, Distinct, Asking
<1> QED
  BY <1>1, <1>2 DEF Init, EventInv

(* A step that is about other processes. *)
LEMMA Untouched ==
  ASSUME NEW q, ProcInv(q),
         evlist'[q] = evlist[q], zlr'[q] = zlr[q], evflg'[q] = evflg[q],
         evwait'[q] = evwait[q], pc'[q] = pc[q], wants'[q] = wants[q],
         q \in nrl' => q \in nrl,
         Holding(q)' <=> Holding(q)
  PROVE  ProcInv(q)'
  BY DEF ProcInv

(* The process at the head of the ready list is not asleep. *)
LEMMA HeadAwake ==
  ASSUME TypeOK, ListInv, rlr # <<>>
  PROVE  Head(rlr) \in Procs /\ Head(rlr) \notin nrl
  BY TailFacts DEF TypeOK, ListInv, OneList

(* The completion of an event somebody waits for. In unsync() the          *)
(* dispatcher comes right after it.                                        *)
LEMMA AzombieEvent ==
  ASSUME TypeOK, ListInv, EventInv, NEW p \in Procs, NEW k \in Kinds,
         k \in Pending(p), azombie(p, k), UNCHANGED <<evlist, evwait, wants>>,
         \A q \in Procs : /\ pc'[q] \in {"multi", "block"} <=> pc[q] \in {"multi", "block"}
                          /\ pc[q] \in {"multi", "block"} => pc'[q] = pc[q],
         UNCHANGED <<rlr, mode>> \/ (mode = "run" /\ mode' = "disp")
  PROVE  /\ \A q \in Procs : ProcInv(q)'
         /\ nrl' = nrl \ {p}
<1>1. \A q \in Procs : ProcInv(q)
  BY DEF EventInv
<1>2. /\ zlr' = [zlr EXCEPT ![p] = @ \cup {k}]
      /\ evflg' = [evflg EXCEPT ![p] = @ \cup {k}]
  BY DEF azombie
<1>3. k \in evwait[p] /\ k \in evflg'[p]
  BY <1>1, <1>2 DEF Pending, ProcInv, TypeOK
<1>4. nrl' = nrl \ {p}
  BY <1>3 DEF azombie
<1>5. ASSUME NEW q \in Procs
      PROVE  Holding(q)' <=> Holding(q)
  BY DEF Holding
<1>6. ASSUME NEW q \in Procs
      PROVE  ProcInv(q)'
  <2>1. CASE q # p
    BY <1>1, <1>2, <1>4, <1>5, <2>1 DEF ProcInv, TypeOK
  <2>2. CASE q = p
    <3>1. ProcInv(p) /\ (Holding(p)' <=> Holding(p))
      BY <1>1, <1>5
    <3>2. evlist'[p] = evlist[p] /\ evwait'[p] = evwait[p] /\ wants'[p] = wants[p]
      OBVIOUS
    <3>3. zlr'[p] = zlr[p] \cup {k} /\ evflg'[p] = evflg[p] \cup {k}
      BY <1>2 DEF TypeOK
    <3>4. p \notin nrl' /\ k \in evlist[p]
      BY <1>4 DEF Pending
    <3> QED
      BY <2>2, <3>1, <3>2, <3>3, <3>4 DEF ProcInv
  <2> QED
    BY <2>1, <2>2
<1> QED
  BY <1>4, <1>6

(* The events that the forks complete are not the semaphore. *)
LEMMA ForkEvent ==
  ASSUME TypeOK, ListInv, EventInv, NEW p \in Procs, NEW k \in Kinds \ {"MUTEX"},
         k \in Pending(p), azombie(p, k),
         UNCHANGED <<rlr, mode, pc, wants, evlist, evwait, sy_wait>>
  PROVE  EventInv'
<1>1. (\A q \in Procs : ProcInv(q)') /\ nrl' = nrl \ {p}
  BY AzombieEvent
<1>2. p \notin Asking
  BY DEF EventInv, ProcInv, Asking, Pending, Holding
<1>3. nrl' \cap Asking' = nrl \cap Asking
  BY <1>1, <1>2 DEF Asking
<1> QED
  BY <1>1, <1>3 DEF EventInv, WaitListInv

(* The start of a wait by a process that holds nothing. *)
LEMMA IasyncEvent ==
  ASSUME TypeOK, ListInv, EventInv, NEW p \in Procs, rlr # <<>>, p = Head(rlr),
         NEW ks \in SUBSET Kinds, NEW now \in SUBSET ks, ks # {},
         mode \in {"run", "multi"}, ~Holding(p),
         iasync(p, ks, now),
         pc' \in [Procs -> {"user", "multi", "block", "new", "leave"}],
         wants' \in [Procs -> SUBSET Kinds],
         \A q \in Procs \ {p} : pc'[q] = pc[q] /\ wants'[q] = wants[q],
         wants'[p] = ks,
         \/ pc'[p] = "multi" /\ "MUTEX" \notin ks
         \/ pc'[p] = "block" /\ (ks = {"MUTEX"} \/ "MUTEX" \notin ks)
  PROVE  /\ \A q \in Procs : ProcInv(q)'
         /\ nrl' = IF now = {} THEN nrl \cup {p} ELSE nrl
         /\ mode' # "multi"
<1>1. p \notin nrl
  BY HeadAwake
<1>2. /\ evlist[p] = {} /\ zlr[p] = {} /\ evflg[p] = {} /\ evwait[p] = {}
      /\ \A q \in Procs : ProcInv(q)
  BY DEF EventInv, ProcInv
<1>3. /\ evlist' = [evlist EXCEPT ![p] = @ \cup ks]
      /\ zlr' = [zlr EXCEPT ![p] = @ \cup now]
      /\ evflg' = [evflg EXCEPT ![p] = @ \cup now]
      /\ evwait' = [evwait EXCEPT ![p] = ks]
  BY DEF iasync, mwait
<1>4. nrl' = (IF now = {} THEN nrl \cup {p} ELSE nrl) /\ mode' \in {"run", "disp"}
  BY <1>2 DEF iasync, mwait, lists
<1>5. ASSUME NEW q \in Procs, q # p
      PROVE  ProcInv(q)'
  <2>1. Holding(q)' <=> Holding(q)
    BY <1>4, <1>5 DEF Holding
  <2> QED
    BY <1>2, <1>3, <1>4, <1>5, <2>1 DEF ProcInv, TypeOK
<1>6. ProcInv(p)'
  <2>1. /\ evlist'[p] = ks /\ evwait'[p] = ks /\ zlr'[p] = now /\ evflg'[p] = now
    BY <1>2, <1>3 DEF TypeOK
  <2>2. Holding(p)'
    BY <1>4 DEF Holding
  <2> QED
    BY <1>1, <1>4, <2>1, <2>2 DEF ProcInv
<1> QED
  BY <1>4, <1>5, <1>6

(* A process that holds nothing goes from one point of its own code to     *)
(* another, the dispatcher comes or goes, and nothing else happens.        *)
LEMMA QuietEvent ==
  ASSUME TypeOK, ListInv, EventInv, UNCHANGED <<nrl, events, sy_wait>>,
         UNCHANGED <<rlr, mode>> \/ (mode # "multi" /\ mode' # "multi"),
         \A q \in Procs :
           \/ pc'[q] = pc[q] /\ wants'[q] = wants[q]
           \/ pc[q] \notin {"multi", "block"} /\ pc'[q] \notin {"multi", "block"}
  PROVE  EventInv'
<1>1. ASSUME NEW q \in Procs
      PROVE  ProcInv(q)'
  <2>1. ProcInv(q) /\ (Holding(q)' <=> Holding(q))
    BY DEF EventInv, Holding
  <2>2. CASE pc'[q] = pc[q] /\ wants'[q] = wants[q]
    BY <2>1, <2>2 DEF ProcInv, events
  <2>3. CASE pc[q] \notin {"multi", "block"} /\ pc'[q] \notin {"multi", "block"}
    BY <2>1, <2>3 DEF ProcInv, Holding, events
  <2> QED
    BY <2>2, <2>3
<1>2. Asking' = Asking
  BY DEF Asking
<1>3. mode' = "multi" => pc'[Head(rlr')] = "multi"
  BY HeadAwake DEF EventInv, ListInv
<1> QED
  BY <1>1, <1>2, <1>3 DEF EventInv, WaitListInv

(* unsync() takes a process off the wait list, and wakes that one.         *)
LEMMA UnsyncEvent ==
  ASSUME TypeOK, ListInv, EventInv, NEW p \in Procs, rlr # <<>>, p = Head(rlr),
         mode = "run", unsync(p), UNCHANGED wants,
         \A q \in Procs :
           \/ pc'[q] = pc[q]
           \/ pc[q] \notin {"multi", "block"} /\ pc'[q] \notin {"multi", "block"}
  PROVE  EventInv'
<1>1. CASE sy_tas = 1 /\ sy_wait # <<>>
  <2> DEFINE h == Head(sy_wait)
  <2>1. /\ azombie(h, "MUTEX") /\ sy_wait' = Tail(sy_wait) /\ mode' = "disp"
        /\ UNCHANGED <<evlist, evwait>>
    BY <1>1 DEF unsync, disp_act
  <2>2. /\ h \in Procs /\ h \in Members(sy_wait)
        /\ Members(sy_wait) = Members(Tail(sy_wait)) \cup {h}
        /\ Distinct(Tail(sy_wait)) /\ h \notin Members(Tail(sy_wait))
    BY <1>1, TailFacts DEF TypeOK, EventInv, WaitListInv
  <2>3. h \in nrl /\ h \in Asking
    BY <2>2 DEF EventInv, WaitListInv
  <2>4. "MUTEX" \in Pending(h)
    BY <2>2, <2>3 DEF EventInv, ProcInv, Asking, Pending
  <2>5. /\ UNCHANGED <<evlist, evwait, wants>>
        /\ \A q \in Procs :
             /\ pc'[q] \in {"multi", "block"} <=> pc[q] \in {"multi", "block"}
             /\ pc[q] \in {"multi", "block"} => pc'[q] = pc[q]
        /\ mode = "run" /\ mode' = "disp"
        /\ "MUTEX" \in Kinds
    BY <2>1 DEF Kinds
  <2> HIDE DEF h
  <2>6. (\A q \in Procs : ProcInv(q)') /\ nrl' = nrl \ {h}
    BY <2>1, <2>2, <2>4, <2>5, AzombieEvent
  <2>7. Asking' = Asking
    BY DEF Asking
  <2>8. WaitListInv'
    BY <2>1, <2>2, <2>6, <2>7 DEF EventInv, WaitListInv
  <2> QED
    BY <2>5, <2>6, <2>8 DEF EventInv
<1>2. CASE ~(sy_tas = 1 /\ sy_wait # <<>>)
  <2>1. UNCHANGED <<lists, mode, events, sy_wait>>
    BY <1>2 DEF unsync, lock, TypeOK
  <2> QED
    BY <2>1, QuietEvent DEF lists
<1> QED
  BY <1>1, <1>2

(* The end of ev_block() or ev_multi(): the process gives up all it held.  *)
LEMMA ApretEvent ==
  ASSUME TypeOK, ListInv, EventInv, NEW p \in Procs, rlr # <<>>, p = Head(rlr),
         mode = "run", UNCHANGED <<lists, mode, wants, sy_wait>>,
         pc' = Return(p),
         evlist' = [evlist EXCEPT ![p] = {}], zlr' = [zlr EXCEPT ![p] = {}],
         evflg' = [evflg EXCEPT ![p] = {}], evwait' = [evwait EXCEPT ![p] = {}]
  PROVE  EventInv'
<1>1. p \notin nrl
  BY HeadAwake
<1>2. ASSUME NEW q \in Procs
      PROVE  ProcInv(q)'
  <2>1. CASE q # p
    BY <1>2, <2>1, Untouched DEF EventInv, Holding, Return, TypeOK, lists
  <2>2. CASE q = p
    <3>1. pc'[p] \in {"user", "leave"}
      BY DEF TypeOK, Return
    <3>2. evlist'[p] = {} /\ zlr'[p] = {} /\ evflg'[p] = {} /\ evwait'[p] = {}
      BY DEF TypeOK
    <3> QED
      BY <1>1, <2>2, <3>1, <3>2 DEF ProcInv, Holding, lists
  <2> QED
    BY <2>1, <2>2
<1>3. nrl' \cap Asking' = nrl \cap Asking
  BY <1>1 DEF Asking, Return, TypeOK, lists
<1> QED
  BY <1>2, <1>3 DEF EventInv, WaitListInv

LEMMA EventNext == TypeOK /\ ListInv /\ EventInv /\ [Next]_vars => EventInv'
<1> SUFFICES ASSUME TypeOK, ListInv, EventInv, [Next]_vars
             PROVE  EventInv'
  OBVIOUS
<1>1. TypeOK'
  BY TypeNext
<1>2. ASSUME UNCHANGED <<lists, mode, pc, wants, events, sy_wait>>
      PROVE  EventInv'
  BY <1>2, QuietEvent DEF lists
<1>3. CASE interrupt \/ forker
  BY <1>2, <1>3 DEF interrupt, forker, lock
<1>4. CASE kchange
  <2>1. gl_mowner \in Procs /\ "KEYBD" \in Kinds \ {"MUTEX"}
    BY DEF TypeOK, Kinds
  <2>2. CASE /\ "KEYBD" \in Pending(gl_mowner)
             /\ azombie(gl_mowner, "KEYBD")
             /\ UNCHANGED <<rlr, evlist, evwait>>
    <3>1. UNCHANGED <<rlr, mode, pc, wants, evlist, evwait, sy_wait>>
      BY <1>4, <2>2 DEF kchange, lock
    <3> QED
      BY <2>1, <2>2, <3>1, ForkEvent
  <2>3. CASE UNCHANGED <<lists, events>>
    BY <1>2, <1>4, <2>3 DEF kchange, lock
  <2> QED
    BY <1>4, <2>2, <2>3 DEF kchange
<1>5. CASE bchange
  <2>1. PICK m \in Procs :
          \/ UNCHANGED <<lists, events>>
          \/ /\ "BUTTON" \in Pending(m) /\ azombie(m, "BUTTON")
             /\ UNCHANGED <<rlr, evlist, evwait>>
    BY <1>5 DEF bchange
  <2>2. "BUTTON" \in Kinds \ {"MUTEX"} /\ UNCHANGED <<mode, pc, wants, sy_wait>>
    BY <1>5 DEF Kinds, bchange, lock
  <2> QED
    BY <2>1, <2>2, <1>2, ForkEvent
<1>6. CASE tchange
  <2>1. \/ UNCHANGED <<lists, events>>
        \/ \E p \in Procs : /\ "TIMER" \in Pending(p) /\ azombie(p, "TIMER")
                            /\ UNCHANGED <<rlr, evlist, evwait>>
    BY <1>6 DEF tchange
  <2>2. "TIMER" \in Kinds \ {"MUTEX"} /\ UNCHANGED <<mode, pc, wants, sy_wait>>
    BY <1>6 DEF Kinds, tchange, lock
  <2> QED
    BY <2>1, <2>2, <1>2, ForkEvent
<1>7. CASE schedule
  <2>1. /\ UNCHANGED <<nrl, pc, wants, events, sy_wait>>
        /\ mode # "multi" /\ mode' # "multi"
    BY <1>7 DEF schedule, lock
  <2> QED
    BY <2>1, QuietEvent
<1>8. CASE \E p \in Procs : ProcStep(p)
  <2>1. PICK p \in Procs : ProcStep(p)
    BY <1>8
  <2>2. CASE super(p) \/ dsptch(p)
    <3>1. /\ UNCHANGED <<nrl, wants, events, sy_wait>>
          /\ mode # "multi" /\ mode' # "multi"
      BY <2>2 DEF super, dsptch, Running, disp_act, lock
    <3>2. pc' = pc \/ (pc[p] = "leave" /\ pc' = [pc EXCEPT ![p] = "user"])
      BY <2>2 DEF super, dsptch, Running
    <3>3. \A q \in Procs :
            \/ pc'[q] = pc[q] /\ wants'[q] = wants[q]
            \/ pc[q] \notin {"multi", "block"} /\ pc'[q] \notin {"multi", "block"}
      BY <3>1, <3>2 DEF TypeOK
    <3> QED
      BY <3>1, <3>3, QuietEvent
  <2>3. CASE \E k \in Block : ev_block(p, k)
    <3>1. PICK k \in Block : ev_block(p, k)
      BY <2>3
    <3>2. PICK ks : ks = {k}
      OBVIOUS
    <3>3. PICK now \in AtOnce(p, k) : iasync(p, ks, now)
      BY <3>1, <3>2 DEF ev_block
    <3>4. /\ ks \in SUBSET Kinds /\ ks # {} /\ "MUTEX" \notin ks
          /\ now \in SUBSET ks
      BY SchedAssumption, <3>2, <3>3 DEF AtOnce
    <3>5. /\ rlr # <<>> /\ p = Head(rlr) /\ mode \in {"run", "multi"} /\ pc[p] = "user"
          /\ pc' = [pc EXCEPT ![p] = "block"]
          /\ wants' = [wants EXCEPT ![p] = ks]
          /\ UNCHANGED sy_wait
      BY <3>1, <3>2 DEF ev_block, Running, lock
    <3>6. /\ pc' \in [Procs -> {"user", "multi", "block", "new", "leave"}]
          /\ wants' \in [Procs -> SUBSET Kinds]
          /\ \A q \in Procs \ {p} : pc'[q] = pc[q] /\ wants'[q] = wants[q]
          /\ wants'[p] = ks /\ pc'[p] = "block"
          /\ ~Holding(p)
      BY <1>1, <3>5 DEF TypeOK, Holding
    <3>7. /\ \A q \in Procs : ProcInv(q)'
          /\ nrl' = IF now = {} THEN nrl \cup {p} ELSE nrl
          /\ mode' # "multi"
      BY <3>3, <3>4, <3>5, <3>6, IasyncEvent
    <3>8. nrl' \cap Asking' = nrl \cap Asking
      BY <3>4, <3>5, <3>6, <3>7, HeadAwake DEF Asking
    <3> QED
      BY <3>5, <3>7, <3>8 DEF EventInv, WaitListInv
  <2>4. CASE \E flags \in Multi : ev_multi(p, flags)
    <3>1. PICK flags \in Multi : ev_multi(p, flags)
      BY <2>4
    <3>2. /\ rlr # <<>> /\ p = Head(rlr) /\ mode = "run" /\ pc[p] = "user"
          /\ mode' = "multi"
          /\ UNCHANGED <<lists, events, sy_wait>>
      BY <3>1 DEF ev_multi, Running, lock
    <3>3. /\ pc'[p] = "multi" /\ wants'[p] = flags
          /\ \A q \in Procs \ {p} : pc'[q] = pc[q] /\ wants'[q] = wants[q]
      BY <3>1 DEF ev_multi, TypeOK
    <3>4. flags # {} /\ "MUTEX" \notin flags
      BY SchedAssumption
    <3>5. ASSUME NEW q \in Procs
          PROVE  ProcInv(q)'
      <4>1. CASE q # p
        BY <3>2, <3>3, <4>1, Untouched DEF EventInv, Holding, lists, events
      <4>2. CASE q = p
        <5>1. ~Holding(p) /\ ~Holding(p)' /\ ProcInv(p)
          BY <3>2 DEF EventInv, Holding, lists
        <5> QED
          BY <3>2, <3>3, <3>4, <4>2, <5>1, HeadAwake DEF ProcInv, lists, events
      <4> QED
        BY <4>1, <4>2
    <3>6. Asking' = Asking
      BY <3>2, <3>3 DEF Asking
    <3> QED
      BY <3>2, <3>3, <3>5, <3>6 DEF EventInv, WaitListInv, lists
  <2>5. CASE multi_check(p)
    <3>1. /\ mode = "multi" /\ rlr # <<>> /\ p = Head(rlr) /\ pc[p] = "multi"
          /\ UNCHANGED <<wants, sy_wait>>
      BY <2>5 DEF multi_check, EventInv, lock
    <3>2. ProcInv(p) /\ ~Holding(p) /\ p \notin nrl
      BY <3>1, HeadAwake DEF EventInv, Holding
    <3>3. CASE mode' = "run" /\ pc' = Return(p) /\ UNCHANGED <<lists, events>>
      <4>1. pc'[p] \in {"user", "leave"} /\ \A q \in Procs \ {p} : pc'[q] = pc[q]
        BY <3>3 DEF Return, TypeOK
      <4>2. ASSUME NEW q \in Procs
            PROVE  ProcInv(q)'
        <5>1. CASE q # p
          BY <3>1, <3>3, <4>1, <5>1, Untouched DEF EventInv, Holding, lists, events
        <5>2. CASE q = p
          BY <3>1, <3>2, <3>3, <4>1, <5>2 DEF ProcInv, Holding, lists, events
        <5> QED
          BY <5>1, <5>2
      <4>3. Asking' = Asking
        BY <3>1, <4>1 DEF Asking
      <4> QED
        BY <3>1, <3>3, <4>2, <4>3 DEF EventInv, WaitListInv, lists
    <3>4. CASE /\ \E now \in SUBSET (wants[p] \cap {"BUTTON"}) : iasync(p, wants[p], now)
               /\ UNCHANGED <<kcnt, pc>>
      <4>1. PICK now \in SUBSET (wants[p] \cap {"BUTTON"}) : iasync(p, wants[p], now)
        BY <3>4
      <4>2. /\ wants[p] \in SUBSET Kinds /\ wants[p] # {} /\ "MUTEX" \notin wants[p]
            /\ now \in SUBSET wants[p]
        BY <3>1, <3>2 DEF ProcInv, TypeOK
      <4>3. PICK ks : ks = wants[p]
        OBVIOUS
      <4>4. /\ \A q \in Procs : ProcInv(q)'
            /\ nrl' = IF now = {} THEN nrl \cup {p} ELSE nrl
            /\ mode' # "multi"
        <5>1. /\ mode \in {"run", "multi"} /\ iasync(p, ks, now)
              /\ ks \in SUBSET Kinds /\ now \in SUBSET ks /\ ks # {} /\ "MUTEX" \notin ks
              /\ pc' \in [Procs -> {"user", "multi", "block", "new", "leave"}]
              /\ wants' \in [Procs -> SUBSET Kinds]
              /\ \A q \in Procs \ {p} : pc'[q] = pc[q] /\ wants'[q] = wants[q]
              /\ wants'[p] = ks /\ pc'[p] = "multi"
          BY <3>1, <3>4, <4>1, <4>2, <4>3 DEF TypeOK
        <5> QED
          BY <3>1, <3>2, <5>1, IasyncEvent
      <4>5. nrl' \cap Asking' = nrl \cap Asking
        BY <3>1, <3>2, <3>4, <4>4 DEF Asking
      <4> QED
        BY <3>1, <4>4, <4>5 DEF EventInv, WaitListInv
    <3> QED
      BY <2>5, <3>3, <3>4 DEF multi_check
  <2>6. CASE block_ret(p) \/ multi_ret(p)
    <3>1. /\ mode = "run" /\ rlr # <<>> /\ p = Head(rlr) /\ pc' = Return(p)
          /\ pc[p] \in {"block", "multi"}
          /\ UNCHANGED <<lists, mode, wants, sy_wait>>
      BY <2>6 DEF block_ret, multi_ret, Running, apret, lock
    <3>2. /\ evflg[p] = zlr[p] /\ zlr[p] \subseteq evlist[p]
          /\ evwait[p] = evlist[p] /\ evlist[p] = wants[p]
      BY <3>1 DEF EventInv, ProcInv, Holding
    <3>3. /\ evlist' = [evlist EXCEPT ![p] = {}] /\ zlr' = [zlr EXCEPT ![p] = {}]
          /\ evflg' = [evflg EXCEPT ![p] = {}] /\ evwait' = [evwait EXCEPT ![p] = {}]
      <4>1. CASE block_ret(p)
        BY <3>2, <4>1 DEF block_ret, apret, TypeOK
      <4>2. CASE multi_ret(p)
        BY <3>2, <4>2 DEF multi_ret, apret, Pending, TypeOK
      <4> QED
        BY <2>6, <4>1, <4>2
    <3> QED
      BY <3>1, <3>3, ApretEvent
  <2>7. CASE wm_update_beg(p)
    <3>1. CASE MayTake(p)
      <4>1. /\ pc' = Return(p) /\ pc[p] = "user"
            /\ UNCHANGED <<lists, mode, wants, events, sy_wait>>
        BY <2>7, <3>1 DEF wm_update_beg, Running
      <4>2. \A q \in Procs :
              \/ pc'[q] = pc[q] /\ wants'[q] = wants[q]
              \/ pc[q] \notin {"multi", "block"} /\ pc'[q] \notin {"multi", "block"}
        BY <4>1 DEF Return, TypeOK
      <4> QED
        BY <4>1, <4>2, QuietEvent DEF lists
    <3>2. CASE ~MayTake(p)
      <4>1. /\ mode = "run" /\ rlr # <<>> /\ p = Head(rlr) /\ pc[p] = "user"
            /\ sy_wait' = <<p>> \o sy_wait
            /\ pc' = [pc EXCEPT ![p] = "block"]
            /\ wants' = [wants EXCEPT ![p] = {"MUTEX"}]
            /\ iasync(p, {"MUTEX"}, {})
        BY <2>7, <3>2 DEF wm_update_beg, Running
      <4>2. /\ pc' \in [Procs -> {"user", "multi", "block", "new", "leave"}]
            /\ wants' \in [Procs -> SUBSET Kinds]
            /\ \A q \in Procs \ {p} : pc'[q] = pc[q] /\ wants'[q] = wants[q]
            /\ wants'[p] = {"MUTEX"} /\ pc'[p] = "block"
            /\ ~Holding(p)
            /\ {"MUTEX"} \in SUBSET Kinds /\ {} \in SUBSET {"MUTEX"}
        BY <1>1, <4>1 DEF TypeOK, Holding, Kinds
      <4>3. /\ \A q \in Procs : ProcInv(q)'
            /\ nrl' = nrl \cup {p}
            /\ mode' # "multi"
        BY <4>1, <4>2, IasyncEvent
      <4>4. p \notin nrl /\ p \notin Members(sy_wait)
        BY <4>1, HeadAwake DEF EventInv, WaitListInv
      <4>5. Members(sy_wait') = {p} \cup Members(sy_wait) /\ Distinct(sy_wait')
        BY <4>1, <4>4, ConsFacts DEF TypeOK, EventInv, WaitListInv
      <4>6. nrl' \cap Asking' = {p} \cup (nrl \cap Asking)
        BY <4>2, <4>3, <4>4 DEF Asking
      <4> QED
        BY <4>3, <4>5, <4>6 DEF EventInv, WaitListInv
    <3> QED
      BY <3>1, <3>2
  <2>8. CASE wm_update_end(p)
    <3>1. /\ mode = "run" /\ rlr # <<>> /\ p = Head(rlr) /\ pc[p] = "user"
          /\ unsync(p) /\ pc' = Return(p) /\ UNCHANGED wants
      BY <2>8 DEF wm_update_end, Running
    <3>2. \A q \in Procs :
            \/ pc'[q] = pc[q]
            \/ pc[q] \notin {"multi", "block"} /\ pc'[q] \notin {"multi", "block"}
      BY <3>1 DEF Return, TypeOK
    <3> QED
      BY <3>1, <3>2, UnsyncEvent
  <2>9. CASE wm_new(p)
    <3>1. CASE Running(p, "new") /\ unsync(p) /\ UNCHANGED <<pc, inside>>
      BY <2>9, <3>1, UnsyncEvent DEF wm_new, Running
    <3>2. CASE UNCHANGED <<lists, mode, events, lock>>
      <4>1. /\ UNCHANGED wants
            /\ \/ pc' = pc
               \/ pc[p] \in {"user", "new"} /\ pc' = [pc EXCEPT ![p] = "new"]
               \/ pc[p] \in {"user", "new"} /\ pc' = Return(p)
        BY <2>9 DEF wm_new, Running
      <4>2. \A q \in Procs :
              \/ pc'[q] = pc[q] /\ wants'[q] = wants[q]
              \/ pc[q] \notin {"multi", "block"} /\ pc'[q] \notin {"multi", "block"}
        BY <4>1 DEF Return, TypeOK
      <4> QED
        BY <3>2, <4>2, QuietEvent DEF lists, lock
    <3> QED
      BY <2>9, <3>1, <3>2 DEF wm_new
  <2>10. CASE \E m \in Procs : set_mown(p, m)
    <3>1. PICK m \in Procs : set_mown(p, m)
      BY <2>10
    <3>2. /\ mode = "run" /\ pc[p] = "user" /\ pc' = Return(p)
          /\ UNCHANGED <<mode, wants, sy_wait>>
      BY <3>1 DEF set_mown, Running, lock
    <3>3. \A q \in Procs :
            \/ pc'[q] = pc[q]
            \/ pc[q] \notin {"multi", "block"} /\ pc'[q] \notin {"multi", "block"}
      BY <3>2 DEF Return, TypeOK
    <3>4. CASE UNCHANGED <<lists, events>>
      BY <3>2, <3>3, <3>4, QuietEvent DEF lists
    <3>5. CASE /\ "BUTTON" \in Pending(m) /\ azombie(m, "BUTTON")
               /\ UNCHANGED <<rlr, evlist, evwait>>
      <4>1. "BUTTON" \in Kinds
        BY DEF Kinds
      <4>2. (\A q \in Procs : ProcInv(q)') /\ nrl' = nrl \ {m}
        BY <3>2, <3>3, <3>5, <4>1, AzombieEvent
      <4>3. m \notin Asking /\ Asking' = Asking
        BY <3>2, <3>3, <3>5 DEF EventInv, ProcInv, Asking, Pending, Holding
      <4> QED
        BY <3>2, <4>2, <4>3 DEF EventInv, WaitListInv
    <3> QED
      BY <3>1, <3>4, <3>5 DEF set_mown
  <2> QED
    BY <2>1, <2>2, <2>3, <2>4, <2>5, <2>6, <2>7, <2>8, <2>9, <2>10 DEF ProcStep
<1>9. CASE UNCHANGED vars
  BY <1>2, <1>9 DEF vars, lock
<1> QED
  BY <1>3, <1>4, <1>5, <1>6, <1>7, <1>8, <1>9 DEF Next, Kernel

LEMMA EventImplies ==
  ASSUME TypeOK, EventInv
  PROVE  NoLostWakeup /\ NoEventLeak
<1>1. NoLostWakeup
  <2>1. ASSUME NEW p \in nrl
        PROVE  evwait[p] \subseteq Pending(p) /\ evwait[p] # {}
    <3>1. ProcInv(p)
      BY DEF EventInv, TypeOK
    <3> QED
      BY <2>1, <3>1 DEF ProcInv, Holding, Pending
  <2> QED
    BY <2>1 DEF NoLostWakeup
<1>2. NoEventLeak
  BY DEF EventInv, ProcInv, Holding, NoEventLeak
<1> QED
  BY <1>1, <1>2

LEMMA EventCorrect == Spec => [](TypeOK /\ ListInv /\ EventInv)
<1>1. Init => TypeOK /\ ListInv /\ EventInv
  BY TypeInit, ListInit, EventInit
<1>2. TypeOK /\ ListInv /\ EventInv /\ [Next]_vars => (TypeOK /\ ListInv /\ EventInv)'
  BY TypeNext, ListNext, EventNext
<1> QED
  BY <1>1, <1>2, PTL DEF Spec

(* No process sleeps on an event that has already completed, nor on one it *)
(* has no block for: completion and mwait() never miss each other.         *)
THEOREM WakeupsKept == Spec => []NoLostWakeup
<1>1. TypeOK /\ ListInv /\ EventInv => NoLostWakeup
  BY EventImplies
<1> QED
  BY <1>1, EventCorrect, PTL

(* A process never comes back to its own code with an event block left.    *)
THEOREM NothingLeaks == Spec => []NoEventLeak
<1>1. TypeOK /\ ListInv /\ EventInv => NoEventLeak
  BY EventImplies
<1> QED
  BY <1>1, EventCorrect, PTL

(***************************************************************************)
(* Who has the screen, as long as nobody calls wm_new(). The count of the  *)
(* semaphore is what its owner is owed: the calls it is inside, and one    *)
(* more if it was handed the semaphore and has not run since.              *)
(***************************************************************************)

LockInv ==
  /\ \A p \in Procs : pc[p] # "new"
  /\ sy_tas = 0 <=> sy_owner = NoProc
  /\ \A p \in Procs : p # sy_owner => inside[p] = 0
  /\ \A p \in Asking : inside[p] = 0 /\ (p \in Members(sy_wait) \/ p = sy_owner)
  /\ sy_owner \in Procs =>
       /\ sy_owner \notin Members(sy_wait)
       /\ sy_tas = inside[sy_owner] + (IF sy_owner \in Asking THEN 1 ELSE 0)
  /\ sy_wait # <<>> => sy_tas > 0

LEMMA LockInit == Init => LockInv
<1> SUFFICES ASSUME Init
             PROVE  LockInv
  OBVIOUS
<1> QED
  BY SchedAssumption DEF Init, LockInv, Asking, Members

(* A step that neither takes nor gives, nor makes anybody wait for it. *)
LEMMA QuietLock ==
  ASSUME LockInv, UNCHANGED <<lock, inside>>, Asking' = Asking,
         \A p \in Procs : pc'[p] # "new"
  PROVE  LockInv'
  BY DEF LockInv, lock

(* The three things wm_update() does, and that a process that is told it   *)
(* has the semaphore is its owner.                                         *)
LEMMA TakeLock ==
  ASSUME TypeOK, LockInv, NEW p \in Procs, MayTake(p), pc[p] = "user",
         sy_tas' = sy_tas + 1, sy_owner' = p, UNCHANGED <<sy_wait, wants>>,
         inside' = [inside EXCEPT ![p] = @ + 1], pc' = Return(p)
  PROVE  LockInv' /\ Asking' = Asking /\ (\A q \in Procs \ {p} : inside[q] = 0)
<1>1. /\ pc'[p] \in {"user", "leave"} /\ inside'[p] = inside[p] + 1
      /\ \A q \in Procs \ {p} : pc'[q] = pc[q] /\ inside'[q] = inside[q]
  BY DEF TypeOK, Return
<1>2. Asking' = Asking /\ p \notin Asking
  BY <1>1 DEF Asking
<1>3. inside[p] \in Nat /\ sy_tas \in Nat /\ p # NoProc
  BY SchedAssumption DEF TypeOK
<1>4. \A q \in Procs \ {p} : inside[q] = 0
  BY <1>3, SchedAssumption DEF MayTake, LockInv
<1>5. CASE sy_owner = p
  BY <1>1, <1>2, <1>3, <1>4, <1>5 DEF LockInv
<1>6. CASE sy_owner # p
  <2>1. sy_tas = 0 /\ sy_owner = NoProc /\ sy_wait = <<>> /\ inside[p] = 0
    BY <1>3, <1>6 DEF MayTake, LockInv
  <2>2. Members(sy_wait) = {} /\ Asking = {}
    BY <2>1, SchedAssumption DEF LockInv, Members, Asking
  <2> QED
    BY <1>1, <1>2, <1>3, <1>4, <2>1, <2>2 DEF LockInv
<1> QED
  BY <1>2, <1>4, <1>5, <1>6

LEMMA WaitLock ==
  ASSUME TypeOK, LockInv, NEW p \in Procs, ~MayTake(p), pc[p] = "user",
         sy_wait' = <<p>> \o sy_wait, UNCHANGED <<sy_tas, sy_owner, inside>>,
         pc' = [pc EXCEPT ![p] = "block"], wants' = [wants EXCEPT ![p] = {"MUTEX"}]
  PROVE  LockInv' /\ p \notin Asking /\ inside[p] = 0 /\ Asking' = Asking \cup {p}
<1>1. Asking' = Asking \cup {p} /\ p \notin Asking
  BY DEF Asking, TypeOK
<1>2. sy_tas > 0 /\ sy_owner # p
  BY DEF MayTake, TypeOK
<1>3. Members(sy_wait') = {p} \cup Members(sy_wait)
  BY ConsFacts DEF TypeOK
<1>4. \A q \in Procs : pc'[q] # "new"
  BY DEF LockInv, TypeOK
<1>5. inside[p] = 0
  BY <1>2 DEF LockInv
<1> QED
  BY <1>1, <1>2, <1>3, <1>4, <1>5 DEF LockInv

LEMMA GiveLock ==
  ASSUME TypeOK, LockInv, EventInv, NEW p \in Procs, pc[p] = "user",
         inside[p] > 0 \/ sy_tas = 0, unsync(p), UNCHANGED wants, pc' = Return(p),
         inside' = [inside EXCEPT ![p] = IF @ > 0 THEN @ - 1 ELSE 0]
  PROVE  LockInv' /\ Asking' = Asking /\ p \notin Asking
<1>1. /\ pc'[p] \in {"user", "leave"}
      /\ inside'[p] = (IF inside[p] > 0 THEN inside[p] - 1 ELSE 0)
      /\ \A q \in Procs \ {p} : pc'[q] = pc[q] /\ inside'[q] = inside[q]
  BY DEF TypeOK, Return
<1>2. Asking' = Asking /\ p \notin Asking
  BY <1>1 DEF Asking
<1>3. inside[p] \in Nat /\ sy_tas \in Nat /\ p # NoProc
      /\ sy_owner \in Procs \cup {NoProc}
  BY SchedAssumption DEF TypeOK
<1>4. CASE sy_tas = 0
  <2>1. inside[p] = 0 /\ UNCHANGED lock
    BY <1>3, <1>4 DEF unsync, LockInv
  <2> QED
    BY <1>1, <1>2, <1>3, <2>1 DEF LockInv, lock
<1>5. CASE sy_tas > 0
  <2>1. sy_owner = p /\ sy_tas = inside[p]
    BY <1>2, <1>3, <1>5 DEF LockInv
  <2>2. CASE sy_tas > 1
    BY <1>1, <1>2, <1>3, <2>1, <2>2 DEF unsync, LockInv
  <2>3. CASE sy_tas = 1 /\ sy_wait = <<>>
    <3>1. sy_tas' = 0 /\ sy_owner' = NoProc /\ sy_wait' = <<>>
      BY <1>3, <2>3 DEF unsync
    <3>2. Members(sy_wait) = {}
      BY <2>3 DEF Members
    <3>3. Asking = {}
      BY <1>2, <2>1, <3>2 DEF LockInv
    <3> QED
      BY <1>1, <1>2, <1>3, <2>1, <2>3, <3>1, <3>3, SchedAssumption DEF LockInv
  <2>4. CASE sy_tas = 1 /\ sy_wait # <<>>
    <3> DEFINE h == Head(sy_wait)
    <3>1. sy_wait' = Tail(sy_wait) /\ sy_owner' = h /\ sy_tas' = 1
      BY <1>3, <2>4 DEF unsync
    <3>2. /\ h \in Procs /\ Members(sy_wait) = Members(Tail(sy_wait)) \cup {h}
          /\ h \notin Members(Tail(sy_wait))
      BY <2>4, TailFacts DEF TypeOK, EventInv, WaitListInv
    <3>3. h \in Asking /\ inside[h] = 0 /\ h # p
      BY <1>2, <3>2 DEF EventInv, WaitListInv, LockInv
    <3>4. inside'[h] = 0 /\ inside'[p] = 0
      BY <1>1, <2>1, <2>4, <3>2, <3>3
    <3> HIDE DEF h
    <3>5. \A q \in Procs : inside'[q] = 0
      BY <1>1, <2>1, <3>4 DEF LockInv
    <3>6. \A q \in Asking : q \in Members(sy_wait') \/ q = sy_owner'
      BY <1>2, <2>1, <3>1, <3>2 DEF LockInv
    <3> QED
      BY <1>1, <1>2, <3>1, <3>2, <3>3, <3>5, <3>6, SchedAssumption DEF LockInv, Asking
  <2> QED
    BY <1>3, <1>5, <2>2, <2>3, <2>4
<1> QED
  BY <1>3, <1>4, <1>5

LEMMA HandedLock ==
  ASSUME TypeOK, ListInv, EventInv, LockInv, NEW p \in Procs, block_ret(p), p \in Asking
  PROVE  /\ LockInv' /\ Asking' = Asking \ {p} /\ inside[p] = 0
         /\ inside' = [inside EXCEPT ![p] = 1]
         /\ \A q \in Procs \ {p} : inside[q] = 0
<1>1. /\ p = Head(rlr) /\ rlr # <<>> /\ pc' = Return(p)
      /\ inside' = [inside EXCEPT ![p] = 1] /\ UNCHANGED <<wants, lock>>
  BY DEF block_ret, Running, apret, Asking
<1>2. p \notin Members(sy_wait)
  BY <1>1, HeadAwake DEF EventInv, WaitListInv
<1>3. sy_owner = p /\ inside[p] = 0 /\ sy_tas = 1
  BY <1>2 DEF LockInv
<1>4. /\ pc'[p] \in {"user", "leave"} /\ inside'[p] = 1
      /\ \A q \in Procs \ {p} : pc'[q] = pc[q] /\ inside'[q] = inside[q]
  BY <1>1 DEF TypeOK, Return
<1>5. Asking' = Asking \ {p}
  BY <1>1, <1>4 DEF Asking
<1>6. \A q \in Procs \ {p} : inside[q] = 0
  BY <1>3 DEF LockInv
<1> QED
  BY <1>1, <1>2, <1>3, <1>4, <1>5, <1>6 DEF LockInv, lock

(* Every step is a step of ScreenLock, or none. *)
LEMMA LockNext ==
  ASSUME Quitters = {}, TypeOK, ListInv, EventInv, LockInv, [Next]_vars
  PROVE  LockInv' /\ [Screen!Next]_(Screen!vars)
<1>1. ASSUME UNCHANGED <<pc, wants, lock, inside>>
      PROVE  LockInv' /\ UNCHANGED Screen!vars
  <2>1. Asking' = Asking
    BY <1>1 DEF Asking
  <2> QED
    BY <1>1, <2>1, QuietLock DEF LockInv, Screen!vars
<1>2. ASSUME NEW p \in Procs, UNCHANGED <<lock, inside>>, Asking' = Asking,
             pc' = pc \/ pc' = Return(p) \/ pc' = [pc EXCEPT ![p] = "user"]
               \/ pc' = [pc EXCEPT ![p] = "block"] \/ pc' = [pc EXCEPT ![p] = "multi"]
      PROVE  LockInv' /\ UNCHANGED Screen!vars
  <2>1. \A q \in Procs : pc'[q] # "new"
    BY <1>2 DEF LockInv, Return, TypeOK
  <2> QED
    BY <1>2, <2>1, QuietLock DEF Screen!vars
<1>3. CASE interrupt \/ Kernel \/ UNCHANGED vars
  <2>1. UNCHANGED <<pc, wants, lock, inside>>
    BY <1>3 DEF interrupt, Kernel, forker, kchange, bchange, tchange, schedule, vars
  <2> QED
    BY <1>1, <2>1
<1>4. CASE \E p \in Procs : ProcStep(p)
  <2>1. PICK p \in Procs : ProcStep(p)
    BY <1>4
  <2>2. CASE super(p) \/ dsptch(p)
    <3>1. /\ UNCHANGED <<wants, lock, inside>>
          /\ pc' = pc \/ (pc[p] = "leave" /\ pc' = [pc EXCEPT ![p] = "user"])
      BY <2>2 DEF super, dsptch, Running
    <3>2. Asking' = Asking
      BY <3>1 DEF Asking, TypeOK
    <3> QED
      BY <1>2, <3>1, <3>2
  <2>3. CASE \E k \in Block : ev_block(p, k)
    <3>1. PICK k \in Block : ev_block(p, k)
      BY <2>3
    <3>2. /\ UNCHANGED <<lock, inside>> /\ pc[p] = "user" /\ k # "MUTEX"
          /\ pc' = [pc EXCEPT ![p] = "block"] /\ wants' = [wants EXCEPT ![p] = {k}]
      BY <3>1, SchedAssumption DEF ev_block, Running
    <3>3. Asking' = Asking
      BY <3>2 DEF Asking, TypeOK
    <3> QED
      BY <1>2, <3>2, <3>3
  <2>4. CASE \E flags \in Multi : ev_multi(p, flags)
    <3>1. PICK flags \in Multi : ev_multi(p, flags)
      BY <2>4
    <3>2. /\ UNCHANGED <<lock, inside>> /\ pc[p] = "user"
          /\ pc' = [pc EXCEPT ![p] = "multi"] /\ wants' = [wants EXCEPT ![p] = flags]
      BY <3>1 DEF ev_multi, Running
    <3>3. Asking' = Asking
      BY <3>2 DEF Asking, TypeOK
    <3> QED
      BY <1>2, <3>2, <3>3
  <2>5. CASE multi_check(p) \/ multi_ret(p)
    <3>1. /\ UNCHANGED <<wants, lock, inside>> /\ pc[p] = "multi"
          /\ pc' = pc \/ pc' = Return(p)
      BY <2>5 DEF multi_check, multi_ret, Running, apret, EventInv
    <3>2. Asking' = Asking
      BY <3>1 DEF Asking, Return, TypeOK
    <3> QED
      BY <1>2, <3>1, <3>2
  <2>6. CASE block_ret(p)
    <3>1. CASE p \in Asking
      <4>1. /\ LockInv' /\ Asking' = Asking \ {p}
            /\ inside' = [inside EXCEPT ![p] = 1] /\ inside[p] = 0
            /\ \A q \in Procs \ {p} : inside[q] = 0
        BY <2>6, <3>1, HandedLock
      <4>2. inside' = [inside EXCEPT ![p] = @ + 1]
        BY <4>1
      <4>3. Screen!Take(p)
        BY <4>1, <4>2 DEF Screen!Take, Screen!Free
      <4> QED
        BY <4>1, <4>3 DEF Screen!Next
    <3>2. CASE p \notin Asking
      <4>1. pc[p] = "block" /\ pc' = Return(p) /\ UNCHANGED <<wants, lock>>
        BY <2>6 DEF block_ret, Running, apret
      <4>2. wants[p] # {"MUTEX"}
        BY <3>2, <4>1 DEF Asking
      <4>3. inside' = inside
        BY <2>6, <4>2 DEF block_ret, TypeOK
      <4>4. Asking' = Asking
        BY <3>2, <4>1 DEF Asking, Return, TypeOK
      <4> QED
        BY <1>2, <4>1, <4>3, <4>4
    <3> QED
      BY <3>1, <3>2
  <2>7. CASE wm_update_beg(p)
    <3>1. pc[p] = "user"
      BY <2>7 DEF wm_update_beg, Running
    <3>2. CASE MayTake(p)
      <4>1. /\ sy_tas' = sy_tas + 1 /\ sy_owner' = p /\ UNCHANGED <<sy_wait, wants>>
            /\ inside' = [inside EXCEPT ![p] = @ + 1] /\ pc' = Return(p)
        BY <2>7, <3>2 DEF wm_update_beg
      <4>2. LockInv' /\ Asking' = Asking /\ (\A q \in Procs \ {p} : inside[q] = 0)
        BY <3>1, <3>2, <4>1, TakeLock
      <4>3. p \notin Asking
        BY <3>1 DEF Asking
      <4>4. Screen!Take(p)
        BY <4>1, <4>2, <4>3 DEF Screen!Take, Screen!Free
      <4> QED
        BY <4>2, <4>4 DEF Screen!Next
    <3>3. CASE ~MayTake(p)
      <4>1. /\ sy_wait' = <<p>> \o sy_wait /\ UNCHANGED <<sy_tas, sy_owner, inside>>
            /\ pc' = [pc EXCEPT ![p] = "block"]
            /\ wants' = [wants EXCEPT ![p] = {"MUTEX"}]
        BY <2>7, <3>3 DEF wm_update_beg
      <4>2. LockInv' /\ p \notin Asking /\ inside[p] = 0 /\ Asking' = Asking \cup {p}
        BY <3>1, <3>3, <4>1, WaitLock
      <4>3. Screen!Ask(p)
        BY <4>1, <4>2 DEF Screen!Ask
      <4> QED
        BY <4>2, <4>3 DEF Screen!Next
    <3> QED
      BY <3>2, <3>3
  <2>8. CASE wm_update_end(p)
    <3>1. /\ pc[p] = "user" /\ (inside[p] > 0 \/ sy_tas = 0) /\ unsync(p)
          /\ UNCHANGED wants /\ pc' = Return(p)
          /\ inside' = [inside EXCEPT ![p] = IF @ > 0 THEN @ - 1 ELSE 0]
      BY <2>8 DEF wm_update_end, Running
    <3>2. LockInv' /\ Asking' = Asking /\ p \notin Asking
      BY <3>1, GiveLock
    <3>3. CASE inside[p] > 0
      <4>1. inside' = [inside EXCEPT ![p] = @ - 1]
        BY <3>1, <3>3
      <4>2. Screen!Give(p)
        BY <3>2, <3>3, <4>1 DEF Screen!Give
      <4> QED
        BY <3>2, <4>2 DEF Screen!Next
    <3>4. CASE ~(inside[p] > 0)
      <4>1. inside' = inside
        BY <3>1, <3>4 DEF TypeOK
      <4> QED
        BY <3>2, <4>1 DEF Screen!vars
    <3> QED
      BY <3>3, <3>4
  <2>9. CASE wm_new(p)
    BY <2>9 DEF wm_new
  <2>10. CASE \E m \in Procs : set_mown(p, m)
    <3>1. /\ UNCHANGED <<wants, lock, inside>> /\ pc[p] = "user" /\ pc' = Return(p)
      BY <2>10 DEF set_mown, Running
    <3>2. Asking' = Asking
      BY <3>1 DEF Asking, Return, TypeOK
    <3> QED
      BY <1>2, <3>1, <3>2
  <2> QED
    BY <2>1, <2>2, <2>3, <2>4, <2>5, <2>6, <2>7, <2>8, <2>9, <2>10 DEF ProcStep
<1> QED
  BY <1>3, <1>4 DEF Next

LEMMA LockCorrect ==
  ASSUME Quitters = {}
  PROVE  Spec => [](TypeOK /\ ListInv /\ EventInv /\ LockInv)
<1>1. Init => TypeOK /\ ListInv /\ EventInv /\ LockInv
  BY TypeInit, ListInit, EventInit, LockInit
<1>2. TypeOK /\ ListInv /\ EventInv /\ LockInv /\ [Next]_vars
        => (TypeOK /\ ListInv /\ EventInv /\ LockInv)'
  BY TypeNext, ListNext, EventNext, LockNext
<1> QED
  BY <1>1, <1>2, PTL DEF Spec

(* As long as nobody calls wm_new(), the screen belongs to one process     *)
(* between wm_update(BEG_UPDATE) and the matching END_UPDATE.              *)
THEOREM ScreenExclusive ==
  ASSUME Quitters = {}
  PROVE  Spec => []MutualExclusion
<1>1. TypeOK /\ LockInv => MutualExclusion
  <2> SUFFICES ASSUME TypeOK, LockInv, NEW p \in Procs, NEW q \in Procs,
                      inside[p] > 0, inside[q] > 0
               PROVE  p = q
    BY DEF MutualExclusion
  <2>1. p = sy_owner /\ q = sy_owner
    BY DEF LockInv
  <2> QED
    BY <2>1
<1> QED
  BY <1>1, LockCorrect, PTL

(* ... and whoever sleeps for it is on its wait list, behind an owner. *)
THEOREM ScreenHandedOn ==
  ASSUME Quitters = {}
  PROVE  Spec => []LockHandedOn
<1>1. TypeOK /\ EventInv /\ LockInv => LockHandedOn
  <2> SUFFICES ASSUME TypeOK, EventInv, LockInv
               PROVE  LockHandedOn
    OBVIOUS
  <2>1. \A p \in nrl : "MUTEX" \in evwait[p] <=> p \in Asking
    BY DEF EventInv, ProcInv, Holding, Asking, TypeOK
  <2>2. Members(sy_wait) = {p \in nrl : "MUTEX" \in evwait[p]}
    BY <2>1 DEF EventInv, WaitListInv
  <2>3. sy_wait # <<>> => sy_tas > 0 /\ sy_owner \in Procs \ Members(sy_wait)
    BY DEF LockInv, TypeOK
  <2> QED
    BY <2>2, <2>3 DEF EventInv, WaitListInv, LockHandedOn
<1> QED
  BY <1>1, LockCorrect, PTL

(* ... so that wm_update() implements the nested lock of ScreenLock.       *)
THEOREM ScreenRefines ==
  ASSUME Quitters = {}
  PROVE  Spec => ScreenLockSpec
<1>1. Init => Screen!Init
  BY DEF Init, Screen!Init, Asking
<1>2. TypeOK /\ ListInv /\ EventInv /\ LockInv /\ [Next]_vars
        => [Screen!Next]_(Screen!vars)
  BY LockNext
<1> QED
  BY <1>1, <1>2, LockCorrect, PTL DEF Spec, ScreenLockSpec, Screen!Spec
=============================================================================
