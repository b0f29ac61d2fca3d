--------------------------- MODULE AESQueue_proofs ---------------------------
(***************************************************************************)
(* Proofs about the message pipe, for any number of processes, windows and *)
(* parts of the screen, and any size of the pipe that satisfies RoomForAll.*)
(***************************************************************************)
EXTENDS AESQueue, SequenceTheorems, FiniteSetTheorems, WellFoundedInduction, TLAPS

(***************************************************************************)
(* What doq(TRUE) does with a message.                                     *)
(***************************************************************************)

Smaller == OpToRel(<, Nat)

(* doq() finds the first message to merge with, if there is any. *)
LEMMA FirstFacts ==
  ASSUME NEW I \in SUBSET Nat, I # {}
  PROVE  First(I) \in I
<1>1. PICK i \in I : \A j \in I : ~(<<j, i>> \in Smaller)
  BY NatLessThanWellFounded, WFMin, Zenon DEF Smaller
<1>2. ASSUME NEW j \in I, j < i
      PROVE  <<j, i>> \in Smaller
  BY <1>2, Zenon DEF Smaller, OpToRel
<1>3. \A j \in I : ~(j < i)
  BY <1>1, <1>2
<1>4. \A j \in I : i <= j
  BY <1>3
<1> QED
  BY <1>4 DEF First

(* It leaves a list of messages that is as long as it was, or one longer. *)
LEMMA PutType ==
  ASSUME NEW s \in Seq(Message), NEW m \in Message
  PROVE  /\ Put(s, m) \in Seq(Message)
         /\ Len(Put(s, m)) = Len(s) \/ Len(Put(s, m)) = Len(s) + 1
         /\ s = <<>> => Put(s, m) = <<m>>
<1>1. CASE Mergeable(s, m) = {}
  <2>1. Put(s, m) = Append(s, m)
    BY <1>1 DEF Put
  <2>2. s = <<>> => Append(s, m) = <<m>>
    OBVIOUS
  <2> QED
    BY <2>1, <2>2, AppendProperties
<1>2. CASE Mergeable(s, m) # {}
  <2> DEFINE i == First(Mergeable(s, m))
  <2>1. i \in DOMAIN s
    <3>1. Mergeable(s, m) \in SUBSET Nat /\ Mergeable(s, m) \subseteq DOMAIN s
      BY DEF Mergeable
    <3> QED
      BY <1>2, <3>1, FirstFacts
  <2> HIDE DEF i
  <2>2. s[i] \in Message /\ [s[i] EXCEPT !.area = @ \cup m.area] \in Message
    <3>1. s[i] \in Message
      BY <2>1
    <3> QED
      BY <3>1 DEF Message
  <2>3. PICK n \in Message : Merge(s, i, m) = [s EXCEPT ![i] = n]
    BY <2>2 DEF Merge
  <2>4. Put(s, m) = [s EXCEPT ![i] = n]
    BY <1>2, <2>3 DEF Put, i
  <2>5. s # <<>>
    BY <2>1
  <2> QED
    BY <2>1, <2>4, <2>5, ExceptSeq
<1> QED
  BY <1>1, <1>2

(* The redraws in a list of messages. *)
Covered(s) ==
  {r \in Handles \X Areas : \E i \in DOMAIN s :
     s[i].kind = "WM_REDRAW" /\ s[i].wh = r[1] /\ r[2] \in s[i].area}

(* doq(TRUE) loses no redraw, and adds those of the message. *)
LEMMA PutCovers ==
  ASSUME NEW s \in Seq(Message), NEW m \in Message
  PROVE  Covered(s) \cup Redraws(m) \subseteq Covered(Put(s, m))
<1>1. Redraws(m) \subseteq Handles \X Areas
  BY DEF Redraws, Message
<1>2. CASE Mergeable(s, m) = {}
  <2>1. Put(s, m) = Append(s, m)
    BY <1>2 DEF Put
  <2>2. /\ DOMAIN s = 1 .. Len(s) /\ DOMAIN Append(s, m) = 1 .. Len(s) + 1
        /\ Len(s) \in Nat /\ Append(s, m)[Len(s) + 1] = m
        /\ \A i \in DOMAIN s : i \in DOMAIN Append(s, m) /\ Append(s, m)[i] = s[i]
        /\ Len(s) + 1 \in DOMAIN Append(s, m)
    OBVIOUS
  <2>3. Covered(s) \subseteq Covered(Append(s, m))
    BY <2>2 DEF Covered
  <2>4. Redraws(m) \subseteq Covered(Append(s, m))
    BY <1>1, <2>2 DEF Covered, Redraws
  <2> QED
    BY <2>1, <2>3, <2>4
<1>3. CASE Mergeable(s, m) # {}
  <2> DEFINE i == First(Mergeable(s, m))
  <2>1. i \in Mergeable(s, m) /\ i \in DOMAIN s
    <3>1. Mergeable(s, m) \in SUBSET Nat /\ Mergeable(s, m) \subseteq DOMAIN s
      BY DEF Mergeable
    <3> QED
      BY <1>3, <3>1, FirstFacts
  <2>2. Put(s, m) = Merge(s, i, m)
    BY <1>3 DEF Put
  <2> HIDE DEF i
  <2>3. s[i] \in Message
    BY <2>1
  <2>4. ASSUME NEW r \in Covered(s) \cup Redraws(m)
        PROVE  r \in Covered(Merge(s, i, m))
    <3>1. r \in Handles \X Areas
      BY <1>1, <2>4 DEF Covered
    <3>2. CASE s[i].kind = "WM_REDRAW"
      <4> DEFINE n == [s[i] EXCEPT !.area = @ \cup m.area]
      <4>1. Merge(s, i, m) = [s EXCEPT ![i] = n]
        BY <3>2 DEF Merge
      <4>2. /\ n.kind = "WM_REDRAW" /\ n.wh = s[i].wh
            /\ n.area = s[i].area \cup m.area
        BY <2>3, <3>2 DEF Message
      <4> HIDE DEF n
      <4>3. s[i].wh = m.wh
        BY <2>1, <3>2 DEF Mergeable
      <4>4. CASE r \in Covered(s)
        BY <2>1, <3>1, <4>1, <4>2, <4>4 DEF Covered
      <4>5. CASE r \in Redraws(m)
        BY <2>1, <3>1, <4>1, <4>2, <4>3, <4>5 DEF Covered, Redraws
      <4> QED
        BY <2>4, <4>4, <4>5
    <3>3. CASE s[i].kind # "WM_REDRAW"
      <4>1. Merge(s, i, m) = [s EXCEPT ![i] = m]
        BY <3>3 DEF Merge
      <4>2. CASE r \in Covered(s)
        BY <2>1, <3>1, <3>3, <4>1, <4>2 DEF Covered
      <4>3. CASE r \in Redraws(m)
        BY <2>1, <3>1, <4>1, <4>3 DEF Covered, Redraws
      <4> QED
        BY <2>4, <4>2, <4>3
    <3> QED
      BY <3>2, <3>3
  <2> QED
    BY <2>2, <2>4
<1> QED
  BY <1>2, <1>3

(* Taking the oldest message out takes out its redraws only. *)
LEMMA TailCovers ==
  ASSUME NEW s \in Seq(Message), s # <<>>
  PROVE  /\ Tail(s) \in Seq(Message) /\ Len(Tail(s)) = Len(s) - 1
         /\ Head(s) \in Message
         /\ Covered(s) \ Redraws(Head(s)) \subseteq Covered(Tail(s))
<1>1. /\ Tail(s) \in Seq(Message) /\ Len(Tail(s)) = Len(s) - 1
      /\ Head(s) \in Message /\ Head(s) = s[1] /\ Len(s) \in Nat
      /\ DOMAIN s = 1 .. Len(s) /\ DOMAIN Tail(s) = 1 .. Len(s) - 1
      /\ \A i \in 1 .. Len(s) - 1 : Tail(s)[i] = s[i + 1]
  OBVIOUS
<1>2. ASSUME NEW r \in Covered(s) \ Redraws(Head(s))
      PROVE  r \in Covered(Tail(s))
  <2>1. PICK i \in DOMAIN s : /\ s[i].kind = "WM_REDRAW" /\ s[i].wh = r[1]
                              /\ r[2] \in s[i].area
    BY <1>2 DEF Covered
  <2>2. r \in Handles \X Areas
    BY <1>2 DEF Covered
  <2>3. i # 1
    BY <1>1, <1>2, <2>1, <2>2 DEF Redraws
  <2>4. i - 1 \in 1 .. Len(s) - 1 /\ (i - 1) + 1 = i
    BY <1>1, <2>1, <2>3
  <2>5. i - 1 \in DOMAIN Tail(s) /\ Tail(s)[i - 1] = s[i]
    BY <1>1, <2>4
  <2> QED
    BY <2>1, <2>2, <2>5 DEF Covered
<1> QED
  BY <1>1, <1>2

(***************************************************************************)
(* Types.                                                                  *)
(***************************************************************************)

LEMMA MergedType ==
  ASSUME NEW s \in Seq(Message), NEW m \in Message
  PROVE  MergedBy(s, m) \in Kinds \X Kinds \cup {<<>>}
<1>1. CASE Mergeable(s, m) = {}
  BY <1>1 DEF MergedBy
<1>2. CASE Mergeable(s, m) # {}
  <2> DEFINE i == First(Mergeable(s, m))
  <2>1. i \in DOMAIN s
    <3>1. Mergeable(s, m) \in SUBSET Nat /\ Mergeable(s, m) \subseteq DOMAIN s
      BY DEF Mergeable
    <3> QED
      BY <1>2, <3>1, FirstFacts
  <2>2. MergedBy(s, m) = <<s[i].kind, m.kind>>
    BY <1>2 DEF MergedBy
  <2> HIDE DEF i
  <2>3. s[i] \in Message
    BY <2>1
  <2>4. s[i].kind \in Kinds /\ m.kind \in Kinds
    BY <2>3 DEF Message
  <2> QED
    BY <2>2, <2>4
<1> QED
  BY <1>1, <1>2

LEMMA RedrawsType ==
  ASSUME NEW m \in Message
  PROVE  Redraws(m) \subseteq Handles \X Areas
  BY DEF Redraws, Message

(* What the head of a list of waiting senders is. *)
LEMMA SenderFacts ==
  ASSUME TypeOK, qnq # <<>>
  PROVE  /\ Head(qnq).from \in Procs /\ Head(qnq).msg \in Message
         /\ Tail(qnq) \in Seq(Sender)
<1>1. Head(qnq) \in Sender /\ Tail(qnq) \in Seq(Sender)
  BY DEF TypeOK
<1> QED
  BY <1>1 DEF Sender

(* Writing a buffer changes the messages only of those who wait.           *)
LEMMA OverwriteFacts ==
  ASSUME TypeOK, NEW b \in Buffers, NEW m \in Message
  PROVE  /\ Overwrite(b, m) \in Seq(Sender)
         /\ DOMAIN Overwrite(b, m) = DOMAIN qnq /\ Len(Overwrite(b, m)) = Len(qnq)
         /\ \A i \in DOMAIN qnq : /\ Overwrite(b, m)[i].from = qnq[i].from
                                  /\ Overwrite(b, m)[i].buf = qnq[i].buf
<1>1. /\ DOMAIN qnq = 1 .. Len(qnq) /\ Len(qnq) \in Nat
      /\ \A i \in DOMAIN qnq : qnq[i] \in Sender
  BY DEF TypeOK
<1> DEFINE f(i) == IF qnq[i].buf = b /\ b # "own"
                   THEN [qnq[i] EXCEPT !.msg = m] ELSE qnq[i]
<1>2. ASSUME NEW i \in DOMAIN qnq
      PROVE  f(i) \in Sender /\ f(i).from = qnq[i].from /\ f(i).buf = qnq[i].buf
  <2>1. qnq[i] \in Sender
    BY <1>1
  <2> QED
    BY <2>1 DEF Sender
<1>3. Overwrite(b, m) = [i \in DOMAIN qnq |-> f(i)]
  BY DEF Overwrite
<1> HIDE DEF f
<1>4. Overwrite(b, m) \in [1 .. Len(qnq) -> Sender]
  BY <1>1, <1>2, <1>3
<1>5. Overwrite(b, m) \in Seq(Sender) /\ Len(Overwrite(b, m)) = Len(qnq)
  BY <1>1, <1>4, SeqDef, LenProperties
<1> QED
  BY <1>2, <1>3, <1>5

LEMMA RefillType ==
  ASSUME TypeOK, NEW rest \in Seq(Message), Len(rest) < Slots,
         NEW left \in SUBSET (Handles \X Areas), Refill(rest, left)
  PROVE  /\ q' \in Seq(Message) /\ Len(q') <= Slots
         /\ qnq' \in Seq(Sender)
         /\ st' \in [Procs -> {"run", "send", "wait", "awake", "sleep"}]
         /\ owed' \subseteq Handles \X Areas
         /\ merged' \in Kinds \X Kinds \cup {<<>>}
<1>1. CASE qnq = <<>>
  BY <1>1, QueueAssumption DEF Refill, TypeOK
<1>2. CASE qnq # <<>>
  <2> DEFINE e == Head(qnq)
  <2>1. /\ q' = Put(rest, e.msg) /\ owed' = left
        /\ merged' = MergedBy(rest, e.msg) /\ qnq' = Tail(qnq)
        /\ st' = [st EXCEPT ![e.from] = "run"]
    BY <1>2 DEF Refill
  <2>2. /\ e.from \in Procs /\ e.msg \in Message
        /\ Tail(qnq) \in Seq(Sender)
    BY <1>2, SenderFacts
  <2> HIDE DEF e
  <2>3. q' \in Seq(Message) /\ Len(q') <= Slots
    <3>1. /\ Put(rest, e.msg) \in Seq(Message)
          /\ Len(Put(rest, e.msg)) = Len(rest) \/ Len(Put(rest, e.msg)) = Len(rest) + 1
      BY <2>2, PutType
    <3>2. Len(rest) \in Nat /\ Slots \in Nat
      BY QueueAssumption
    <3> QED
      BY <2>1, <3>1, <3>2
  <2>4. merged' \in Kinds \X Kinds \cup {<<>>} /\ owed' \subseteq Handles \X Areas
    BY <2>1, <2>2, MergedType, RedrawsType
  <2> QED
    BY <2>1, <2>2, <2>3, <2>4 DEF TypeOK
<1> QED
  BY <1>1, <1>2

LEMMA SendType ==
  ASSUME TypeOK, NEW p \in Procs, NEW b \in Buffers, NEW m \in Message,
         ap_sendmsg(p, b, m)
  PROVE  TypeOK'
<1>o. Overwrite(b, m) \in Seq(Sender)
  BY OverwriteFacts
<1>1. CASE Len(q) < Slots
  <2>1. /\ Put(q, m) \in Seq(Message)
        /\ Len(Put(q, m)) = Len(q) \/ Len(Put(q, m)) = Len(q) + 1
        /\ q = <<>> => Put(q, m) = <<m>>
    BY PutType DEF TypeOK
  <2>2. Len(q) \in Nat /\ Slots \in Nat /\ (q # <<>> => Len(q) > 0)
    BY QueueAssumption DEF TypeOK
  <2>3. Put(q, m) # <<>> /\ Len(Put(q, m)) <= Slots
    <3>1. PICK s : s = Put(q, m)
      OBVIOUS
    <3>2. /\ s \in Seq(Message)
          /\ Len(s) = Len(q) \/ Len(s) = Len(q) + 1
          /\ q = <<>> => s = <<m>>
      BY <2>1, <3>1
    <3>3. Len(s) <= Slots
      BY <1>1, <2>2, <3>2
    <3>4. s # <<>>
      <4>1. CASE q = <<>>
        <5>1. s = <<m>>
          BY <3>2, <4>1
        <5>2. <<m>> # <<>>
          OBVIOUS
        <5> QED
          BY <5>1, <5>2
      <4>2. CASE q # <<>>
        <5>1. Len(s) > 0
          BY <2>2, <3>2, <4>2
        <5> QED
          BY <5>1
      <4> QED
        BY <4>1, <4>2
    <3> QED
      BY <3>1, <3>3, <3>4
  <2>4. merged' \in Kinds \X Kinds \cup {<<>>} /\ Redraws(m) \subseteq Handles \X Areas
    BY <1>1, <2>2, MergedType, RedrawsType DEF ap_sendmsg, HasRoom, TypeOK
  <2>5. CASE ~qdq
    <3>1. /\ q' = Put(q, m) /\ owed' = owed \cup Redraws(m)
          /\ qnq' = Overwrite(b, m) /\ UNCHANGED <<qdq, st, p_msg, flushed>>
      <4>1. HasRoom
        BY <1>1 DEF HasRoom
      <4> QED
        BY <2>5, <4>1, Zenon DEF ap_sendmsg
    <3> QED
      BY <1>o, <2>1, <2>3, <2>4, <3>1 DEF TypeOK
  <2>6. CASE qdq
    <3>1. /\ q' = Tail(Put(q, m))
          /\ owed' = (owed \cup Redraws(m)) \ Redraws(Head(Put(q, m)))
          /\ qdq' = FALSE /\ st' = [st EXCEPT ![owner] = "run"]
          /\ qnq' = Overwrite(b, m) /\ UNCHANGED <<p_msg, flushed>>
      <4>1. HasRoom
        BY <1>1 DEF HasRoom
      <4> QED
        BY <2>6, <4>1, Zenon DEF ap_sendmsg
    <3>2. Tail(Put(q, m)) \in Seq(Message) /\ Len(Tail(Put(q, m))) = Len(Put(q, m)) - 1
      BY <2>1, <2>3, TailCovers
    <3>3. Len(Tail(Put(q, m))) <= Slots
      <4>1. PICK n : n = Len(Put(q, m))
        OBVIOUS
      <4>2. n \in Nat /\ n <= Slots /\ Slots \in Nat
        BY <2>1, <2>2, <2>3, <4>1
      <4>3. n - 1 <= Slots
        BY <4>2
      <4> QED
        BY <3>2, <4>1, <4>3, Zenon
    <3> QED
      BY <1>o, <2>4, <3>1, <3>2, <3>3 DEF TypeOK
  <2> QED
    BY <2>5, <2>6 DEF TypeOK
<1>2. CASE Len(q) >= Slots
  <2>1. <<[from |-> p, buf |-> b, msg |-> m]>> \o Overwrite(b, m) \in Seq(Sender)
    <3>1. [from |-> p, buf |-> b, msg |-> m] \in Sender
      BY DEF Sender
    <3> QED
      BY <1>o, <3>1
  <2>2. ~HasRoom
    BY <1>2, QueueAssumption DEF HasRoom, TypeOK
  <2>3. /\ qnq' = <<[from |-> p, buf |-> b, msg |-> m]>> \o Overwrite(b, m)
        /\ st' = [st EXCEPT ![p] = "send"] /\ owed' = owed \cup Redraws(m)
        /\ UNCHANGED <<q, qdq, merged, p_msg, flushed>>
    BY <2>2, Zenon DEF ap_sendmsg
  <2>4. Redraws(m) \subseteq Handles \X Areas
    BY RedrawsType
  <2> QED
    BY <2>1, <2>3, <2>4 DEF TypeOK
<1> QED
  BY <1>1, <1>2, QueueAssumption DEF TypeOK

LEMMA QueueTypeNext == TypeOK /\ [Next]_vars => TypeOK'
<1> SUFFICES ASSUME TypeOK, [Next]_vars
             PROVE  TypeOK'
  OBVIOUS
<1>1. ASSUME NEW p \in Procs, NEW b \in Buffers, NEW m \in Messages,
             ap_sendmsg(p, b, m)
      PROVE  TypeOK'
  BY <1>1, SendType, QueueAssumption
<1>2. ASSUME NEW p \in Procs, NEW m \in Messages, handle_arrow_msg(p, m)
      PROVE  TypeOK'
  <2>1. CASE ap_sendmsg(p, "appl_msg", m)
    BY <1>1, <2>1 DEF Buffers
  <2>2. CASE /\ p_msg' = IF p_msg = None THEN m.wh ELSE p_msg
             /\ UNCHANGED <<q, qdq, qnq, st, flushed, owed, merged>>
    <3>1. m.wh \in Handles
      BY QueueAssumption DEF Message
    <3> QED
      BY <2>2, <3>1 DEF TypeOK
  <2> QED
    BY <1>2, <2>1, <2>2 DEF handle_arrow_msg
<1>3. ASSUME q # <<>>
      PROVE  /\ Tail(q) \in Seq(Message) /\ Len(Tail(q)) < Slots
             /\ owed \ Redraws(Head(q)) \subseteq Handles \X Areas
             /\ owed \subseteq Handles \X Areas
             /\ <<>> \in Seq(Message) /\ Len(<<>>) < Slots
  BY <1>3, TailCovers, QueueAssumption DEF TypeOK
<1>4. CASE ev_mesag
  <2>1. CASE Len(q) > 1 /\ Refill(Tail(q), owed \ Redraws(Head(q)))
             /\ UNCHANGED <<qdq, p_msg, flushed>>
    <3>1. q # <<>>
      BY <2>1
    <3> QED
      BY <1>3, <2>1, <3>1, RefillType DEF TypeOK
  <2>2. CASE Len(q) = 1 /\ q' = <<>> /\ owed' = owed \ Redraws(Head(q))
             /\ merged' = <<>> /\ UNCHANGED <<qdq, qnq, p_msg, st, flushed>>
    BY <2>2, QueueAssumption DEF TypeOK
  <2>3. CASE p_msg' = None /\ UNCHANGED <<q, qdq, qnq, st, owed, merged, flushed>>
    BY <2>3 DEF TypeOK
  <2>4. CASE qdq' = TRUE /\ st' = [st EXCEPT ![owner] = "wait"]
             /\ UNCHANGED <<q, qnq, p_msg, owed, merged, flushed>>
    BY <2>4 DEF TypeOK
  <2> QED
    BY <1>4, <2>1, <2>2, <2>3, <2>4 DEF ev_mesag
<1>5. CASE other_event \/ acancel \/ ev_block
  BY <1>5 DEF other_event, acancel, ev_block, TypeOK
<1>6. CASE ap_exit
  <2>1. CASE Refill(<<>>, owed \cap Waiting(qnq))
    <3>1. /\ <<>> \in Seq(Message) /\ Len(<<>>) < Slots
          /\ owed \cap Waiting(qnq) \in SUBSET (Handles \X Areas)
      BY QueueAssumption DEF Waiting
    <3> QED
      BY <1>6, <2>1, <3>1, RefillType DEF ap_exit, TypeOK
  <2>2. CASE /\ q' = <<>> /\ owed' = owed \cap Waiting(qnq) /\ merged' = <<>>
             /\ UNCHANGED <<qnq, st>>
    BY <1>6, <2>2, QueueAssumption DEF ap_exit, TypeOK
  <2> QED
    BY <1>6, <2>1, <2>2 DEF ap_exit
<1>7. ASSUME NEW p \in Procs, NEW b \in Buffers, NEW m \in Messages,
             send_elsewhere(p, b, m)
      PROVE  TypeOK'
  <2>1. Overwrite(b, m) \in Seq(Sender)
    BY OverwriteFacts, QueueAssumption
  <2> QED
    BY <1>7, <2>1 DEF send_elsewhere, TypeOK
<1>8. CASE UNCHANGED vars
  BY <1>8 DEF vars, TypeOK
<1> QED
  BY <1>1, <1>2, <1>4, <1>5, <1>6, <1>7, <1>8 DEF Next

LEMMA QueueTypeInit == Init => TypeOK
<1>1. <<>> \in Seq(Message) /\ <<>> \in Seq(Sender) /\ Len(<<>>) <= Slots
  BY QueueAssumption
<1> QED
  BY <1>1 DEF Init, TypeOK

(* Every variable of the pipe keeps its type, and the pipe never holds     *)
(* more messages than it has room for.                                     *)
THEOREM QueueTypeCorrect == Spec => []TypeOK
  BY QueueTypeInit, QueueTypeNext, PTL DEF Spec

(***************************************************************************)
(* The senders. p_qnq holds each sleeping sender once. A sender goes to    *)
(* sleep on a full pipe; from then on the pipe loses a message only when   *)
(* the owner reads one, and each time a sender is let in. So the messages  *)
(* and the senders that are awake stay more than the pipe has slots, which *)
(* leaves two messages or more while anybody sleeps.                       *)
(***************************************************************************)

SendersInv ==
  /\ \A i, j \in DOMAIN qnq : qnq[i].from = qnq[j].from => i = j
  /\ \A p \in Procs : p \in Blocked <=> \E i \in DOMAIN qnq : qnq[i].from = p

OwnerInv ==
  /\ qdq => q = <<>> /\ st[owner] \in {"wait", "awake"}
  /\ st[owner] = "wait" => qdq /\ p_msg = None

RoomInv ==
  ~flushed /\ Blocked # {} =>
    IF owner \in Blocked THEN Len(q) = Slots
    ELSE Len(q) + Cardinality(Procs) > Slots + Cardinality(Blocked)

QueueInv == SendersInv /\ OwnerInv /\ RoomInv

LEMMA BlockedFacts ==
  /\ Blocked \subseteq Procs /\ IsFiniteSet(Blocked)
  /\ Cardinality(Blocked) \in Nat /\ Cardinality(Procs) \in Nat
  /\ Cardinality(Blocked) <= Cardinality(Procs)
  /\ Blocked # {} => Cardinality(Blocked) > 0
  /\ owner \notin Blocked => Cardinality(Blocked) < Cardinality(Procs)
<1>1. Blocked \subseteq Procs
  BY DEF Blocked
<1>2. /\ IsFiniteSet(Blocked) /\ Cardinality(Blocked) <= Cardinality(Procs)
      /\ Cardinality(Procs) = Cardinality(Blocked) => Procs = Blocked
  BY <1>1, QueueAssumption, FS_Subset
<1>3. Cardinality(Blocked) \in Nat /\ Cardinality(Procs) \in Nat
  BY <1>2, QueueAssumption, FS_CardinalityType
<1>4. Blocked # {} => Cardinality(Blocked) # 0
  BY <1>2, FS_EmptySet
<1>5. owner \notin Blocked => Cardinality(Blocked) # Cardinality(Procs)
  BY <1>2, QueueAssumption
<1> QED
  BY <1>1, <1>2, <1>3, <1>4, <1>5

(* While a sender sleeps there are two messages, and it is on p_qnq.       *)
LEMMA TwoMessages ==
  ASSUME TypeOK, QueueInv
  PROVE  /\ qnq # <<>> <=> Blocked # {}
         /\ ~flushed /\ Blocked # {} => Len(q) >= 2
<1>1. qnq # <<>> <=> Blocked # {}
  <2>1. ASSUME qnq # <<>>
        PROVE  Blocked # {}
    <3>1. 1 \in DOMAIN qnq /\ qnq[1] \in Sender
      BY <2>1 DEF TypeOK
    <3> QED
      BY <3>1 DEF QueueInv, SendersInv, Sender
  <2>2. ASSUME Blocked # {}
        PROVE  qnq # <<>>
    BY <2>2 DEF QueueInv, SendersInv, Blocked
  <2> QED
    BY <2>1, <2>2
<1>2. ASSUME ~flushed, Blocked # {}
      PROVE  Len(q) >= 2
  <2>1. Len(q) \in Nat
    BY DEF TypeOK
  <2> QED
    BY <1>2, <2>1, BlockedFacts, RoomForAll, QueueAssumption DEF QueueInv, RoomInv
<1> QED
  BY <1>1, <1>2

(* A sender goes to sleep. *)
LEMMA PushSender ==
  ASSUME TypeOK, SendersInv, NEW p \in Procs, NEW b \in Buffers, NEW m \in Message,
         p \notin Blocked, st' = [st EXCEPT ![p] = "send"],
         qnq' = <<[from |-> p, buf |-> b, msg |-> m]>> \o Overwrite(b, m)
  PROVE  SendersInv' /\ Blocked' = Blocked \cup {p}
<1>1. /\ DOMAIN qnq = 1 .. Len(qnq) /\ DOMAIN qnq' = 1 .. Len(qnq) + 1
      /\ Len(qnq) \in Nat /\ qnq'[1].from = p
      /\ \A i \in 1 .. Len(qnq) : qnq'[i + 1].from = qnq[i].from
  <2> DEFINE s == Overwrite(b, m)
  <2>1. /\ s \in Seq(Sender) /\ DOMAIN s = DOMAIN qnq
        /\ \A i \in DOMAIN qnq : s[i].from = qnq[i].from
    BY OverwriteFacts
  <2>2. DOMAIN qnq = 1 .. Len(qnq) /\ Len(qnq) \in Nat
    BY DEF TypeOK
  <2>3. qnq' = <<[from |-> p, buf |-> b, msg |-> m]>> \o s
    OBVIOUS
  <2> HIDE DEF s
  <2>4. Len(s) = Len(qnq)
    BY <2>1, <2>2
  <2>5. /\ DOMAIN qnq' = 1 .. Len(s) + 1
        /\ qnq'[1] = [from |-> p, buf |-> b, msg |-> m]
        /\ \A i \in 1 .. Len(s) : qnq'[i + 1] = s[i]
    BY <2>1, <2>3
  <2> QED
    BY <2>1, <2>2, <2>4, <2>5
<1>2. Blocked' = Blocked \cup {p}
  BY DEF Blocked, TypeOK
<1>3. \A i \in DOMAIN qnq : qnq[i].from # p
  BY DEF SendersInv
<1>4. ASSUME NEW i \in DOMAIN qnq'
      PROVE  \/ i = 1 /\ qnq'[i].from = p
             \/ i - 1 \in DOMAIN qnq /\ qnq'[i].from = qnq[i - 1].from
  <2>1. i = 1 \/ (i - 1 \in 1 .. Len(qnq) /\ (i - 1) + 1 = i)
    BY <1>1
  <2> QED
    BY <1>1, <2>1
<1>5. ASSUME NEW i \in DOMAIN qnq', NEW j \in DOMAIN qnq', qnq'[i].from = qnq'[j].from
      PROVE  i = j
  <2>1. i \in Int /\ j \in Int
    BY <1>1
  <2>2. CASE i = 1 /\ qnq'[i].from = p
    BY <1>3, <1>4, <1>5, <2>2
  <2>3. CASE i - 1 \in DOMAIN qnq /\ qnq'[i].from = qnq[i - 1].from
    <3>1. j - 1 \in DOMAIN qnq /\ qnq'[j].from = qnq[j - 1].from
      BY <1>3, <1>4, <1>5, <2>3
    <3>2. i - 1 = j - 1
      BY <1>5, <2>3, <3>1 DEF SendersInv
    <3> QED
      BY <2>1, <3>2
  <2> QED
    BY <1>4, <2>2, <2>3
<1>6. ASSUME NEW r \in Procs
      PROVE  r \in Blocked' <=> \E i \in DOMAIN qnq' : qnq'[i].from = r
  <2>1. 1 \in DOMAIN qnq' /\ qnq'[1].from = p
    BY <1>1
  <2>2. ASSUME NEW i \in DOMAIN qnq
        PROVE  i + 1 \in DOMAIN qnq' /\ qnq'[i + 1].from = qnq[i].from
    BY <1>1
  <2>3. r \in Blocked' => \E i \in DOMAIN qnq' : qnq'[i].from = r
    <3>1. CASE r = p
      BY <2>1, <3>1
    <3>2. ASSUME r \in Blocked', r # p
          PROVE  \E i \in DOMAIN qnq' : qnq'[i].from = r
      <4>1. PICK i \in DOMAIN qnq : qnq[i].from = r
        BY <1>2, <3>2 DEF SendersInv
      <4> QED
        BY <2>2, <4>1
    <3> QED
      BY <3>1, <3>2
  <2>4. (\E i \in DOMAIN qnq' : qnq'[i].from = r) => r \in Blocked'
    BY <1>2, <1>4 DEF SendersInv
  <2> QED
    BY <2>3, <2>4
<1> QED
  BY <1>2, <1>5, <1>6 DEF SendersInv

(* The next sender is let in. *)
LEMMA PopSender ==
  ASSUME TypeOK, SendersInv, qnq # <<>>,
         qnq' = Tail(qnq), st' = [st EXCEPT ![Head(qnq).from] = "run"]
  PROVE  /\ SendersInv'
         /\ Head(qnq).from \in Blocked /\ Blocked' = Blocked \ {Head(qnq).from}
<1> DEFINE p == Head(qnq).from
<1>1. /\ DOMAIN qnq = 1 .. Len(qnq) /\ DOMAIN qnq' = 1 .. Len(qnq) - 1
      /\ Len(qnq) \in Nat /\ Len(qnq) >= 1 /\ Head(qnq) = qnq[1]
      /\ \A i \in 1 .. Len(qnq) - 1 : qnq'[i] = qnq[i + 1]
  BY DEF TypeOK
<1>2. p \in Procs /\ 1 \in DOMAIN qnq /\ qnq[1].from = p
  BY <1>1, SenderFacts
<1>3. p \in Blocked
  BY <1>2 DEF SendersInv
<1>4. Blocked' = Blocked \ {p}
  BY <1>2 DEF Blocked, TypeOK
<1> HIDE DEF p
<1>5. ASSUME NEW i \in DOMAIN qnq'
      PROVE  i + 1 \in DOMAIN qnq /\ qnq'[i] = qnq[i + 1] /\ i + 1 # 1 /\ i \in Int
  BY <1>1
<1>6. ASSUME NEW i \in DOMAIN qnq'
      PROVE  qnq'[i].from # p
  BY <1>2, <1>5 DEF SendersInv
<1>7. ASSUME NEW i \in DOMAIN qnq', NEW j \in DOMAIN qnq', qnq'[i].from = qnq'[j].from
      PROVE  i = j
  <2>1. i + 1 = j + 1
    BY <1>5, <1>7 DEF SendersInv
  <2> QED
    BY <1>5, <2>1
<1>8. ASSUME NEW r \in Procs
      PROVE  r \in Blocked' <=> \E i \in DOMAIN qnq' : qnq'[i].from = r
  <2>1. (\E i \in DOMAIN qnq' : qnq'[i].from = r) => r \in Blocked'
    BY <1>4, <1>5, <1>6 DEF SendersInv
  <2>2. ASSUME NEW i \in DOMAIN qnq, i # 1
        PROVE  i - 1 \in DOMAIN qnq' /\ qnq'[i - 1] = qnq[i]
    <3>1. i - 1 \in 1 .. Len(qnq) - 1 /\ (i - 1) + 1 = i
      BY <1>1, <2>2
    <3> QED
      BY <1>1, <3>1
  <2>3. r \in Blocked' => \E i \in DOMAIN qnq' : qnq'[i].from = r
    <3>1. ASSUME r \in Blocked'
          PROVE  \E i \in DOMAIN qnq' : qnq'[i].from = r
      <4>1. r # p
        BY <1>4, <3>1
      <4>2. PICK i \in DOMAIN qnq : qnq[i].from = r
        BY <1>4, <3>1 DEF SendersInv
      <4>3. i # 1
        BY <1>2, <4>1, <4>2
      <4> QED
        BY <2>2, <4>2, <4>3
    <3> QED
      BY <3>1
  <2> QED
    BY <2>1, <2>3
<1> QED
  BY <1>3, <1>4, <1>7, <1>8 DEF SendersInv, p

(* A step that lets no message out of the pipe, nor anybody sleep or wake. *)
LEMMA QuietRoom ==
  ASSUME TypeOK, TypeOK', QueueInv, Blocked' = Blocked, UNCHANGED flushed,
         DOMAIN qnq' = DOMAIN qnq,
         \A i \in DOMAIN qnq : qnq'[i].from = qnq[i].from, Len(q') >= Len(q)
  PROVE  SendersInv' /\ RoomInv'
<1>1. SendersInv'
  BY DEF QueueInv, SendersInv
<1>2. Len(q) \in Nat /\ Len(q') \in Nat /\ Len(q') <= Slots /\ Slots \in Nat
  BY QueueAssumption DEF TypeOK
<1>3. RoomInv'
  BY <1>2, BlockedFacts DEF QueueInv, RoomInv
<1> QED
  BY <1>1, <1>3

LEMMA SendQueue ==
  ASSUME TypeOK, QueueInv, NEW p \in Procs, NEW b \in Buffers, NEW m \in Message,
         ap_sendmsg(p, b, m)
  PROVE  QueueInv'
<1>1. TypeOK'
  BY SendType
<1>2. Len(q) \in Nat /\ Slots \in Nat /\ Len(q) <= Slots
  BY QueueAssumption DEF TypeOK
<1>3. st[p] = "run" /\ UNCHANGED <<p_msg, flushed>>
  BY DEF ap_sendmsg, MayWrite
<1>o. /\ DOMAIN Overwrite(b, m) = DOMAIN qnq
      /\ \A i \in DOMAIN qnq : Overwrite(b, m)[i].from = qnq[i].from
  BY OverwriteFacts
<1>4. CASE Len(q) < Slots
  <2>1. HasRoom
    BY <1>4 DEF HasRoom
  <2>2. /\ Len(Put(q, m)) = Len(q) \/ Len(Put(q, m)) = Len(q) + 1
        /\ q = <<>> => Put(q, m) = <<m>>
    BY PutType DEF TypeOK
  <2>3. CASE ~qdq
    <3>1. q' = Put(q, m) /\ qnq' = Overwrite(b, m) /\ UNCHANGED <<qdq, st>>
      BY <2>1, <2>3, Zenon DEF ap_sendmsg
    <3>2. Len(q') >= Len(q)
      BY <1>2, <2>2, <3>1
    <3>3. Blocked' = Blocked
      BY <3>1 DEF Blocked
    <3>4. OwnerInv'
      BY <1>3, <2>3, <3>1 DEF QueueInv, OwnerInv
    <3> QED
      BY <1>1, <1>3, <1>o, <3>1, <3>2, <3>3, <3>4, QuietRoom DEF QueueInv
  <2>4. CASE qdq
    <3>1. /\ q' = Tail(Put(q, m)) /\ qdq' = FALSE
          /\ st' = [st EXCEPT ![owner] = "run"] /\ qnq' = Overwrite(b, m)
      BY <2>1, <2>4, Zenon DEF ap_sendmsg
    <3>2. q = <<>> /\ st[owner] \in {"wait", "awake"}
      BY <2>4 DEF QueueInv, OwnerInv
    <3>3. q' = q
      BY <2>2, <3>1, <3>2
    <3>4. Blocked' = Blocked
      BY <3>1, <3>2, QueueAssumption DEF Blocked, TypeOK
    <3>5. OwnerInv'
      BY <3>1, QueueAssumption DEF OwnerInv, TypeOK
    <3>6. Len(q') >= Len(q)
      BY <1>2, <3>3
    <3> QED
      BY <1>1, <1>3, <1>o, <3>1, <3>4, <3>5, <3>6, QuietRoom DEF QueueInv
  <2> QED
    BY <2>3, <2>4
<1>5. CASE Len(q) >= Slots
  <2>1. ~(Len(q) < Slots) /\ Len(q) = Slots
    BY <1>2, <1>5
  <2>2. /\ qnq' = <<[from |-> p, buf |-> b, msg |-> m]>> \o Overwrite(b, m)
        /\ st' = [st EXCEPT ![p] = "send"] /\ UNCHANGED <<q, qdq>>
    BY <2>1, Zenon DEF ap_sendmsg, HasRoom
  <2>3. p \notin Blocked
    BY <1>3 DEF Blocked
  <2>4. SendersInv' /\ Blocked' = Blocked \cup {p}
    BY <2>2, <2>3, PushSender DEF QueueInv
  <2>5. q # <<>>
    BY <2>1, RoomForAll, QueueAssumption
  <2>6. OwnerInv'
    BY <1>3, <2>2, <2>5 DEF QueueInv, OwnerInv, TypeOK
  <2>7. RoomInv'
    <3>1. /\ owner \notin Blocked' => Cardinality(Blocked') < Cardinality(Procs)
          /\ Cardinality(Blocked') \in Nat /\ Cardinality(Procs) \in Nat
      <4>1. Blocked' \subseteq Procs /\ IsFiniteSet(Blocked')
            /\ Cardinality(Blocked') <= Cardinality(Procs)
            /\ (Cardinality(Procs) = Cardinality(Blocked') => Procs = Blocked')
        BY <2>4, BlockedFacts, QueueAssumption, FS_Subset
      <4>2. Cardinality(Blocked') \in Nat /\ Cardinality(Procs) \in Nat
        BY <4>1, QueueAssumption, FS_CardinalityType
      <4> QED
        BY <4>1, <4>2, QueueAssumption
    <3> QED
      BY <1>2, <2>1, <2>2, <3>1 DEF RoomInv
  <2> QED
    BY <2>4, <2>6, <2>7 DEF QueueInv
<1> QED
  BY <1>2, <1>4, <1>5

(* A read that lets the next sender in. *)
LEMMA RefillQueue ==
  ASSUME TypeOK, QueueInv, NEW rest \in Seq(Message), NEW left,
         Refill(rest, left), st[owner] = "run", ~qdq,
         UNCHANGED <<qdq, p_msg>>,
         \/ flushed'
         \/ UNCHANGED flushed /\ Len(rest) = Len(q) - 1 /\ Len(q) > 1
  PROVE  QueueInv'
<1>1. owner \notin Blocked
  BY DEF Blocked
<1>2. Len(q) \in Nat /\ Len(rest) \in Nat /\ Slots \in Nat
  BY QueueAssumption DEF TypeOK
<1>3. CASE qnq = <<>>
  <2>1. UNCHANGED <<qnq, st>>
    BY <1>3 DEF Refill
  <2>2. Blocked' = Blocked /\ Blocked = {}
    BY <1>3, <2>1, TwoMessages DEF Blocked
  <2>3. SendersInv' /\ RoomInv'
    BY <2>1, <2>2 DEF QueueInv, SendersInv, RoomInv
  <2>4. OwnerInv'
    BY <2>1 DEF OwnerInv
  <2> QED
    BY <2>3, <2>4 DEF QueueInv
<1>4. CASE qnq # <<>>
  <2> DEFINE e == Head(qnq)
  <2>1. /\ q' = Put(rest, e.msg) /\ qnq' = Tail(qnq)
        /\ st' = [st EXCEPT ![e.from] = "run"]
    BY <1>4 DEF Refill
  <2>2. e.from \in Procs /\ e.msg \in Message
    BY <1>4, SenderFacts
  <2>3. SendersInv' /\ e.from \in Blocked /\ Blocked' = Blocked \ {e.from}
    BY <1>4, <2>1, PopSender DEF QueueInv
  <2> HIDE DEF e
  <2>4. OwnerInv'
    BY <1>1, <2>1, <2>2, <2>3 DEF OwnerInv, TypeOK
  <2>5. RoomInv'
    <3>1. CASE flushed'
      BY <3>1 DEF RoomInv
    <3>2. CASE UNCHANGED flushed /\ Len(rest) = Len(q) - 1 /\ Len(q) > 1
      <4>1. Cardinality(Blocked') = Cardinality(Blocked) - 1
        BY <2>3, BlockedFacts, FS_RemoveElement
      <4>2. Len(q') = Len(rest) \/ Len(q') = Len(rest) + 1
        BY <2>1, <2>2, PutType
      <4>3. owner \notin Blocked'
        BY <1>1, <2>3
      <4> QED
        BY <1>1, <1>2, <2>3, <3>2, <4>1, <4>2, <4>3, BlockedFacts
        DEF QueueInv, RoomInv
    <3> QED
      BY <3>1, <3>2
  <2> QED
    BY <2>3, <2>4, <2>5 DEF QueueInv
<1> QED
  BY <1>3, <1>4

LEMMA QueueNext == TypeOK /\ QueueInv /\ [Next]_vars => QueueInv'
<1> SUFFICES ASSUME TypeOK, QueueInv, [Next]_vars
             PROVE  QueueInv'
  OBVIOUS
<1>1. TypeOK'
  BY QueueTypeNext
<1>2. ASSUME NEW p \in Procs, NEW b \in Buffers, NEW m \in Messages,
             ap_sendmsg(p, b, m)
      PROVE  QueueInv'
  BY <1>2, SendQueue, QueueAssumption
<1>3. ASSUME NEW p \in Procs, NEW m \in Messages, handle_arrow_msg(p, m)
      PROVE  QueueInv'
  <2>1. CASE ap_sendmsg(p, "appl_msg", m)
    BY <1>2, <2>1 DEF Buffers
  <2>2. CASE /\ st[owner] \in {"run", "awake"}
             /\ UNCHANGED <<q, qdq, qnq, st, flushed>>
    BY <2>2 DEF QueueInv, SendersInv, OwnerInv, RoomInv, Blocked
  <2> QED
    BY <1>3, <2>1, <2>2 DEF handle_arrow_msg
<1>4. ASSUME st[owner] = "run"
      PROVE  ~qdq /\ owner \notin Blocked
  BY <1>4 DEF QueueInv, OwnerInv, Blocked
<1>5. Len(q) \in Nat
  BY DEF TypeOK
<1>6. CASE ev_mesag
  <2>1. CASE Len(q) > 1 /\ Refill(Tail(q), owed \ Redraws(Head(q)))
             /\ UNCHANGED <<qdq, p_msg>>
    <3>1. Tail(q) \in Seq(Message) /\ Len(Tail(q)) = Len(q) - 1
      BY <2>1, TailCovers DEF TypeOK
    <3>2. st[owner] = "run" /\ UNCHANGED flushed
      BY <1>6 DEF ev_mesag
    <3> QED
      BY <1>4, <2>1, <3>1, <3>2, RefillQueue
  <2>2. CASE Len(q) = 1 /\ q' = <<>> /\ UNCHANGED <<qdq, qnq, p_msg, st>>
    <3>1. ~flushed => Blocked = {}
      BY <2>2, TwoMessages
    <3> QED
      BY <1>6, <2>2, <3>1
      DEF ev_mesag, QueueInv, SendersInv, OwnerInv, RoomInv, Blocked
  <2>3. CASE q = <<>> /\ p_msg' = None /\ UNCHANGED <<q, qdq, qnq, st>>
    BY <1>6, <2>3 DEF ev_mesag, QueueInv, SendersInv, OwnerInv, RoomInv, Blocked
  <2>4. CASE /\ q = <<>> /\ p_msg = None /\ qdq' = TRUE
             /\ st' = [st EXCEPT ![owner] = "wait"]
             /\ UNCHANGED <<q, qnq, p_msg>>
    <3>1. UNCHANGED flushed /\ owner \notin Blocked
      BY <1>4, <1>6 DEF ev_mesag
    <3>2. Blocked' = Blocked
      BY <2>4, <3>1, QueueAssumption DEF Blocked, TypeOK
    <3>3. OwnerInv'
      BY <2>4, QueueAssumption DEF OwnerInv, TypeOK
    <3>4. Len(q') >= Len(q)
      BY <1>5, <2>4
    <3> QED
      BY <1>1, <2>4, <3>1, <3>2, <3>3, <3>4, QuietRoom DEF QueueInv
  <2> QED
    BY <1>6, <2>1, <2>2, <2>3, <2>4 DEF ev_mesag
<1>7. CASE other_event \/ acancel \/ ev_block
  <2>1. UNCHANGED <<q, qnq, p_msg, flushed>> /\ Len(q') >= Len(q)
    BY <1>5, <1>7 DEF other_event, acancel, ev_block
  <2>2. /\ owner \notin Blocked /\ st'[owner] # "send"
        /\ \A p \in Procs \ {owner} : st'[p] = st[p]
    BY <1>7, QueueAssumption DEF other_event, acancel, ev_block, Blocked, TypeOK
  <2>3. Blocked' = Blocked
    BY <2>2, QueueAssumption DEF Blocked
  <2>4. OwnerInv'
    BY <1>7, QueueAssumption
    DEF other_event, acancel, ev_block, QueueInv, OwnerInv, TypeOK
  <2> QED
    BY <1>1, <2>1, <2>3, <2>4, QuietRoom DEF QueueInv
<1>8. CASE ap_exit
  <2>1. st[owner] = "run" /\ flushed' /\ UNCHANGED <<qdq, p_msg>>
    BY <1>8 DEF ap_exit
  <2>2. CASE Refill(<<>>, owed \cap Waiting(qnq))
    <3>1. <<>> \in Seq(Message)
      OBVIOUS
    <3> QED
      BY <1>4, <2>1, <2>2, <3>1, RefillQueue
  <2>3. CASE q' = <<>> /\ UNCHANGED <<qnq, st>>
    BY <1>4, <2>1, <2>3 DEF QueueInv, SendersInv, OwnerInv, RoomInv, Blocked
  <2> QED
    BY <1>8, <2>2, <2>3 DEF ap_exit
<1>9. ASSUME NEW p \in Procs, NEW b \in Buffers, NEW m \in Messages,
             send_elsewhere(p, b, m)
      PROVE  QueueInv'
  <2>1. /\ qnq' = Overwrite(b, m)
        /\ UNCHANGED <<q, qdq, p_msg, st, flushed>>
    BY <1>9 DEF send_elsewhere
  <2>2. /\ DOMAIN qnq' = DOMAIN qnq
        /\ \A i \in DOMAIN qnq : qnq'[i].from = qnq[i].from
    BY <2>1, OverwriteFacts, QueueAssumption
  <2>3. Blocked' = Blocked /\ OwnerInv' /\ Len(q') >= Len(q)
    BY <1>5, <2>1 DEF QueueInv, OwnerInv, Blocked
  <2> QED
    BY <1>1, <2>1, <2>2, <2>3, QuietRoom DEF QueueInv
<1>10. CASE UNCHANGED vars
  BY <1>10 DEF vars, QueueInv, SendersInv, OwnerInv, RoomInv, Blocked
<1> QED
  BY <1>2, <1>3, <1>6, <1>7, <1>8, <1>9, <1>10 DEF Next

LEMMA QueueInit == Init => QueueInv
<1> SUFFICES ASSUME Init
             PROVE  QueueInv
  OBVIOUS
<1>1. Blocked = {}
  BY DEF Init, Blocked
<1> QED
  BY <1>1, QueueAssumption DEF Init, QueueInv, SendersInv, OwnerInv, RoomInv

LEMMA QueueCorrect == Spec => [](TypeOK /\ QueueInv)
<1>1. Init => TypeOK /\ QueueInv
  BY QueueTypeInit, QueueInit
<1>2. TypeOK /\ QueueInv /\ [Next]_vars => (TypeOK /\ QueueInv)'
  BY QueueTypeNext, QueueNext
<1> QED
  BY <1>1, <1>2, PTL DEF Spec

(* As long as no program ends, the pipe holds two messages or more while a *)
(* sender sleeps, so that the owner's next read lets one in.               *)
THEOREM SendersServed == Spec => []NoStuckSender
<1>1. TypeOK /\ QueueInv => NoStuckSender
  BY TwoMessages DEF NoStuckSender
<1> QED
  BY <1>1, QueueCorrect, PTL

(* The owner sleeps for a message only while there is none, and none that  *)
(* a sender waits to put in.                                               *)
THEOREM OwnerSleepsOnEmpty == Spec => []SleepsOnEmpty
<1>1. TypeOK /\ QueueInv => SleepsOnEmpty
  <2> SUFFICES ASSUME TypeOK, QueueInv, st[owner] = "wait"
               PROVE  qdq /\ q = <<>> /\ p_msg = None /\ (~flushed => qnq = <<>>)
    BY DEF SleepsOnEmpty
  <2>1. qdq /\ q = <<>> /\ p_msg = None
    BY DEF QueueInv, OwnerInv
  <2>2. ~flushed => qnq = <<>>
    BY <2>1, TwoMessages
  <2> QED
    BY <2>1, <2>2
<1> QED
  BY <1>1, QueueCorrect, PTL

(***************************************************************************)
(* The redraws.                                                            *)
(***************************************************************************)

(* The buffer that sleeping senders share besides the one for redraws has  *)
(* no redraw in it.                                                        *)
BufInv ==
  \A i \in DOMAIN qnq : qnq[i].buf = "appl_msg" => qnq[i].msg.kind # "WM_REDRAW"

Owed == BufInv /\ owed \subseteq Covered(q) \cup Waiting(qnq)

(* With the screen held by whoever asks for redraws, a buffer is written   *)
(* only while no redraw waits in it.                                       *)
LEMMA OverwriteKeeps ==
  ASSUME TypeOK, BufInv, Unlocked = {},
         NEW p \in Procs, NEW b \in Buffers, NEW m \in Message, MayWrite(p, b, m)
  PROVE  /\ Waiting(qnq) \subseteq Waiting(Overwrite(b, m))
         /\ \A i \in DOMAIN Overwrite(b, m) :
              Overwrite(b, m)[i].buf = "appl_msg" =>
                Overwrite(b, m)[i].msg.kind # "WM_REDRAW"
<1> DEFINE s == Overwrite(b, m)
<1>1. /\ DOMAIN s = DOMAIN qnq
      /\ \A i \in DOMAIN qnq :
           s[i] = IF qnq[i].buf = b /\ b # "own"
                  THEN [qnq[i] EXCEPT !.msg = m] ELSE qnq[i]
  BY DEF Overwrite
<1>2. /\ b = "appl_msg" => m.kind # "WM_REDRAW"
      /\ b = "wind_msg" => \A i \in DOMAIN qnq : qnq[i].buf # b
  BY DEF MayWrite
<1> HIDE DEF s
<1>3. ASSUME NEW i \in DOMAIN qnq
      PROVE  /\ s[i].buf = "appl_msg" => s[i].msg.kind # "WM_REDRAW"
             /\ Redraws(qnq[i].msg) \subseteq Redraws(s[i].msg)
  <2>1. qnq[i] \in Sender
    BY DEF TypeOK
  <2>2. CASE qnq[i].buf = b /\ b # "own"
    <3>1. b = "appl_msg"
      BY <1>2, <2>2 DEF Buffers
    <3>2. s[i].msg = m
      BY <1>1, <2>1, <2>2 DEF Sender
    <3>3. qnq[i].msg.kind # "WM_REDRAW"
      BY <2>2, <3>1 DEF BufInv
    <3>4. Redraws(qnq[i].msg) = {}
      BY <3>3 DEF Redraws
    <3> QED
      BY <1>2, <3>1, <3>2, <3>4
  <2>3. CASE ~(qnq[i].buf = b /\ b # "own")
    <3>1. s[i] = qnq[i]
      BY <1>1, <2>3
    <3> QED
      BY <3>1 DEF BufInv
  <2> QED
    BY <2>2, <2>3
<1>4. Waiting(qnq) \subseteq Waiting(s)
  BY <1>1, <1>3 DEF Waiting
<1> QED
  BY <1>1, <1>3, <1>4 DEF s

LEMMA SendOwed ==
  ASSUME TypeOK, Owed, Unlocked = {},
         NEW p \in Procs, NEW b \in Buffers, NEW m \in Message,
         ap_sendmsg(p, b, m)
  PROVE  Owed'
<1> DEFINE s == Overwrite(b, m)
<1>1. Put(q, m) \in Seq(Message) /\ Put(q, m) # <<>>
  <2>1. /\ Put(q, m) \in Seq(Message)
        /\ Len(Put(q, m)) = Len(q) \/ Len(Put(q, m)) = Len(q) + 1
        /\ q = <<>> => Put(q, m) = <<m>>
    BY PutType DEF TypeOK
  <2>2. Len(q) \in Nat /\ (q # <<>> => Len(q) > 0)
    BY DEF TypeOK
  <2> QED
    BY <2>1, <2>2
<1>2. MayWrite(p, b, m)
  BY DEF ap_sendmsg
<1>3. /\ Waiting(qnq) \subseteq Waiting(s)
      /\ \A i \in DOMAIN s : s[i].buf = "appl_msg" => s[i].msg.kind # "WM_REDRAW"
  BY <1>2, OverwriteKeeps DEF Owed
<1>4. s \in Seq(Sender)
  BY OverwriteFacts
<1> HIDE DEF s
<1>5. owed \cup Redraws(m) \subseteq Covered(Put(q, m)) \cup Waiting(s)
  BY <1>3, PutCovers DEF TypeOK, Owed
<1>6. CASE /\ q' = Put(q, m) /\ owed' = owed \cup Redraws(m)
           /\ qnq' = s
  BY <1>3, <1>5, <1>6 DEF Owed, BufInv
<1>7. CASE /\ q' = Tail(Put(q, m)) /\ qnq' = s
           /\ owed' = (owed \cup Redraws(m)) \ Redraws(Head(Put(q, m)))
  <2>1. Covered(Put(q, m)) \ Redraws(Head(Put(q, m))) \subseteq Covered(Tail(Put(q, m)))
    BY <1>1, TailCovers
  <2> QED
    BY <1>3, <1>5, <1>7, <2>1 DEF Owed, BufInv
<1>8. CASE /\ UNCHANGED q /\ owed' = owed \cup Redraws(m)
           /\ qnq' = <<[from |-> p, buf |-> b, msg |-> m]>> \o s
  <2> DEFINE e == [from |-> p, buf |-> b, msg |-> m]
  <2>1. /\ DOMAIN s = 1 .. Len(s) /\ DOMAIN qnq' = 1 .. Len(s) + 1
        /\ Len(s) \in Nat /\ qnq'[1] = e
        /\ \A i \in 1 .. Len(s) : qnq'[i + 1] = s[i]
    BY <1>4, <1>8
  <2>2. e.buf = b /\ e.msg = m
    OBVIOUS
  <2> HIDE DEF e
  <2>3. ASSUME NEW i \in DOMAIN qnq'
        PROVE  i = 1 \/ (i - 1 \in DOMAIN s /\ qnq'[i] = s[i - 1])
    <3>1. i = 1 \/ (i - 1 \in 1 .. Len(s) /\ (i - 1) + 1 = i)
      BY <2>1
    <3> QED
      BY <2>1, <3>1
  <2>4. BufInv'
    <3>1. b = "appl_msg" => m.kind # "WM_REDRAW"
      BY <1>2 DEF MayWrite
    <3> QED
      BY <1>3, <2>1, <2>2, <2>3, <3>1 DEF BufInv
  <2>5. Waiting(s) \subseteq Waiting(qnq')
    <3>1. \A i \in DOMAIN s : i + 1 \in DOMAIN qnq' /\ qnq'[i + 1] = s[i]
      BY <2>1
    <3> QED
      BY <3>1 DEF Waiting
  <2>6. Redraws(m) \subseteq Waiting(qnq')
    <3>1. 1 \in DOMAIN qnq' /\ Redraws(m) \subseteq Handles \X Areas
      BY <2>1, RedrawsType
    <3> QED
      BY <2>1, <2>2, <3>1 DEF Waiting
  <2>7. owed' \subseteq Covered(q) \cup Waiting(qnq')
    BY <1>3, <1>8, <2>5, <2>6 DEF Owed
  <2> QED
    BY <1>8, <2>4, <2>7 DEF Owed
<1>9. CASE HasRoom
  BY <1>6, <1>7, <1>9, Zenon DEF ap_sendmsg, s
<1>10. CASE ~HasRoom
  BY <1>8, <1>10, Zenon DEF ap_sendmsg, s
<1> QED
  BY <1>9, <1>10

LEMMA RefillOwed ==
  ASSUME TypeOK, Owed, NEW rest \in Seq(Message),
         NEW left \in SUBSET (Covered(rest) \cup Waiting(qnq)), Refill(rest, left)
  PROVE  Owed'
<1>1. CASE qnq = <<>>
  BY <1>1 DEF Refill, Owed, BufInv
<1>2. CASE qnq # <<>>
  <2> DEFINE e == Head(qnq)
  <2>1. q' = Put(rest, e.msg) /\ owed' = left /\ qnq' = Tail(qnq)
    BY <1>2 DEF Refill
  <2>2. e.msg \in Message
    BY <1>2, SenderFacts
  <2>3. Covered(rest) \cup Redraws(e.msg) \subseteq Covered(q')
    BY <2>1, <2>2, PutCovers
  <2>4. /\ DOMAIN qnq = 1 .. Len(qnq) /\ DOMAIN qnq' = 1 .. Len(qnq) - 1
        /\ Len(qnq) \in Nat /\ e = qnq[1]
        /\ \A i \in 1 .. Len(qnq) - 1 : qnq'[i] = qnq[i + 1]
    BY <1>2, <2>1 DEF TypeOK
  <2> HIDE DEF e
  <2>5. \A i \in DOMAIN qnq' : i + 1 \in DOMAIN qnq /\ qnq'[i] = qnq[i + 1]
    BY <2>4
  <2>6. BufInv'
    BY <2>5 DEF Owed, BufInv
  <2>7. ASSUME NEW r \in Waiting(qnq)
        PROVE  r \in Redraws(e.msg) \cup Waiting(qnq')
    <3>1. PICK i \in DOMAIN qnq : r \in Redraws(qnq[i].msg)
      BY <2>7 DEF Waiting
    <3>2. CASE i = 1
      BY <2>4, <3>1, <3>2
    <3>3. CASE i # 1
      <4>1. i - 1 \in 1 .. Len(qnq) - 1 /\ (i - 1) + 1 = i
        BY <2>4, <3>3
      <4>2. i - 1 \in DOMAIN qnq' /\ qnq'[i - 1] = qnq[i]
        BY <2>4, <4>1
      <4> QED
        BY <2>7, <3>1, <4>2 DEF Waiting
    <3> QED
      BY <3>2, <3>3
  <2> QED
    BY <2>1, <2>3, <2>6, <2>7 DEF Owed
<1> QED
  BY <1>1, <1>2

LEMMA OwedNext == TypeOK /\ Owed /\ Unlocked = {} /\ [Next]_vars => Owed'
<1> SUFFICES ASSUME TypeOK, Owed, Unlocked = {}, [Next]_vars
             PROVE  Owed'
  OBVIOUS
<1>1. ASSUME NEW p \in Procs, NEW b \in Buffers, NEW m \in Messages,
             ap_sendmsg(p, b, m)
      PROVE  Owed'
  BY <1>1, SendOwed, QueueAssumption
<1>2. ASSUME NEW p \in Procs, NEW m \in Messages, handle_arrow_msg(p, m)
      PROVE  Owed'
  <2>1. CASE ap_sendmsg(p, "appl_msg", m)
    BY <1>1, <2>1 DEF Buffers
  <2>2. CASE UNCHANGED <<q, qnq, owed>>
    BY <2>2 DEF Owed, BufInv
  <2> QED
    BY <1>2, <2>1, <2>2 DEF handle_arrow_msg
<1>3. ASSUME NEW p \in Procs, NEW b \in Buffers, NEW m \in Messages,
             send_elsewhere(p, b, m)
      PROVE  Owed'
  <2>1. /\ qnq' = Overwrite(b, m) /\ UNCHANGED <<q, owed>> /\ MayWrite(p, b, m)
    BY <1>3 DEF send_elsewhere
  <2>2. BufInv
    BY DEF Owed
  <2>3. Waiting(qnq) \subseteq Waiting(qnq') /\ BufInv'
    BY <2>1, <2>2, OverwriteKeeps, QueueAssumption DEF BufInv
  <2> QED
    BY <2>1, <2>3 DEF Owed
<1>4. ASSUME q # <<>>
      PROVE  /\ Tail(q) \in Seq(Message)
             /\ owed \ Redraws(Head(q)) \in SUBSET (Covered(Tail(q)) \cup Waiting(qnq))
  BY <1>4, TailCovers DEF TypeOK, Owed
<1>5. CASE ev_mesag
  <2>1. CASE Len(q) > 1 /\ Refill(Tail(q), owed \ Redraws(Head(q)))
    <3>1. q # <<>>
      BY <2>1
    <3> QED
      BY <1>4, <2>1, <3>1, RefillOwed
  <2>2. CASE /\ Len(q) = 1 /\ q' = <<>> /\ owed' = owed \ Redraws(Head(q))
             /\ UNCHANGED qnq
    <3>1. q # <<>> /\ Tail(q) = <<>>
      <4>1. q # <<>>
        BY <2>2
      <4>2. Tail(q) \in Seq(Message) /\ Len(Tail(q)) = 0
        BY <2>2, <4>1, TailCovers DEF TypeOK
      <4> QED
        BY <4>1, <4>2, EmptySeq
    <3> QED
      BY <1>4, <2>2, <3>1 DEF Owed, BufInv
  <2>3. CASE UNCHANGED <<q, qnq, owed>>
    BY <2>3 DEF Owed, BufInv
  <2> QED
    BY <1>5, <2>1, <2>2, <2>3, Zenon DEF ev_mesag
<1>6. CASE other_event \/ acancel \/ ev_block
  BY <1>6 DEF other_event, acancel, ev_block, Owed, BufInv
<1>7. CASE ap_exit
  <2>1. CASE Refill(<<>>, owed \cap Waiting(qnq))
    <3>1. <<>> \in Seq(Message)
      OBVIOUS
    <3> QED
      BY <2>1, <3>1, RefillOwed
  <2>2. CASE q' = <<>> /\ owed' = owed \cap Waiting(qnq) /\ UNCHANGED qnq
    BY <2>2 DEF Owed, BufInv
  <2> QED
    BY <1>7, <2>1, <2>2 DEF ap_exit
<1>8. CASE UNCHANGED vars
  BY <1>8 DEF vars, Owed, BufInv
<1> QED
  BY <1>1, <1>2, <1>3, <1>5, <1>6, <1>7, <1>8 DEF Next

(* As long as every program that ends a dialogue holds the screen, a       *)
(* redraw that was asked for is in the pipe, or in the message of a sender *)
(* that sleeps, until it is delivered or the pipe is thrown away.          *)
THEOREM NoRedrawLost ==
  ASSUME Unlocked = {}
  PROVE  Spec => []RedrawsKept
<1>1. Init => TypeOK /\ Owed
  <2>1. Init => Owed
    BY DEF Init, Owed, BufInv
  <2> QED
    BY <2>1, QueueTypeInit
<1>2. TypeOK /\ Owed /\ [Next]_vars => (TypeOK /\ Owed)'
  BY QueueTypeNext, OwedNext
<1>3. TypeOK /\ Owed => RedrawsKept
  BY DEF Owed, Covered, RedrawsKept
<1> QED
  BY <1>1, <1>2, <1>3, PTL DEF Spec
=============================================================================
