------------------------------ MODULE AESQueue ------------------------------
(***************************************************************************)
(* The message pipe of one AES process, its owner: the messages in it, the *)
(* owner's wait for one and the senders waiting for room.                  *)
(*                                                                         *)
(*   aes/gemqueue.c   aqueue(), doq()                                      *)
(*   aes/gemaplib.c   ap_rdwr(), ap_exit()                                 *)
(*   aes/gemevlib.c   ev_mesag(), ev_multi()                               *)
(*   aes/gemctrl.c    handle_arrow_msg()                                   *)
(*   aes/gemwmlib.c   ap_sendmsg()                                         *)
(*                                                                         *)
(* Messages have the standard 16 bytes, all that the AES itself sends. The *)
(* AES is cooperative, so a call is one step up to the point where the     *)
(* process sleeps; the ready processes run in any order.                   *)
(***************************************************************************)
EXTENDS Integers, Sequences, FiniteSets

CONSTANTS
  Procs,    (* the AES processes                                           *)
  owner,    (* the one whose pipe this is                                  *)
  Slots,    (* messages that fit: QUEUE_SIZE / 16                          *)
  Handles,  (* window handles                                              *)
  Areas,    (* parts of the screen, to say what a redraw rectangle covers  *)
  None,     (* no action in p_msg                                          *)
  Unlocked, (* the programs that end a dialogue, form_dial(FMD_FINISH),    *)
            (* without holding the screen                                  *)
  Messages  (* bound: the messages sent                                    *)

Kinds == {"WM_REDRAW", "WM_ARROWED", "WM_HSLID", "AC_CLOSE"}

(* Only a WM_REDRAW has a rectangle. *)
Message == [kind : Kinds, wh : Handles, area : SUBSET Areas]

(* Where a message is sent from: the AES has one buffer for redraws and    *)
(* one for the rest, which every process uses; a program has its own.      *)
Buffers == {"wind_msg", "appl_msg", "own"}

(* A process asleep until there is room: aqueue() keeps the address of its *)
(* buffer, msg is what that buffer holds now.                              *)
Sender == [from : Procs, buf : Buffers, msg : Message]

ASSUME QueueAssumption ==
  /\ IsFiniteSet(Procs)
  /\ owner \in Procs
  /\ Slots \in Nat \ {0}
  /\ Messages \subseteq {m \in Message : m.kind # "WM_REDRAW" => m.area = {}}
  /\ Unlocked \subseteq Procs
  /\ None \notin Handles

(* NUM_PDS = 8 processes, QUEUE_SIZE = 8 * 16 bytes. *)
ASSUME RoomForAll == Slots >= 2 /\ Cardinality(Procs) <= Slots

VARIABLES
  q,        (* the messages in p_queue, oldest first                       *)
  qdq,      (* the owner's MU_MESAG block is on p_qdq                      *)
  qnq,      (* p_qnq: the senders waiting for room, the latest first       *)
  p_msg,    (* the window of a WM_ARROWED put aside in p_msg, or None      *)
  st,       (* what a process does: "run", "send" (asleep until there is   *)
            (* room), and the owner: "wait" (asleep for a message, perhaps *)
            (* for other events too), "awake" (one of these came first),   *)
            (* "sleep" (asleep for other events only)                      *)
  flushed,  (* history: the owner's program has thrown the pipe away       *)
  owed,     (* history: the redraws asked for and not delivered since      *)
  merged    (* history: the kinds [old, new] of the last two messages made *)
            (* one, or <<>>                                                *)

vars == <<q, qdq, qnq, p_msg, st, flushed, owed, merged>>

Blocked == {p \in Procs : st[p] = "send"}

Redraws(m) == IF m.kind = "WM_REDRAW" THEN {m.wh} \X m.area ELSE {}

(* The redraws that sleeping senders wait to send. *)
Waiting(s) ==
  {r \in Handles \X Areas : \E i \in DOMAIN s : r \in Redraws(s[i].msg)}

(* doq(): the messages a new message m may be merged with. *)
Mergeable(s, m) ==
  {i \in DOMAIN s :
     /\ m.kind \in {"WM_REDRAW", "WM_ARROWED", "WM_HSLID"}
     /\ \/ s[i].kind = "WM_REDRAW" /\ s[i].wh = m.wh
        \/ s[i].kind = "WM_ARROWED"}

First(I) == CHOOSE i \in I : \A j \in I : i <= j

(* Mutant: a redraw takes the place of the one before it. *)
MergeReplaces(s, i, m) == [s EXCEPT ![i] = m]

(* doq(): the new message grows the rectangle of a redraw, or takes the    *)
(* place of an arrow.                                                      *)
Merge(s, i, m) ==
  [s EXCEPT ![i] = IF s[i].kind = "WM_REDRAW"
                   THEN [s[i] EXCEPT !.area = @ \cup m.area]
                   ELSE m]

(* doq(TRUE): the pipe s with message m put in. *)
Put(s, m) ==
  IF Mergeable(s, m) = {} THEN Append(s, m)
  ELSE Merge(s, First(Mergeable(s, m)), m)

MergedBy(s, m) ==
  IF Mergeable(s, m) = {} THEN <<>>
  ELSE <<s[First(Mergeable(s, m))].kind, m.kind>>

Init ==
  /\ q = <<>>
  /\ qdq = FALSE
  /\ qnq = <<>>
  /\ p_msg = None
  /\ st = [p \in Procs |-> "run"]
  /\ flushed = FALSE
  /\ owed = {}
  /\ merged = <<>>

(* Mutant: one message more. *)
HasRoomForOneMore == Len(q) <= Slots

(* aqueue(TRUE): is there room for a message? *)
HasRoom == Len(q) < Slots

(* Process p may write m to buffer b. w_redraw() runs with the screen      *)
(* held, so no two are in it at once, except for the end of a dialogue.    *)
MayWrite(p, b, m) ==
  /\ st[p] = "run"
  /\ b = "wind_msg" => m.kind = "WM_REDRAW"
  /\ b = "appl_msg" => m.kind # "WM_REDRAW"
  /\ b = "wind_msg" /\ p \notin Unlocked =>
       \A i \in DOMAIN qnq : qnq[i].buf = b => qnq[i].from \in Unlocked

(* What the sleeping senders will send when m is written to buffer b. *)
Overwrite(b, m) ==
  [i \in DOMAIN qnq |->
     IF qnq[i].buf = b /\ b # "own" THEN [qnq[i] EXCEPT !.msg = m] ELSE qnq[i]]

(* ap_sendmsg(), or appl_write() from the program's own buffer. With room  *)
(* in the pipe, aqueue(TRUE) puts the message in, and out again to an      *)
(* owner that waits; else the sender sleeps.                               *)
ap_sendmsg(p, b, m) ==
  /\ MayWrite(p, b, m)
  /\ \/ /\ HasRoom
        /\ merged' = MergedBy(q, m)
        /\ \/ /\ ~qdq
              /\ q' = Put(q, m)
              /\ owed' = owed \cup Redraws(m)
              /\ UNCHANGED <<qdq, st>>
           \/ /\ qdq
              /\ q' = Tail(Put(q, m))
              /\ owed' = (owed \cup Redraws(m)) \ Redraws(Head(Put(q, m)))
              /\ qdq' = FALSE
              /\ st' = [st EXCEPT ![owner] = "run"]
        /\ qnq' = Overwrite(b, m)
     \/ /\ ~HasRoom
        /\ qnq' = <<[from |-> p, buf |-> b, msg |-> m]>> \o Overwrite(b, m)
        /\ st' = [st EXCEPT ![p] = "send"]
        /\ owed' = owed \cup Redraws(m)
        /\ UNCHANGED <<q, qdq, merged>>
  /\ UNCHANGED <<p_msg, flushed>>

(* The same to another pipe. *)
send_elsewhere(p, b, m) ==
  /\ MayWrite(p, b, m)
  /\ qnq' = Overwrite(b, m)
  /\ UNCHANGED <<q, qdq, p_msg, st, flushed, owed, merged>>

(* Mutant: an arrow is put aside whatever the owner does. *)
handle_arrow_msgAside(p, m) ==
  /\ m.kind = "WM_ARROWED"
  /\ p # owner /\ st[p] = "run"
  /\ p_msg' = IF p_msg = None THEN m.wh ELSE p_msg
  /\ UNCHANGED <<q, qdq, qnq, st, flushed, owed, merged>>

(* handle_arrow_msg() on behalf of the owner's window: a sleeping owner is *)
(* sent a message, for another one it is put aside, unless one already is. *)
handle_arrow_msg(p, m) ==
  /\ m.kind = "WM_ARROWED"
  /\ p # owner
  /\ \/ /\ st[owner] \in {"wait", "sleep", "send"}
        /\ ap_sendmsg(p, "appl_msg", m)
     \/ /\ st[owner] \in {"run", "awake"}
        /\ st[p] = "run"
        /\ p_msg' = IF p_msg = None THEN m.wh ELSE p_msg
        /\ UNCHANGED <<q, qdq, qnq, st, flushed, owed, merged>>

(* Mutant: a read lets no sender in. *)
RefillNone(rest, due) ==
  /\ q' = rest
  /\ owed' = due
  /\ merged' = <<>>
  /\ UNCHANGED <<qnq, st>>

(* aqueue(FALSE) takes what is delivered out and lets the sender at the    *)
(* head of p_qnq put its message in.                                       *)
Refill(rest, due) ==
  IF qnq = <<>>
  THEN /\ q' = rest
       /\ owed' = due
       /\ merged' = <<>>
       /\ UNCHANGED <<qnq, st>>
  ELSE LET e == Head(qnq) IN
       /\ q' = Put(rest, e.msg)
       /\ owed' = due
       /\ merged' = MergedBy(rest, e.msg)
       /\ qnq' = Tail(qnq)
       /\ st' = [st EXCEPT ![e.from] = "run"]

(* ev_mesag(), by itself or from ev_multi(). *)
ev_mesag ==
  /\ st[owner] = "run"
  /\ \/ /\ q = <<>> /\ p_msg # None       (* the arrow put aside *)
        /\ p_msg' = None
        /\ UNCHANGED <<q, qdq, qnq, st, owed, merged>>
     \/ /\ Len(q) = 1                     (* ap_rdwr(): the quick version *)
        /\ q' = <<>>
        /\ owed' = owed \ Redraws(Head(q))
        /\ merged' = <<>>
        /\ UNCHANGED <<qdq, qnq, p_msg, st>>
     \/ /\ Len(q) > 1                     (* aqueue(), a message is there *)
        /\ Refill(Tail(q), owed \ Redraws(Head(q)))
        /\ UNCHANGED <<qdq, p_msg>>
     \/ /\ q = <<>> /\ p_msg = None       (* aqueue(), none is *)
        /\ qdq' = TRUE
        /\ st' = [st EXCEPT ![owner] = "wait"]
        /\ UNCHANGED <<q, qnq, p_msg, owed, merged>>
  /\ UNCHANGED flushed

(* Another event ends the wait of ev_multi(); the MU_MESAG block stays on  *)
(* p_qdq until the owner runs, and acancel() takes it off.                 *)
other_event ==
  /\ st[owner] = "wait"
  /\ st' = [st EXCEPT ![owner] = "awake"]
  /\ UNCHANGED <<q, qdq, qnq, p_msg, flushed, owed, merged>>

acancel ==
  /\ st[owner] = "awake"
  /\ qdq' = FALSE
  /\ st' = [st EXCEPT ![owner] = "run"]
  /\ UNCHANGED <<q, qnq, p_msg, flushed, owed, merged>>

(* The owner waits for a button or a key, and goes on. *)
ev_block ==
  /\ \/ st[owner] = "run" /\ st' = [st EXCEPT ![owner] = "sleep"]
     \/ st[owner] = "sleep" /\ st' = [st EXCEPT ![owner] = "run"]
  /\ UNCHANGED <<q, qdq, qnq, p_msg, flushed, owed, merged>>

(* ap_exit(), sh_ldapp(): all the messages are read at once, as one.       *)
ap_exit ==
  /\ st[owner] = "run"
  /\ q # <<>>
  /\ \/ /\ Len(q) = 1
        /\ q' = <<>>
        /\ owed' = owed \cap Waiting(qnq)
        /\ merged' = <<>>
        /\ UNCHANGED <<qnq, st>>
     \/ /\ Len(q) > 1
        /\ Refill(<<>>, owed \cap Waiting(qnq))
  /\ flushed' = TRUE
  /\ UNCHANGED <<qdq, p_msg>>

Next ==
  \/ \E p \in Procs, b \in Buffers, m \in Messages :
       ap_sendmsg(p, b, m) \/ send_elsewhere(p, b, m)
  \/ \E p \in Procs, m \in Messages : handle_arrow_msg(p, m)
  \/ ev_mesag
  \/ other_event
  \/ acancel
  \/ ev_block
  \/ ap_exit

Spec == Init /\ [][Next]_vars

(***************************************************************************)
(* Properties.                                                             *)
(***************************************************************************)

(* Every variable has its type, and the pipe never holds more than it can. *)
TypeOK ==
  /\ q \in Seq(Message) /\ Len(q) <= Slots
  /\ qdq \in BOOLEAN
  /\ qnq \in Seq(Sender)
  /\ p_msg \in Handles \cup {None}
  /\ st \in [Procs -> {"run", "send", "wait", "awake", "sleep"}]
  /\ flushed \in BOOLEAN
  /\ owed \subseteq Handles \X Areas
  /\ merged \in Kinds \X Kinds \cup {<<>>}

(* No sender is forgotten: while one sleeps for room there are at least    *)
(* two messages, so that the owner's next read is not the quick version,   *)
(* which empties the pipe and wakes nobody. That takes a pipe with room    *)
(* for one message of every process; and a program that ends throws the    *)
(* whole pipe away at once, waking one sender only.                        *)
NoStuckSender == ~flushed /\ qnq # <<>> => Len(q) >= 2

(* The owner sleeps for a message only while there is none, neither in the *)
(* pipe nor put aside, and, until a pipe is thrown away, nobody waits to   *)
(* put one in.                                                             *)
SleepsOnEmpty ==
  st[owner] = "wait" =>
    /\ qdq /\ q = <<>> /\ p_msg = None
    /\ ~flushed => qnq = <<>>

(* Merging, blocking and waking never lose a redraw: what was to be        *)
(* redrawn and has not been delivered is in a WM_REDRAW in the pipe, or in *)
(* the message of a sleeping sender.                                       *)
RedrawsKept ==
  \A r \in owed :
    \/ \E i \in DOMAIN q :
         q[i].kind = "WM_REDRAW" /\ q[i].wh = r[1] /\ r[2] \in q[i].area
    \/ r \in Waiting(qnq)

(* gemfmlib.c:373: a dialogue "grab[s] screen sync or some other mutual    *)
(* exclusion method" when it starts, so what is drawn when it ends is      *)
(* drawn by the only one at it: of those that sleep for room no two are in *)
(* w_redraw(), with its one buffer wind_msg.                               *)
OneRedrawAtATime ==
  \A i, j \in DOMAIN qnq : qnq[i].buf = "wind_msg" /\ qnq[j].buf = "wind_msg" => i = j

(* gemqueue.c:41-44 and 58-61: redraws are united with redraws, and an     *)
(* arrow replaced by "another arrow command"; nothing else is merged.      *)
MergesLikeWithLike == merged # <<>> => merged[1] = merged[2]
=============================================================================
