------------------------------ MODULE ForkRing ------------------------------
(***************************************************************************)
(* The fork ring between the interrupts and the dispatcher, and the        *)
(* double-click filter that fills it.                                      *)
(*                                                                         *)
(*   aes/gemdisp.c    forkq(), forker()                                    *)
(*   aes/geminput.c   b_click(), b_delay(), bchange(), mchange()           *)
(*   aes/gemdosif.S   far_bcha, far_mcha, tikcod                           *)
(*                                                                         *)
(* An interrupt is one step: nothing interrupts it. The dispatcher masks   *)
(* interrupts while it takes a fork out of the ring, and nowhere else: the *)
(* call of b_delay() from mchange() runs step by step, with interrupts in  *)
(* between.                                                                *)
(***************************************************************************)
EXTENDS Integers, Sequences

CONSTANTS
  NFORKS,   (* size of the ring                                            *)
  DClick,   (* gl_dclick: ticks to wait for another click                  *)
  MaxClicks (* bound: clicks that make one event                           *)

ASSUME RingAssumption ==
  NFORKS \in Nat \ {0} /\ DClick \in Nat \ {0} /\ MaxClicks \in Nat \ {0}

VARIABLES
  g_fpdx,      (* the ring's slots                                         *)
  fph, fpt,    (* next slot to take from, next slot to put in              *)
  fpcnt,       (* forks in the ring                                        *)
  gl_bpend,    (* somebody waits for more than one click                   *)
  gl_btrue,    (* the state of the button: 1 is down                       *)
  gl_bdely,    (* ticks left to wait for another click, 0: no wait         *)
  gl_bdesired, (* the state that is counted                                *)
  gl_bclick,   (* how often it was entered                                 *)
  button,      (* the state of the button the processes are told           *)
  main,        (* the dispatcher's step in b_delay(), or "forker"          *)
  amnt, calls, slot, fpd, (* b_delay()'s and forkq()'s variables, in it    *)
  raced,       (* history: an interrupt came during that call              *)
  refused      (* history: a fork of b_click() found the ring full         *)

ring == <<g_fpdx, fph, fpt, fpcnt>>
click == <<gl_btrue, gl_bdely, gl_bdesired, gl_bclick>>
local == <<amnt, calls, slot, fpd>>
vars == <<ring, click, gl_bpend, button, main, local, raced, refused>>

(* Forks, the clicks of a bchange() included; a tchange() or a kchange()   *)
(* is to the ring like the mchange() of a mouse that hardly moves.         *)
Fork == [code : {"bchange"}, state : {0, 1}, clicks : 1 .. MaxClicks]
          \cup [code : {"mchange"}]

NoFork == [code |-> "mchange"]

bchangeFork(s, n) == [code |-> "bchange", state |-> s, clicks |-> n]

Wrap(i) == IF i + 1 = NFORKS THEN 0 ELSE i + 1

(* The slots of the next n forks, counted from 0. *)
At(k) == (fpt + k) % NFORKS

Filled(fs, n) ==
  [i \in DOMAIN g_fpdx |->
     IF \E k \in 0 .. n - 1 : At(k) = i
     THEN fs[1 + CHOOSE k \in 0 .. n - 1 : At(k) = i]
     ELSE g_fpdx[i]]

(* Mutants: a full ring is written over ...                                *)
forkqUnchecked(fs) ==
  /\ g_fpdx' = Filled(fs, Len(fs))
  /\ fpt' = At(Len(fs))
  /\ fpcnt' = fpcnt + Len(fs)
  /\ UNCHANGED fph

(* ... or a full ring drops its oldest fork for the new one.               *)
forkqOverwrites(fs) ==
  /\ g_fpdx' = Filled(fs, Len(fs))
  /\ fpt' = At(Len(fs))
  /\ fpcnt' = IF fpcnt + Len(fs) > NFORKS THEN NFORKS ELSE fpcnt + Len(fs)
  /\ fph' = IF fpcnt' = NFORKS THEN fpt' ELSE fph

(* forkq(), as one step, for the forks fs one after the other. *)
forkq(fs) ==
  LET n == IF fpcnt >= NFORKS THEN 0
           ELSE IF fpcnt + Len(fs) <= NFORKS THEN Len(fs) ELSE NFORKS - fpcnt
  IN
  /\ g_fpdx' = Filled(fs, n)
  /\ fpt' = At(n)
  /\ fpcnt' = fpcnt + n
  /\ UNCHANGED fph

(* b_delay(): the forks to make when the wait for another click is over.   *)
(* the state that was counted and, if it is over, the true one.            *)
DelayFork(first) ==
  IF first THEN bchangeFork(gl_bdesired, gl_bclick) ELSE bchangeFork(gl_btrue, 1)

(* Mutant: the true state is not told. *)
DelayForksCounted == <<DelayFork(TRUE)>>

DelayForks ==
  IF gl_bdesired = gl_btrue THEN <<DelayFork(TRUE)>>
  ELSE <<DelayFork(TRUE), DelayFork(FALSE)>>

Room(n) == fpcnt + n <= NFORKS

Minus(t, n) == IF t > n THEN t - n ELSE 0

Init ==
  /\ g_fpdx = [i \in 0 .. NFORKS - 1 |-> NoFork]
  /\ fph = 0 /\ fpt = 0 /\ fpcnt = 0
  /\ gl_bpend \in BOOLEAN
  /\ gl_btrue = 0 /\ gl_bdely = 0 /\ gl_bdesired = 0 /\ gl_bclick = 0
  /\ button = 0
  /\ main = "forker" /\ amnt = 0 /\ calls = 1 /\ slot = 0 /\ fpd = NoFork
  /\ raced = FALSE /\ refused = FALSE

(***************************************************************************)
(* Interrupts.                                                             *)
(***************************************************************************)

interrupt ==
  /\ raced' = (raced \/ main # "forker")
  /\ UNCHANGED <<gl_bpend, button, main, local>>

(* far_bcha: the button changes; b_click(). *)
b_click ==
  /\ interrupt
  /\ gl_btrue' = 1 - gl_btrue
  /\ \/ /\ gl_bdely # 0
        /\ \/ /\ gl_btrue' = gl_bdesired
              /\ gl_bclick < MaxClicks
              /\ gl_bclick' = gl_bclick + 1
              /\ gl_bdely' = gl_bdely + 3
           \/ /\ gl_btrue' # gl_bdesired
              /\ UNCHANGED <<gl_bclick, gl_bdely>>
        /\ UNCHANGED <<ring, gl_bdesired, refused>>
     \/ /\ gl_bdely = 0
        /\ gl_bpend /\ gl_btrue' = 1
        /\ gl_bclick' = 1
        /\ gl_bdesired' = gl_btrue'
        /\ gl_bdely' = DClick
        /\ UNCHANGED <<ring, refused>>
     \/ /\ gl_bdely = 0
        /\ ~(gl_bpend /\ gl_btrue' = 1)
        /\ forkq(<<bchangeFork(gl_btrue', 1)>>)
        /\ refused' = (refused \/ ~Room(1))
        /\ UNCHANGED <<gl_bdely, gl_bdesired, gl_bclick>>

(* tikcod: b_delay(1), with interrupts off. *)
b_delay ==
  /\ interrupt
  /\ gl_bdely # 0
  /\ gl_bdely' = Minus(gl_bdely, 1)
  /\ IF gl_bdely' = 0 /\ Room(Len(DelayForks))
     THEN forkq(DelayForks)
     ELSE UNCHANGED ring
  /\ UNCHANGED <<gl_btrue, gl_bdesired, gl_bclick, refused>>

(* far_mcha, or the other part of tikcod. *)
other_fork ==
  /\ interrupt
  /\ forkq(<<[code |-> "mchange"]>>)
  /\ UNCHANGED <<click, refused>>

(***************************************************************************)
(* The dispatcher.                                                         *)
(***************************************************************************)

(* Back to forker(): the call's variables are gone. *)
Leave == main' = "forker" /\ amnt' = 0 /\ calls' = 1 /\ slot' = 0 /\ fpd' = NoFork

(* forker() takes a fork, masked, and calls it. mchange() ends the wait    *)
(* for another click if the mouse has moved more than a little.            *)
forker ==
  /\ main = "forker" /\ fpcnt > 0
  /\ fpcnt' = fpcnt - 1
  /\ fph' = Wrap(fph)
  /\ \/ /\ g_fpdx[fph].code = "bchange"
        /\ button' = g_fpdx[fph].state
        /\ UNCHANGED <<main, amnt>>
     \/ /\ g_fpdx[fph].code = "mchange" /\ gl_bdely # 0
        /\ main' = "delay"
        /\ amnt' = gl_bdely
        /\ UNCHANGED button
     \/ /\ g_fpdx[fph].code = "mchange"
        /\ UNCHANGED <<button, main, amnt>>
  /\ UNCHANGED <<g_fpdx, fpt, click, gl_bpend, calls, slot, fpd, raced, refused>>

(* mchange(): b_delay(amnt) in the dispatcher. First the count-down ...    *)
delay ==
  /\ main = "delay"
  /\ gl_bdely' = Minus(gl_bdely, amnt)
  /\ IF gl_bdely = 0 THEN Leave
     ELSE main' = "decide" /\ UNCHANGED local
  /\ UNCHANGED <<ring, gl_btrue, gl_bdesired, gl_bclick, gl_bpend, button,
                 raced, refused>>

(* ... then it decides which forks to make, and whether there is room ...  *)
decide ==
  /\ main = "decide"
  /\ IF gl_bdely = 0 /\ Room(Len(DelayForks))
     THEN /\ main' = "take1"
          /\ calls' = Len(DelayForks)
          /\ UNCHANGED <<amnt, slot, fpd>>
     ELSE Leave
  /\ UNCHANGED <<ring, click, gl_bpend, button, raced, refused>>

(* After a call of forkq() there may be another one. *)
After(first) ==
  IF first /\ calls = 2 THEN main' = "take2" /\ UNCHANGED local ELSE Leave

(* ... and then come one or two calls of forkq(). Each takes a slot ...    *)
take ==
  /\ main \in {"take1", "take2"}
  /\ IF Room(1)
     THEN /\ slot' = fpt
          /\ fpd' = DelayFork(main = "take1")
          /\ fpt' = Wrap(fpt)
          /\ main' = IF main = "take1" THEN "put1" ELSE "put2"
          /\ UNCHANGED <<amnt, calls>>
     ELSE UNCHANGED fpt /\ After(main = "take1")
  /\ UNCHANGED <<g_fpdx, fph, fpcnt, click, gl_bpend, button, raced, refused>>

(* ... and fills it. *)
put ==
  /\ main \in {"put1", "put2"}
  /\ g_fpdx' = [g_fpdx EXCEPT ![slot] = fpd]
  /\ fpcnt' = fpcnt + 1
  /\ After(main = "put1")
  /\ UNCHANGED <<fph, fpt, click, gl_bpend, button, raced, refused>>

(* Processes start and end waits for several clicks. *)
bpend ==
  /\ main = "forker"
  /\ gl_bpend' = ~gl_bpend
  /\ UNCHANGED <<ring, click, button, main, local, raced, refused>>

Next ==
  \/ b_click \/ b_delay \/ other_fork
  \/ forker \/ delay \/ decide \/ take \/ put
  \/ bpend

Spec == Init /\ [][Next]_vars

(***************************************************************************)
(* Properties. Some hold only until an interrupt has come while mchange()  *)
(* was in b_delay() ('raced'), and say so.                                 *)
(***************************************************************************)

(* Every variable has its type. *)
TypeOK ==
  /\ g_fpdx \in [0 .. NFORKS - 1 -> Fork]
  /\ fph \in 0 .. NFORKS - 1 /\ fpt \in 0 .. NFORKS - 1
  /\ fpcnt \in 0 .. NFORKS + 1
  /\ gl_btrue \in {0, 1} /\ gl_bdesired \in {0, 1} /\ button \in {0, 1}
  /\ gl_bdely \in 0 .. DClick + 3 * MaxClicks
  /\ gl_bclick \in 0 .. MaxClicks
  /\ main \in {"forker", "delay", "decide", "take1", "put1", "take2", "put2"}
  /\ amnt \in 0 .. DClick + 3 * MaxClicks
  /\ calls \in {1, 2} /\ slot \in 0 .. NFORKS - 1 /\ fpd \in Fork
  /\ {gl_bpend, raced, refused} \subseteq BOOLEAN

(* The ring is a queue: a step takes its oldest fork or adds one or two.   *)
Contents == [i \in 1 .. fpcnt |-> g_fpdx[(fph + i - 1) % NFORKS]]

IsQueueStep ==
  \/ Contents' = Contents
  \/ Contents # <<>> /\ Contents' = Tail(Contents)
  \/ /\ Len(Contents') - Len(Contents) \in {1, 2}
     /\ SubSeq(Contents', 1, Len(Contents)) = Contents

RingIsQueue == [][main = "forker" /\ main' = "forker" /\ ~raced' => IsQueueStep]_vars

(* The button is told to the processes as down only while it is: what the  *)
(* ring refuses, the end of a wait for another click and the order of the  *)
(* interrupts never leave it stuck. It holds until b_click() meets a full  *)
(* ring (it does not look at what forkq() returns).                        *)
Settled == main = "forker" /\ fpcnt = 0 /\ gl_bdely = 0

NotStuckDown == Settled /\ ~refused /\ ~raced => button <= gl_btrue

(* geminput.c:168-172: room for both forks is made sure of "to avoid a     *)
(* 'button stuck down' problem", and geminput.c:150-151: b_delay() "is     *)
(* called from the tick interrupt code with interrupts off".               *)
ButtonNotStuck == Settled /\ ~refused => button <= gl_btrue
=============================================================================
