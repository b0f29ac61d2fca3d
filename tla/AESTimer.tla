------------------------------ MODULE AESTimer ------------------------------
(***************************************************************************)
(* The AES timer events: the delta list 'dlr' of waiting event blocks, the *)
(* two counters the 50Hz/200Hz tick interrupt shares with it, and the part *)
(* of the fork ring through which the interrupt hands the elapsed ticks to *)
(* the dispatcher.                                                         *)
(*                                                                         *)
(*   aes/geminput.c   adelay()      a process starts waiting               *)
(*   aes/gemdosif.S   tikcod        the tick interrupt                     *)
(*   aes/gemflag.c    tchange()     the fork routine that ages the list    *)
(*   aes/gemasync.c   takeoff()     a multi-wait cancels its timer         *)
(*   aes/gemasync.c   apret()       the completed event is picked up       *)
(*                                                                         *)
(* The list is ordered by expiry; each block stores the ticks it waits     *)
(* AFTER its predecessor. Interrupts are masked in adelay() and around the *)
(* last two assignments of tchange(), and nowhere else: the tick may run   *)
(* between the loop of tchange() and those assignments.                    *)
(***************************************************************************)
EXTENDS Integers, Sequences, FiniteSets

CONSTANTS
  Evbs,      (* event blocks available for timer waits                     *)
  MaxDelay,  (* bound: the longest delay a process asks for, in ticks      *)
  MaxNum,    (* bound: ticks accumulated while the fork ring stays full    *)
  NFORKS     (* size of the fork ring (struct.h)                           *)

ASSUME TimerAssumption ==
  /\ MaxDelay \in Nat \ {0}
  /\ MaxNum \in Nat
  /\ NFORKS \in Nat \ {0}

VARIABLES
  dlr,      (* the delta list: a sequence of [ev, parm] (e_link, e_parm)   *)
  CMP_TICK, (* ticks until the interrupt wakes the dispatcher; 0: stopped  *)
  NUM_TICK, (* ticks counted since the list was last aged                  *)
  ring,     (* the fork ring, oldest entry first: [code, data]             *)
  arming,   (* tchange() is between its loop and its masked assignments    *)
  rang,     (* blocks on the zombie list: completed, not picked up         *)
  due,      (* history: what a block asked for less what tchange() charged *)
  left      (* history: what it asked for less the ticks that have gone by *)

history == <<due, left>>
vars == <<dlr, CMP_TICK, NUM_TICK, ring, arming, rang, history>>

(* The most NUM_TICK reaches.                                              *)
MaxTicks == MaxNum + MaxDelay + 1

Fork == [code : {"tchange", "other"}, data : 0 .. MaxTicks]

Listed == {dlr[i].ev : i \in DOMAIN dlr}

(* Ticks from the head of list s to the expiry of its i-th block.          *)
DueAt(s, i) ==
  LET sum[k \in 0 .. i] == IF k = 0 THEN 0 ELSE sum[k - 1] + s[k].parm
  IN  sum[i]

(* Mutant: a block that expires at tick c - 1 does not count. *)
DueLongBefore(s, c) == Cardinality({i \in DOMAIN s : DueAt(s, i) < c - 1})

(* How many blocks at the head of list s expire before tick c.             *)
DueBefore(s, c) == Cardinality({i \in DOMAIN s : DueAt(s, i) < c})

(* Mutant: the successor does not inherit the delay of the block taken out. *)
UnlinkNoCarry(s, i) ==
  [k \in 1 .. Len(s) - 1 |-> IF k < i THEN s[k] ELSE s[k + 1]]

(* A delta list without its i-th block, whose delay goes to its successor. *)
Unlink(s, i) ==
  [k \in 1 .. Len(s) - 1 |->
     IF k < i THEN s[k]
     ELSE IF k = i THEN [s[k + 1] EXCEPT !.parm = @ + s[i].parm]
     ELSE s[k + 1]]

(* A delta list with block e put in to expire c ticks from its head, before *)
(* any block that expires at the same tick.                                *)
Insert(s, e, c) ==
  LET k    == DueBefore(s, c)
      part == c - DueAt(s, k)
  IN  [i \in 1 .. Len(s) + 1 |->
         IF i <= k THEN s[i]
         ELSE IF i = k + 1 THEN [ev |-> e, parm |-> part]
         ELSE IF i = k + 2 THEN [s[k + 1] EXCEPT !.parm = @ - part]
         ELSE s[i - 1]]

(* t ticks less c, down to none. *)
Less(t, c) == IF t > c THEN t - c ELSE 0

(* forkq(): enter a fork if the ring has room. *)
HasRoom == Len(ring) < NFORKS

(***************************************************************************)
(* Actions.                                                                *)
(***************************************************************************)
Init ==
  /\ dlr = <<>>
  /\ CMP_TICK = 0
  /\ NUM_TICK = 0
  /\ ring = <<>>
  /\ arming = FALSE
  /\ rang = {}
  /\ due = [e \in Evbs |-> 0]
  /\ left = [e \in Evbs |-> 0]

(* adelay(e, c): a zero delay counts as one tick. *)
adelay(e, ticks) ==
  LET c == IF ticks = 0 THEN 1 ELSE ticks IN
  /\ ~arming
  /\ e \notin Listed \cup rang
  /\ \/ /\ CMP_TICK # 0
        /\ CMP_TICK' = IF c <= CMP_TICK THEN c ELSE CMP_TICK
        /\ UNCHANGED NUM_TICK
     \/ /\ CMP_TICK = 0
        /\ CMP_TICK' = c
        /\ NUM_TICK' = 0
  /\ dlr' = Insert(dlr, e, c)
  /\ due' = [due EXCEPT ![e] = c]
  /\ left' = [left EXCEPT ![e] = c]
  /\ UNCHANGED <<ring, arming, rang>>

(* takeoff(e), called by acancel() for a block that has not completed. *)
takeoff(e) ==
  /\ ~arming
  /\ \E i \in DOMAIN dlr : dlr[i].ev = e /\ dlr' = Unlink(dlr, i)
  /\ due' = [due EXCEPT ![e] = 0]
  /\ left' = [left EXCEPT ![e] = 0]
  /\ UNCHANGED <<CMP_TICK, NUM_TICK, ring, arming, rang>>

(* apret(): the process picks its completed block up. *)
apret(e) ==
  /\ ~arming
  /\ e \in rang
  /\ rang' = rang \ {e}
  /\ due' = [due EXCEPT ![e] = 0]
  /\ left' = [left EXCEPT ![e] = 0]
  /\ UNCHANGED <<dlr, CMP_TICK, NUM_TICK, ring, arming>>

(* Mutant: the count-down stops although the ring is full. *)
tikcodGivesUp ==
  /\ left' = [e \in Evbs |->
                IF e \in Listed THEN Less(left[e], 1) ELSE left[e]]
  /\ CMP_TICK' = Less(CMP_TICK, 1)
  /\ NUM_TICK' = IF CMP_TICK = 0 THEN NUM_TICK ELSE NUM_TICK + 1
  /\ ring' = IF CMP_TICK = 1 /\ HasRoom
             THEN Append(ring, [code |-> "tchange", data |-> NUM_TICK'])
             ELSE ring
  /\ UNCHANGED <<dlr, arming, rang, due>>

(* tikcod: the tick interrupt. When the count-down ends the accumulated    *)
(* ticks go to the fork ring; a full ring is tried again on the next tick. *)
tikcod ==
  /\ left' = [e \in Evbs |->
                IF e \in Listed THEN Less(left[e], 1) ELSE left[e]]
  /\ \/ /\ CMP_TICK = 0
        /\ UNCHANGED <<CMP_TICK, NUM_TICK, ring>>
     \/ /\ CMP_TICK > 1
        /\ CMP_TICK' = CMP_TICK - 1
        /\ NUM_TICK' = NUM_TICK + 1
        /\ UNCHANGED ring
     \/ /\ CMP_TICK = 1
        /\ NUM_TICK' = NUM_TICK + 1
        /\ \/ /\ HasRoom
              /\ CMP_TICK' = 0
              /\ ring' = Append(ring, [code |-> "tchange", data |-> NUM_TICK'])
           \/ /\ ~HasRoom
              /\ NUM_TICK < MaxNum
              /\ UNCHANGED <<CMP_TICK, ring>>
  /\ UNCHANGED <<dlr, arming, rang, due>>

(* Another interrupt (mouse, button) enters a fork of its own. *)
OtherFork ==
  /\ HasRoom
  /\ ring' = Append(ring, [code |-> "other", data |-> 0])
  /\ UNCHANGED <<dlr, CMP_TICK, NUM_TICK, arming, rang, history>>

(* forker() takes the oldest fork; tchange(c) completes every block that   *)
(* has waited long enough and shortens the wait of the first one left.     *)
forker ==
  /\ ~arming
  /\ ring # <<>>
  /\ ring' = Tail(ring)
  /\ \/ /\ Head(ring).code = "other"
        /\ UNCHANGED <<dlr, arming, rang, due>>
     \/ /\ Head(ring).code = "tchange"
        /\ LET c == Head(ring).data
               n == DueBefore(dlr, c + 1)
           IN  /\ rang' = rang \cup {dlr[i].ev : i \in 1 .. n}
               /\ arming' = (n < Len(dlr))
               /\ dlr' = [i \in 1 .. Len(dlr) - n |->
                            IF i = 1
                            THEN [dlr[n + 1] EXCEPT !.parm = DueAt(dlr, n + 1) - c]
                            ELSE dlr[n + i]]
               /\ due' = [e \in Evbs |->
                            IF e \in Listed THEN Less(due[e], c) ELSE due[e]]
  /\ UNCHANGED <<CMP_TICK, NUM_TICK, left>>

(* Mutant: the count-down is left as it is. *)
RearmNever ==
  /\ arming
  /\ arming' = FALSE
  /\ NUM_TICK' = 0
  /\ UNCHANGED <<CMP_TICK, dlr, ring, rang, history>>

(* tchange()'s masked assignments: count down for the first block left. *)
Rearm ==
  /\ arming
  /\ arming' = FALSE
  /\ CMP_TICK' = dlr[1].parm
  /\ NUM_TICK' = 0
  /\ UNCHANGED <<dlr, ring, rang, history>>

Next ==
  \/ \E e \in Evbs, c \in 0 .. MaxDelay : adelay(e, c)
  \/ \E e \in Evbs : takeoff(e)
  \/ \E e \in Evbs : apret(e)
  \/ tikcod
  \/ OtherFork
  \/ forker
  \/ Rearm

Spec == Init /\ [][Next]_vars

(***************************************************************************)
(* Fairness: the tick is a periodic interrupt, and the dispatcher runs the *)
(* fork ring down on every dispatch (disp() loops while fpcnt is not 0).   *)
(* Because it empties the ring each time, a tick cannot for ever find the  *)
(* ring full: strong fairness for the tick that succeeds in forkq().       *)
(***************************************************************************)
Fairness ==
  /\ WF_vars(tikcod)
  /\ SF_vars(tikcod /\ HasRoom)
  /\ WF_vars(forker)
  /\ WF_vars(Rearm)

FairSpec == Spec /\ Fairness

(***************************************************************************)
(* Properties.                                                             *)
(***************************************************************************)

(* Every variable has its type; a block is in one place only, no delay in  *)
(* the list is negative, and the head always has time left.                *)
TypeOK ==
  /\ dlr \in Seq([ev : Evbs, parm : 0 .. MaxDelay])
  /\ Len(dlr) = Cardinality(Listed)
  /\ Listed \cap rang = {}
  /\ dlr # <<>> => dlr[1].parm > 0
  /\ CMP_TICK \in 0 .. MaxDelay
  /\ NUM_TICK \in 0 .. MaxTicks
  /\ ring \in Seq(Fork) /\ Len(ring) <= NFORKS
  /\ arming \in BOOLEAN
  /\ rang \subseteq Evbs
  /\ due \in [Evbs -> 0 .. MaxDelay]
  /\ left \in [Evbs -> 0 .. MaxDelay]

(* Whatever blocks come, go and are cancelled around it, a block's place   *)
(* in the delta list is exactly what it asked for less what tchange() has  *)
(* charged it: adelay(), takeoff() and tchange() never disturb a           *)
(* neighbour's expiry.                                                     *)
ListExact ==
  \A i \in DOMAIN dlr : DueAt(dlr, i) = due[dlr[i].ev]

(* While anybody waits and no elapsed ticks are on their way through the   *)
(* ring, the interrupt's count-down runs and ends no later than the first  *)
(* expiry: the tick interrupt, adelay(), takeoff() and the unmasked gap in *)
(* tchange() together never lose the wake-up.                              *)
WakeUpArmed ==
  (dlr # <<>> /\ ~arming /\ \A i \in DOMAIN ring : ring[i].code # "tchange")
    => CMP_TICK \in 1 .. dlr[1].parm

(* gemflag.c:37-39 says that tchange() pulls those off the delay list      *)
(* "that have waited long enough": no block completes before the ticks it  *)
(* asked for have gone by.                                                 *)
WaitedLongEnough == \A e \in rang : left[e] = 0

(* A timer wait ends (it completes, or its owner cancels it). *)
WaitEnds == \A e \in Evbs : e \in Listed ~> e \notin Listed

=============================================================================
