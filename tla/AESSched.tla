------------------------------ MODULE AESSched ------------------------------
(***************************************************************************)
(* The AES kernel: the ready, drive-ready and not-ready lists of processes, *)
(* the events a process waits for and their completion, the fork ring as   *)
(* the dispatcher sees it, and the screen semaphore wind_spb.              *)
(*                                                                         *)
(*   aes/gemdisp.c    disp(), schedule(), forker(), chkkbd()               *)
(*   aes/gemasync.c   iasync(), mwait(), signal(), azombie(), apret(),     *)
(*                    acancel()                                            *)
(*   aes/gemevlib.c   ev_block(), ev_multi()                               *)
(*   aes/geminput.c   kchange(), bchange(), post_keybd(), post_button(),   *)
(*                    set_mown(), akbin(), abutton()                       *)
(*   aes/gemflag.c    tak_flag(), amutex(), unsync(), tchange()            *)
(*   aes/gemwmlib.c   wm_update(), wm_new()                                *)
(*                                                                         *)
(* The AES is cooperative. A process runs until it calls dsptch(); only    *)
(* interrupts come in between, and all they do is to enter a fork. So a    *)
(* call runs in one step up to its next dsptch() or forker(), and the      *)
(* forks run one by one, in the dispatcher or inside ev_multi().           *)
(***************************************************************************)
EXTENDS Integers, Sequences, FiniteSets

CONSTANTS
  Procs,    (* the AES processes (AESPD)                                   *)
  Direct,   (* those inside the AES (the screen manager): no trap, no super() *)
  Quitters, (* those that call wm_new(): wind_new(), or the end of a program *)
  NoProc,   (* NULL in sy_owner                                            *)
  Multi,    (* bound: the event masks passed to ev_multi()                 *)
  Block,    (* bound: the events passed to ev_block() by programs          *)
  KBD_SIZE, (* keys a process' buffer holds                                *)
  NFORKS,   (* size of the fork ring                                       *)
  MaxNest   (* bound: wm_update(BEG_UPDATE) calls a process nests          *)

(* "BUTTON" stands for the mouse events too (MU_M1, MU_M2): mchange() and  *)
(* bchange() both may change the owner of the mouse and complete a wait.   *)
(* MU_MUTEX is waited for by wm_update() only; MU_MESAG and MU_SDMSG are   *)
(* the matter of module AESQueue.                                          *)
Kinds == {"KEYBD", "BUTTON", "TIMER", "MUTEX"}

ASSUME SchedAssumption ==
  /\ IsFiniteSet(Procs) /\ Procs # {}
  /\ Direct \subseteq Procs /\ Quitters \subseteq Procs
  /\ NoProc \notin Procs
  /\ Multi \subseteq (SUBSET (Kinds \ {"MUTEX"})) \ {{}}
  /\ Block \subseteq Kinds \ {"MUTEX"}
  /\ KBD_SIZE \in Nat \ {0}
  /\ NFORKS \in Nat \ {0}
  /\ MaxNest \in Nat \ {0}

VARIABLES
  rlr,       (* ready list; its head runs, unless 'mode' says otherwise    *)
  drl,       (* made ready since the last dispatch, the latest first       *)
  nrl,       (* asleep in mwait()                                          *)
  waitin,    (* processes whose p_stat has WAITIN set                      *)
  mode,      (* "run": Head(rlr); "multi": its call of forker() in         *)
             (* ev_multi(); "disp": the dispatcher                         *)
  ring,      (* the fork ring, oldest first                                *)
  cur,       (* the fork being run, or "none"                              *)
  pc,        (* where a process is: "user", "multi", "block", "new", "leave" *)
  wants,     (* the events its ev_multi() or ev_block() was called for     *)
  evlist,    (* p_evlist: the kinds of the event blocks it holds           *)
  zlr,       (* those of them that are COMPLETE (on the zombie list)       *)
  evflg,     (* p_evflg                                                    *)
  evwait,    (* p_evwait                                                   *)
  kcnt,      (* keys in its buffer (c_q.c_cnt)                             *)
  gl_mowner, (* owner of mouse and keyboard                                *)
  sy_tas, sy_owner, (* wind_spb: the count and the owner                   *)
  sy_wait,   (* wind_spb: the waiting processes, the next one first        *)
  inside     (* history: wm_update(BEG_UPDATE) calls that have returned to *)
             (* the process and that it has not matched                    *)

lists == <<rlr, drl, nrl, waitin>>
forks == <<ring, cur>>
events == <<evlist, zlr, evflg, evwait>>
input == <<kcnt, gl_mowner>>
lock == <<sy_tas, sy_owner, sy_wait>>
vars == <<lists, mode, forks, pc, wants, events, input, lock, inside>>

(* What is on a list, and that nothing is on it twice. *)
Members(s) == {s[i] : i \in DOMAIN s}
Distinct(s) == \A i, j \in DOMAIN s : s[i] = s[j] => i = j

Codes == {"kchange", "bchange", "tchange"}

(* The events p waits for that have not completed. *)
Pending(p) == evlist[p] \ zlr[p]

(* p executes its own code, at point 'at'. *)
Running(p, at) == mode = "run" /\ rlr # <<>> /\ p = Head(rlr) /\ pc[p] = at

(* Where a call returns to: super(), which dispatches after every AES call *)
(* of a program, or the code inside the AES that called it.                *)
Return(p) == [pc EXCEPT ![p] = IF p \in Direct THEN "user" ELSE "leave"]

(* Mutant: a full ring is not looked for. *)
forkqUnchecked(s, code) == Append(s, code)

(* forkq(): a full ring refuses the fork. *)
forkq(s, code) == IF Len(s) < NFORKS THEN Append(s, code) ELSE s

(* chkkbd(): polls for a key, if gl_mowner has room for one, and for a     *)
(* change of the shift keys. Either becomes a fork.                        *)
chkkbd == ring' \in {ring, forkq(ring, "kchange")}

(* Mutant: signal() does not ask whether p sleeps. *)
azombieReadiesAny(p, k) ==
  /\ zlr' = [zlr EXCEPT ![p] = @ \cup {k}]
  /\ evflg' = [evflg EXCEPT ![p] = @ \cup {k}]
  /\ nrl' = nrl \ {p}
  /\ drl' = <<p>> \o drl
  /\ waitin' = waitin \ {p}

(* azombie(): the event k of p completes. signal() then makes p ready if   *)
(* it sleeps for it.                                                       *)
azombie(p, k) ==
  /\ zlr' = [zlr EXCEPT ![p] = @ \cup {k}]
  /\ evflg' = [evflg EXCEPT ![p] = @ \cup {k}]
  /\ IF p \in nrl /\ evflg'[p] \cap evwait[p] # {}
     THEN /\ nrl' = nrl \ {p}
          /\ drl' = <<p>> \o drl
          /\ waitin' = waitin \ {p}
     ELSE UNCHANGED <<nrl, drl, waitin>>

(* dsptch() and the first half of disp() for the process that runs:        *)
(* disp_act() puts it at the end of the ready list.                        *)
disp_act(p) == rlr' = Append(Tail(rlr), p) /\ mode' = "disp"

(* Mutant: p sleeps without looking at its flags. *)
mwaitBlind(p, mask, flg) ==
  /\ evwait' = [evwait EXCEPT ![p] = mask]
  /\ mode' = "disp"
  /\ rlr' = Tail(rlr)
  /\ nrl' = nrl \cup {p}
  /\ waitin' = waitin \cup {p}
  /\ UNCHANGED drl

(* mwait(), mwait_act(): p sleeps unless an event it waits for is there.   *)
(* 'flg' is the p_evflg its call has arrived at.                           *)
mwait(p, mask, flg) ==
  /\ evwait' = [evwait EXCEPT ![p] = mask]
  /\ IF mask \cap flg # {}
     THEN /\ mode' = "run"
          /\ UNCHANGED lists
     ELSE /\ mode' = "disp"
          /\ rlr' = Tail(rlr)
          /\ nrl' = nrl \cup {p}
          /\ waitin' = waitin \cup {p}
          /\ UNCHANGED drl

(***************************************************************************)
(* Events: iasync() takes a block per event and starts to wait, ev_block() *)
(* waits for one event and ev_multi() for the first of several.            *)
(***************************************************************************)

(* iasync() for the events ks, of which 'now' complete at once. *)
iasync(p, ks, now) ==
  /\ evlist' = [evlist EXCEPT ![p] = @ \cup ks]
  /\ zlr' = [zlr EXCEPT ![p] = @ \cup now]
  /\ evflg' = [evflg EXCEPT ![p] = @ \cup now]
  /\ mwait(p, ks, evflg[p] \cup now)

(* akbin() takes a key that is in the buffer; abutton() finds the buttons  *)
(* in the wanted state or not.                                             *)
AtOnce(p, k) ==
  CASE k = "KEYBD"  -> {IF kcnt[p] > 0 THEN {"KEYBD"} ELSE {}}
    [] k = "BUTTON" -> {{}, {"BUTTON"}}
    [] OTHER        -> {{}}

ev_block(p, k) ==
  /\ Running(p, "user")
  /\ pc' = [pc EXCEPT ![p] = "block"]
  /\ wants' = [wants EXCEPT ![p] = {k}]
  /\ \E now \in AtOnce(p, k) :
       /\ iasync(p, {k}, now)
       /\ kcnt' = [kcnt EXCEPT ![p] = IF "KEYBD" \in now THEN @ - 1 ELSE @]
  /\ UNCHANGED <<forks, gl_mowner, lock, inside>>

(* Mutant: the flags of the events picked up stay set. *)
apretKeepsFlag(p, ks, held) ==
  LET got == ks \cap held IN
  /\ evlist' = [evlist EXCEPT ![p] = held \ got]
  /\ zlr' = [zlr EXCEPT ![p] = @ \ got]
  /\ UNCHANGED evflg
  /\ pc' = Return(p)

(* apret(k) for each k of ks that has a block on the process' list. *)
apret(p, ks, held) ==
  LET got == ks \cap held IN
  /\ evlist' = [evlist EXCEPT ![p] = held \ got]
  /\ zlr' = [zlr EXCEPT ![p] = @ \ got]
  /\ evflg' = [evflg EXCEPT ![p] = @ \ got]
  /\ pc' = Return(p)

(* The end of ev_block(): mwait() has returned. *)
block_ret(p) ==
  /\ Running(p, "block")
  /\ apret(p, wants[p], evlist[p])
  /\ evwait' = [evwait EXCEPT ![p] = @ \ (wants[p] \cap evlist[p])]
  /\ inside' = [inside EXCEPT ![p] = IF wants[p] = {"MUTEX"} THEN 1 ELSE @]
  /\ UNCHANGED <<lists, mode, forks, wants, input, lock>>

(* ev_multi() polls the keyboard and runs the forks first. *)
ev_multi(p, flags) ==
  /\ Running(p, "user")
  /\ chkkbd
  /\ mode' = "multi"
  /\ pc' = [pc EXCEPT ![p] = "multi"]
  /\ wants' = [wants EXCEPT ![p] = flags]
  /\ UNCHANGED <<lists, cur, events, input, lock, inside>>

(* The quick checks of ev_multi(): a key, the buttons if it owns the mouse, *)
(* a zero delay.                                                           *)
Quick(p) ==
  {what \in SUBSET wants[p] :
     /\ "KEYBD" \in what <=> "KEYBD" \in wants[p] /\ kcnt[p] > 0
     /\ "BUTTON" \in what => p = gl_mowner}

(* Either something is there already, or it waits for all of the events.   *)
multi_check(p) ==
  /\ mode = "multi" /\ rlr # <<>> /\ p = Head(rlr)
  /\ ring = <<>> /\ cur = "none"
  /\ \/ \E what \in Quick(p) \ {{}} :
          /\ kcnt' = [kcnt EXCEPT ![p] = IF "KEYBD" \in what THEN @ - 1 ELSE @]
          /\ mode' = "run"
          /\ pc' = Return(p)
          /\ UNCHANGED <<lists, events>>
     \/ /\ {} \in Quick(p)
        /\ \E now \in SUBSET (wants[p] \cap {"BUTTON"}) : iasync(p, wants[p], now)
        /\ UNCHANGED <<kcnt, pc>>
  /\ UNCHANGED <<forks, wants, gl_mowner, lock, inside>>

(* The end of ev_multi(): acancel() takes off what has not completed, and  *)
(* apret() what has.                                                       *)
multi_ret(p) ==
  LET cancelled == Pending(p) \cap wants[p]
      which     == evflg[p] \cup (zlr[p] \cap wants[p])
  IN
  /\ Running(p, "multi")
  /\ apret(p, which, evlist[p] \ cancelled)
  /\ evwait' = [evwait EXCEPT ![p] = @ \ (cancelled \cup (which \cap evlist[p]))]
  /\ UNCHANGED <<lists, mode, forks, wants, input, lock, inside>>

(***************************************************************************)
(* The screen semaphore.                                                   *)
(***************************************************************************)

(* Mutant: the wait list is looked at, not the count. *)
MayTakeUnawaited(p) == sy_owner = p \/ sy_wait = <<>>

(* tak_flag(): p may take the semaphore. *)
MayTake(p) == sy_owner = p \/ sy_tas = 0

(* wm_update(BEG_UPDATE); amutex() puts p at the head of the wait list. *)
wm_update_beg(p) ==
  /\ Running(p, "user")
  /\ inside[p] < MaxNest
  /\ \/ /\ MayTake(p)
        /\ sy_tas' = sy_tas + 1
        /\ sy_owner' = p
        /\ inside' = [inside EXCEPT ![p] = @ + 1]
        /\ pc' = Return(p)
        /\ UNCHANGED <<lists, mode, wants, events, sy_wait>>
     \/ /\ ~MayTake(p)
        /\ sy_wait' = <<p>> \o sy_wait
        /\ pc' = [pc EXCEPT ![p] = "block"]
        /\ wants' = [wants EXCEPT ![p] = {"MUTEX"}]
        /\ iasync(p, {"MUTEX"}, {})
        /\ UNCHANGED <<sy_tas, sy_owner, inside>>
  /\ UNCHANGED <<forks, input>>

(* Mutant: the process that gets the semaphore stays on the wait list. *)
unsyncKeepsWaiter(p) ==
  \/ sy_tas = 0 /\ UNCHANGED <<lists, mode, events, lock>>
  \/ /\ sy_tas > 0 /\ (sy_tas > 1 \/ sy_wait = <<>>)
     /\ sy_tas' = sy_tas - 1
     /\ sy_owner' = IF sy_tas = 1 THEN NoProc ELSE sy_owner
     /\ UNCHANGED <<lists, mode, events, sy_wait>>
  \/ /\ sy_tas = 1 /\ sy_wait # <<>>
     /\ sy_owner' = Head(sy_wait)
     /\ azombie(Head(sy_wait), "MUTEX")
     /\ disp_act(p)
     /\ UNCHANGED <<sy_tas, sy_wait, evlist, evwait>>

(* Mutant: an inner unlock hands the semaphore on as well. *)
unsyncAnyLevel(p) ==
  \/ sy_tas = 0 /\ UNCHANGED <<lists, mode, events, lock>>
  \/ /\ sy_tas > 0 /\ sy_wait = <<>>
     /\ sy_tas' = sy_tas - 1
     /\ sy_owner' = IF sy_tas = 1 THEN NoProc ELSE sy_owner
     /\ UNCHANGED <<lists, mode, events, sy_wait>>
  \/ /\ sy_tas > 0 /\ sy_wait # <<>>
     /\ sy_tas' = 1
     /\ sy_wait' = Tail(sy_wait)
     /\ sy_owner' = Head(sy_wait)
     /\ azombie(Head(sy_wait), "MUTEX")
     /\ disp_act(p)
     /\ UNCHANGED <<evlist, evwait>>

(* unsync(): the last unlock hands the semaphore to the next waiter, and   *)
(* dispatches.                                                             *)
unsync(p) ==
  \/ /\ sy_tas = 0
     /\ UNCHANGED <<lists, mode, events, lock>>
  \/ /\ sy_tas > 1
     /\ sy_tas' = sy_tas - 1
     /\ UNCHANGED <<lists, mode, events, sy_owner, sy_wait>>
  \/ /\ sy_tas = 1 /\ sy_wait = <<>>
     /\ sy_tas' = 0
     /\ sy_owner' = NoProc
     /\ UNCHANGED <<lists, mode, events, sy_wait>>
  \/ /\ sy_tas = 1 /\ sy_wait # <<>>
     /\ sy_wait' = Tail(sy_wait)
     /\ sy_owner' = Head(sy_wait)
     /\ azombie(Head(sy_wait), "MUTEX")
     /\ disp_act(p)
     /\ UNCHANGED <<sy_tas, evlist, evwait>>

(* wm_update(END_UPDATE), by a process that has the screen, or by one too  *)
(* many such calls while nobody has it.                                    *)
wm_update_end(p) ==
  /\ Running(p, "user")
  /\ inside[p] > 0 \/ sy_tas = 0
  /\ unsync(p)
  /\ pc' = Return(p)
  /\ inside' = [inside EXCEPT ![p] = IF @ > 0 THEN @ - 1 ELSE 0]
  /\ UNCHANGED <<forks, wants, input>>

(* wm_new(): unlock until the count is 0, whoever has the semaphore. *)
wm_new(p) ==
  /\ p \in Quitters
  /\ \/ /\ Running(p, "user")
        /\ pc' = [pc EXCEPT ![p] = "new"]
        /\ inside' = [inside EXCEPT ![p] = 0]
        /\ UNCHANGED <<lists, mode, events, lock>>
     \/ /\ Running(p, "new")
        /\ sy_tas > 0
        /\ unsync(p)
        /\ UNCHANGED <<pc, inside>>
     \/ /\ Running(p, "new")
        /\ sy_tas = 0
        /\ pc' = Return(p)
        /\ UNCHANGED <<lists, mode, events, lock, inside>>
  /\ UNCHANGED <<forks, wants, input>>

(***************************************************************************)
(* Other calls of a running process.                                       *)
(***************************************************************************)

(* super(): the end of every AES call of a program lets someone else run.  *)
super(p) ==
  /\ Running(p, "leave")
  /\ disp_act(p)
  /\ pc' = [pc EXCEPT ![p] = "user"]
  /\ UNCHANGED <<drl, nrl, waitin, forks, wants, events, input, lock, inside>>

(* A call that changes nothing here, or code of the AES that dispatches by *)
(* itself.                                                                 *)
dsptch(p) ==
  /\ Running(p, "user")
  /\ disp_act(p)
  /\ UNCHANGED <<drl, nrl, waitin, forks, pc, wants, events, input, lock, inside>>

(* set_mown(m): post_button() may complete the new owner's wait. *)
set_mown(p, m) ==
  /\ Running(p, "user")
  /\ gl_mowner' = m
  /\ \/ UNCHANGED <<lists, events>>
     \/ /\ "BUTTON" \in Pending(m)
        /\ azombie(m, "BUTTON")
        /\ UNCHANGED <<rlr, evlist, evwait>>
  /\ pc' = Return(p)
  /\ UNCHANGED <<mode, forks, wants, kcnt, lock, inside>>

(***************************************************************************)
(* Forks and the dispatcher.                                               *)
(***************************************************************************)

(* A button or tick interrupt enters its fork. *)
interrupt ==
  /\ Len(ring) < NFORKS
  /\ \E code \in {"bchange", "tchange"} : ring' = forkq(ring, code)
  /\ UNCHANGED <<lists, mode, cur, pc, wants, events, input, lock, inside>>

(* forker() takes the next fork. *)
forker ==
  /\ mode # "run" /\ cur = "none" /\ ring # <<>>
  /\ cur' = Head(ring)
  /\ ring' = Tail(ring)
  /\ UNCHANGED <<lists, mode, pc, wants, events, input, lock, inside>>

(* post_keybd(): the key wakes the owner of the keyboard or is buffered; a *)
(* change of the shift keys does neither.                                  *)
kchange ==
  /\ cur = "kchange" /\ cur' = "none"
  /\ \/ UNCHANGED <<lists, events, kcnt>>
     \/ /\ "KEYBD" \in Pending(gl_mowner)
        /\ azombie(gl_mowner, "KEYBD")
        /\ UNCHANGED <<rlr, evlist, evwait, kcnt>>
     \/ /\ "KEYBD" \notin Pending(gl_mowner)
        /\ kcnt[gl_mowner] < KBD_SIZE
        /\ kcnt' = [kcnt EXCEPT ![gl_mowner] = @ + 1]
        /\ UNCHANGED <<lists, events>>
  /\ UNCHANGED <<mode, ring, pc, wants, gl_mowner, lock, inside>>

(* A press may give the mouse to another process; then post_button(). *)
bchange ==
  /\ cur = "bchange" /\ cur' = "none"
  /\ \E m \in Procs :
       /\ gl_mowner' = m
       /\ \/ UNCHANGED <<lists, events>>
          \/ /\ "BUTTON" \in Pending(m)
             /\ azombie(m, "BUTTON")
             /\ UNCHANGED <<rlr, evlist, evwait>>
  /\ UNCHANGED <<mode, ring, pc, wants, kcnt, lock, inside>>

(* tchange() completes the timers that have run out, one by one; which     *)
(* those are is the matter of module AESTimer.                             *)
tchange ==
  /\ cur = "tchange"
  /\ \/ \E p \in Procs :
          /\ "TIMER" \in Pending(p)
          /\ azombie(p, "TIMER")
          /\ UNCHANGED <<rlr, cur, evlist, evwait>>
     \/ /\ cur' = "none"
        /\ UNCHANGED <<lists, events>>
  /\ UNCHANGED <<mode, ring, pc, wants, input, lock, inside>>

(* Mutant: a fork found by chkkbd() makes it forget the drive-ready list. *)
scheduleLosesReady ==
  /\ mode = "disp" /\ ring = <<>> /\ cur = "none"
  /\ chkkbd
  /\ rlr' = IF ring' = <<>> THEN rlr \o drl ELSE rlr
  /\ drl' = <<>>
  /\ mode' = IF ring' = <<>> /\ rlr' # <<>> THEN "run" ELSE "disp"
  /\ UNCHANGED <<nrl, waitin, cur, pc, wants, events, input, lock, inside>>

(* schedule(), when forker() has emptied the ring: the drive-ready list    *)
(* goes to the end of the ready list; disp() then loops for a new fork,    *)
(* schedule() for a process to run.                                        *)
schedule ==
  /\ mode = "disp" /\ ring = <<>> /\ cur = "none"
  /\ chkkbd
  /\ rlr' = rlr \o drl
  /\ drl' = <<>>
  /\ mode' = IF ring' = <<>> /\ rlr' # <<>> THEN "run" ELSE "disp"
  /\ UNCHANGED <<nrl, waitin, cur, pc, wants, events, input, lock, inside>>

(***************************************************************************)
(* gem_main(): the shell runs; the screen manager, which owns mouse and    *)
(* keyboard, and the accessories have just been started, pstart() having   *)
(* put each on the drive-ready list. 'Boot' is the order they were made    *)
(* in: any. An instance may leave the screen manager out.                  *)
(***************************************************************************)
Boot == {s \in [1 .. Cardinality(Procs) -> Procs] :
           /\ Members(s) = Procs /\ Distinct(s)
           /\ Direct # Procs => Head(s) \notin Direct}

Init ==
  /\ \E s \in Boot : rlr = <<Head(s)>> /\ drl = Tail(s)
  /\ nrl = {}
  /\ waitin = {}
  /\ mode = "run"
  /\ ring = <<>>
  /\ cur = "none"
  /\ pc = [p \in Procs |-> "user"]
  /\ wants = [p \in Procs |-> {}]
  /\ evlist = [p \in Procs |-> {}]
  /\ zlr = [p \in Procs |-> {}]
  /\ evflg = [p \in Procs |-> {}]
  /\ evwait = [p \in Procs |-> {}]
  /\ kcnt = [p \in Procs |-> 0]
  /\ gl_mowner \in Procs /\ (Direct # {} => gl_mowner \in Direct)
  /\ sy_tas = 0
  /\ sy_owner = NoProc
  /\ sy_wait = <<>>
  /\ inside = [p \in Procs |-> 0]

ProcStep(p) ==
  \/ super(p)
  \/ dsptch(p)
  \/ \E k \in Block : ev_block(p, k)
  \/ block_ret(p)
  \/ \E flags \in Multi : ev_multi(p, flags)
  \/ multi_check(p)
  \/ multi_ret(p)
  \/ wm_update_beg(p)
  \/ wm_update_end(p)
  \/ wm_new(p)
  \/ \E m \in Procs : set_mown(p, m)

Kernel == forker \/ kchange \/ bchange \/ tchange \/ schedule

Next == interrupt \/ Kernel \/ \E p \in Procs : ProcStep(p)

Spec == Init /\ [][Next]_vars

(***************************************************************************)
(* Fairness. The processor never stops: the dispatcher, the forks and a    *)
(* call under way go on, and a program makes another call some time (the   *)
(* AES cannot take the processor away from it). Interrupts are rarer than  *)
(* forks are quick: the ring runs empty again and again, so what waits for *)
(* that is strongly fair. So are the keys: a poll often finds none.        *)
(***************************************************************************)
Fairness ==
  /\ WF_vars(forker) /\ WF_vars(kchange) /\ WF_vars(bchange)
  /\ WF_vars(tchange /\ cur' = "none")
  /\ SF_vars(schedule /\ ring' = <<>>)
  /\ \A p \in Procs : WF_vars(ProcStep(p)) /\ SF_vars(multi_check(p))

FairSpec == Spec /\ Fairness /\ []<>(ring = <<>> /\ cur = "none")

(***************************************************************************)
(* Properties.                                                             *)
(***************************************************************************)

(* Every variable has its type. *)
TypeOK ==
  /\ rlr \in Seq(Procs) /\ drl \in Seq(Procs)
  /\ nrl \subseteq Procs /\ waitin \subseteq Procs
  /\ mode \in {"run", "multi", "disp"}
  /\ ring \in Seq(Codes) /\ Len(ring) <= NFORKS
  /\ cur \in Codes \cup {"none"}
  /\ pc \in [Procs -> {"user", "multi", "block", "new", "leave"}]
  /\ wants \in [Procs -> SUBSET Kinds]
  /\ evlist \in [Procs -> SUBSET Kinds]
  /\ zlr \in [Procs -> SUBSET Kinds]
  /\ evflg \in [Procs -> SUBSET Kinds]
  /\ evwait \in [Procs -> SUBSET Kinds]
  /\ kcnt \in [Procs -> 0 .. KBD_SIZE]
  /\ gl_mowner \in Procs
  /\ sy_tas \in Nat
  /\ sy_owner \in Procs \cup {NoProc}
  /\ sy_wait \in Seq(Procs)
  /\ inside \in [Procs -> 0 .. MaxNest]

(* The dispatcher and the forks never lose a process or link it twice: it  *)
(* is on exactly one of the three lists, once. WAITIN, which the control   *)
(* manager reads to see whether a process sleeps, says which.              *)
OneList ==
  /\ Distinct(rlr) /\ Distinct(drl)
  /\ Members(rlr) \cap Members(drl) = {}
  /\ nrl = Procs \ (Members(rlr) \cup Members(drl))
  /\ waitin = nrl

(* No lost wake-up: a process sleeps only while none of the events it      *)
(* waits for has completed, and only for events that still can.            *)
NoLostWakeup ==
  \A p \in nrl : evwait[p] \subseteq Pending(p) /\ evwait[p] # {}

(* A process back in its own code holds no event block and no event flag:  *)
(* ev_multi() takes off or picks up every event it had started, whatever   *)
(* completed in between. So EVBS_PER_PD blocks per process are enough.     *)
NoEventLeak ==
  \A p \in Procs :
    pc[p] \in {"user", "new", "leave"} =>
      evlist[p] = {} /\ zlr[p] = {} /\ evflg[p] = {} /\ evwait[p] = {}

(* Between the return of wm_update(BEG_UPDATE) and the matching            *)
(* END_UPDATE, the screen is the process' own.                             *)
MutualExclusion ==
  \A p, q \in Procs : inside[p] > 0 /\ inside[q] > 0 => p = q

(* The semaphore is handed on: whoever sleeps for it is on its wait list,  *)
(* once, and while anybody does it has an owner, who is not one of them.   *)
LockHandedOn ==
  /\ Distinct(sy_wait)
  /\ Members(sy_wait) = {p \in nrl : "MUTEX" \in evwait[p]}
  /\ sy_wait # <<>> => sy_tas > 0 /\ sy_owner \in Procs \ Members(sy_wait)

(* wm_update() keeps the promise of module ScreenLock. *)
Asking == {p \in Procs : pc[p] = "block" /\ wants[p] = {"MUTEX"}}
Screen == INSTANCE ScreenLock WITH asking <- Asking
ScreenLockSpec == Screen!Spec

(* What an event has completed for is picked up. *)
EventDelivered ==
  \A p \in Procs : zlr[p] # {} ~> zlr[p] = {}

=============================================================================
