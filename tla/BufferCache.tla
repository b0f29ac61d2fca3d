----------------------------- MODULE BufferCache -----------------------------
(***************************************************************************)
(* GEMDOS' sector buffers (bdos/fsbuf.c), the transfers past them          *)
(* (bdos/fsio.c, usrio()), and what osif() (bdos/bdosmain.c) does when     *)
(* the BIOS reports an error or a changed medium in the middle of a call.  *)
(*                                                                         *)
(* There are two lists of buffers, one for FAT records and one for the     *)
(* root directory and data. Every BIOS call (Rwabs, Mediach, Getbpb) is a  *)
(* step of its own: the user changes the disk between any two of them. A   *)
(* call of the BDOS is a sequence of requests for records, in any order;   *)
(* FileIO and OpenFiles say which. What the file system writes is a        *)
(* number, so that no two writes are alike.                                *)
(***************************************************************************)
EXTENDS Integers, FiniteSets

CONSTANTS
  Drives,    (* the logical drives                                         *)
  Removable, (* those with a removable medium (Bdrvrem())                  *)
  Media,     (* the disks there are                                        *)
  DriveOf,   (* DriveOf[m]: the drive that m fits into                     *)
  Single,    (* the media with one FAT (m_1fat)                            *)
  Records,   (* the records of a medium: [b_buftyp, b_bufrec]              *)
  Used,      (* bound: Used[d] are those that the calls on drive d use     *)
  Buffers,   (* the BCBs                                                   *)
  ListOf,    (* ListOf[b]: the list of b, BI_FAT or BI_DATA                *)
  None,      (* no drive (b_bufdrv is -1), no medium (no drvtbl[] entry)   *)
  MaxWrites  (* bound: writes of the file system in a behaviour            *)

BI_FAT == 0
BI_DATA == 1
BT_FAT == 0
BT_ROOT == 1
BT_DATA == 2

Lists == {BI_FAT, BI_DATA}
On(l) == {b \in Buffers : ListOf[b] = l}

ASSUME BufferAssumption ==
  /\ Removable \subseteq Drives
  /\ DriveOf \in [Media -> Drives]
  /\ Single \subseteq Media
  /\ Records \subseteq [b_buftyp : {BT_FAT, BT_ROOT, BT_DATA}, b_bufrec : Nat]
  /\ Records # {}
  /\ Used \in [Drives -> SUBSET Records]
  /\ IsFiniteSet(Buffers)
  /\ ListOf \in [Buffers -> Lists]
  /\ \A l \in Lists : On(l) # {}
  /\ None \notin Drives \cup Media \cup Buffers
  /\ MaxWrites \in Nat

VARIABLES
  disk,   (* disk[m][r]: a record of a medium; a FAT record's second copy, *)
  copy,   (* which is the one that is read, and copy[m][r] its first copy  *)
  med,    (* med[d]: the medium in drive d                                 *)
  media,  (* media[d]: blkdev[d].mediachange, and the drive's own latch:   *)
          (* 0 no change, 1 maybe, 2 changed                               *)
  drvtbl, (* drvtbl[d]: the medium the drive was logged in with, or None   *)
  bufl,   (* bufl[b]: the BCB b                                            *)
  place,  (* place[b]: its place in its list, from the head (1)            *)
  call,   (* the call that is running: its drive, whether it goes by a     *)
          (* handle, the record asked for, whether to write it, ...        *)
  pc,     (* ... and how far it is                                         *)
  clock   (* the number of the last write                                  *)

vars == <<disk, copy, med, media, drvtbl, bufl, place, call, pc, clock>>

AnyRecord == CHOOSE r \in Records : TRUE
ListFor(r) == IF r.b_buftyp = BT_FAT THEN BI_FAT ELSE BI_DATA

(* An invalid BCB: what else is in it is never looked at.                  *)
Empty == [b_bufdrv |-> None, b_rec |-> AnyRecord, b_dirty |-> FALSE,
          b_dm |-> None, b_bufr |-> 0]
BCB == [b_bufdrv : Drives \cup {None}, b_rec : Records, b_dirty : BOOLEAN,
        b_dm : Media \cup {None}, b_bufr : Nat]

(* drv, handle: the call; rec, write: the record that getrec() is asked    *)
(* for; recs: the records of usrio(); victim: the BCB being flushed or     *)
(* filled, and then: what is done after the flush.                         *)
NoCall == [drv |-> None, handle |-> FALSE, rec |-> AnyRecord, write |-> FALSE,
           recs |-> {}, victim |-> None, then |-> "idle"]

Valid(b) == bufl[b].b_bufdrv # None
Holds(b, d, r) == Valid(b) /\ bufl[b].b_bufdrv = d /\ bufl[b].b_rec = r

-----------------------------------------------------------------------------
(* A call ends, or goes on from a point of its own.                        *)

Return == call' = NoCall /\ pc' = "idle"
Goto(label, c) == call' = c /\ pc' = label

(* Mutant of mark_bcbs_invalid(): the buffers are kept.                    *)
mark_bcbs_invalidNot(d, bcbs) == bcbs

(* The BCBs without those of drive d.                                      *)
mark_bcbs_invalid(d, bcbs) ==
  [b \in Buffers |-> IF bcbs[b].b_bufdrv = d THEN Empty ELSE bcbs[b]]

(* osif() after a longjmp() with E_CHNG: the drive's handles and           *)
(* directories are freed, its buffers invalidated, and it is logged in     *)
(* again; then the call starts from the beginning. A call that goes by a   *)
(* handle of that drive finds it closed. bcbs: the BCBs as they were when  *)
(* the error came.                                                         *)
MediaChange(d, bcbs) ==
  /\ bufl' = mark_bcbs_invalid(d, bcbs)
  /\ media' = [media EXCEPT ![d] = 0]
  /\ \/ /\ drvtbl' = [drvtbl EXCEPT ![d] = None]     (* Getbpb() fails     *)
        /\ Return
     \/ /\ drvtbl' = [drvtbl EXCEPT ![d] = med[d]]
        /\ IF call.handle /\ call.drv = d THEN Return
           ELSE Goto("start", [NoCall EXCEPT !.drv = call.drv, !.handle = call.handle])
  /\ UNCHANGED <<disk, copy, med, place, clock>>

(* osif() after any other error.                                           *)
HardError(d, bcbs) ==
  /\ bufl' = mark_bcbs_invalid(d, bcbs)
  /\ Return
  /\ UNCHANGED <<disk, copy, med, media, drvtbl, place, clock>>

(* How Rwabs() on drive d fails.                                           *)
RwabsFails(d, bcbs) ==
  IF media[d] # 0 THEN MediaChange(d, bcbs) ELSE HardError(d, bcbs)

-----------------------------------------------------------------------------
(* Calls begin.                                                            *)

(* A call by a handle or a known directory of drive d, or by a path.       *)
Begin(d, handle) ==
  /\ pc = "idle"
  /\ handle => drvtbl[d] # None
  /\ Goto("start", [NoCall EXCEPT !.drv = d, !.handle = handle])
  /\ UNCHANGED <<disk, copy, med, media, drvtbl, bufl, place, clock>>

(* ckdrv(), for a call by a path.                                          *)
ckdrv ==
  LET d == call.drv IN
  /\ pc = "start"
  /\ \/ /\ call.handle \/ (drvtbl[d] # None /\ (d \notin Removable \/ media[d] = 0))
        /\ Goto("busy", call)
        /\ UNCHANGED <<disk, copy, med, media, drvtbl, bufl, place, clock>>
     \/ /\ ~call.handle /\ drvtbl[d] # None
        /\ d \in Removable /\ media[d] # 0
        /\ MediaChange(d, bufl)
     \/ /\ ~call.handle /\ drvtbl[d] = None
        /\ media' = [media EXCEPT ![d] = 0]
        /\ \/ Return /\ UNCHANGED drvtbl             (* Getbpb() fails     *)
           \/ Goto("busy", call) /\ drvtbl' = [drvtbl EXCEPT ![d] = med[d]]
        /\ UNCHANGED <<disk, copy, med, bufl, place, clock>>

(* The call is done.                                                       *)
Done ==
  /\ pc = "busy"
  /\ Return
  /\ UNCHANGED <<disk, copy, med, media, drvtbl, bufl, place, clock>>

-----------------------------------------------------------------------------
(* flush()                                                                 *)

(* To write the dirty buffer b, and then to go on.                         *)
Flush(b, then) ==
  /\ Goto("flush", [call EXCEPT !.victim = b, !.then = then])
  /\ UNCHANGED <<disk, copy, med, media, drvtbl, bufl, place, clock>>

(* Which medium a write to drive d changes.                                *)
Written(store, d, r, v) == [store EXCEPT ![med[d]][r] = v]

flush ==
  LET b == call.victim
      v == bufl[b]
      d == v.b_bufdrv
      second == v.b_rec.b_buftyp = BT_FAT /\ v.b_dm \notin Single
  IN
  /\ pc = "flush"
  /\ \/ RwabsFails(d, bufl)
     \/ /\ media[d] = 0
        /\ disk' = Written(disk, d, v.b_rec, v.b_bufr)
        /\ IF second THEN pc' = "copy" /\ UNCHANGED bufl
           ELSE /\ pc' = call.then
                /\ bufl' = [bufl EXCEPT ![b].b_dirty = FALSE]
        /\ UNCHANGED <<copy, med, media, drvtbl, place, call, clock>>

(* The first FAT. Until it is written the buffer is invalid in the code;   *)
(* here it stays, for nobody looks at it before.                           *)
flush_copy ==
  LET b == call.victim
      v == bufl[b]
      d == v.b_bufdrv
  IN
  /\ pc = "copy"
  /\ \/ RwabsFails(d, bufl)
     \/ /\ media[d] = 0
        /\ copy' = Written(copy, d, v.b_rec, v.b_bufr)
        /\ bufl' = [bufl EXCEPT ![b].b_dirty = FALSE]
        /\ pc' = call.then
        /\ UNCHANGED <<disk, med, media, drvtbl, place, call, clock>>

-----------------------------------------------------------------------------
(* getbcb() and getrec()                                                   *)

(* Mutant of ToHead: b goes one place up.                                  *)
ToHeadOne(b) ==
  [x \in Buffers |-> IF x = b THEN place[x] - 1 ELSE place[x]]

(* b moves to the head of its list.                                        *)
ToHead(b) ==
  [x \in Buffers |->
     IF x = b THEN 1
     ELSE IF ListOf[x] = ListOf[b] /\ place[x] < place[b] THEN place[x] + 1
     ELSE place[x]]

(* The buffer to replace: the last invalid one, or the last.               *)
Candidates(l) ==
  LET invalid == {b \in On(l) : ~Valid(b)}
  IN  IF invalid # {} THEN invalid ELSE On(l)

(* The file system's write into a buffer that getrec() has returned.       *)
Change(bcb, write) ==
  IF write THEN [bcb EXCEPT !.b_dirty = TRUE, !.b_bufr = clock + 1] ELSE bcb
Tick(write) == clock' = IF write THEN clock + 1 ELSE clock

(* doio: b is flushed if need be, and then filled with record r.           *)
Replace(b, r, write) ==
  LET fill == [call EXCEPT !.rec = r, !.write = write, !.victim = b, !.then = "fill"] IN
  /\ Goto(IF Valid(b) /\ bufl[b].b_dirty THEN "flush" ELSE "fill", fill)
  /\ UNCHANGED <<disk, copy, med, media, drvtbl, bufl, place, clock>>

Hit(b, write) ==
  /\ bufl' = [bufl EXCEPT ![b] = Change(@, write)]
  /\ place' = ToHead(b)
  /\ Tick(write)
  /\ UNCHANGED <<disk, copy, med, media, drvtbl, call, pc>>

(* A record is asked for, and Mediach() for the drive if it is there.      *)
getrec(r, write) ==
  LET d == call.drv IN
  /\ pc = "busy"
  /\ r \in Used[d]
  /\ write => clock < MaxWrites
  /\ \/ \E b \in On(ListFor(r)) :
          /\ Holds(b, d, r)
          /\ \/ media[d] = 0 /\ Hit(b, write)
             \/ media[d] = 1 /\ Replace(b, r, write)
             \/ media[d] = 2 /\ MediaChange(d, bufl)
     \/ /\ \A b \in On(ListFor(r)) : ~Holds(b, d, r)
        /\ \E b \in Candidates(ListFor(r)) :
             /\ \A x \in Candidates(ListFor(r)) : place[x] <= place[b]
             /\ Replace(b, r, write)

Filled == [b_bufdrv |-> call.drv, b_rec |-> call.rec, b_dirty |-> FALSE,
           b_dm |-> drvtbl[call.drv], b_bufr |-> disk[med[call.drv]][call.rec]]

(* The record is read. A failure leaves the buffer invalid.                *)
fill ==
  LET b == call.victim IN
  /\ pc = "fill"
  /\ \/ /\ media[call.drv] = 0
        /\ bufl' = [bufl EXCEPT ![b] = Change(Filled, call.write)]
        /\ place' = ToHead(b)
        /\ Tick(call.write)
        /\ Goto("busy", [NoCall EXCEPT !.drv = call.drv, !.handle = call.handle])
        /\ UNCHANGED <<disk, copy, med, media, drvtbl>>
     \/ RwabsFails(call.drv, [bufl EXCEPT ![b] = Empty])

-----------------------------------------------------------------------------
(* usrio()                                                                 *)

Runs == {r \in Records : r.b_buftyp = BT_DATA}

Begin_usrio(R, write) ==
  /\ pc = "busy"
  /\ R # {} /\ R \subseteq Used[call.drv] \cap Runs
  /\ write => clock < MaxWrites
  /\ Goto("usrio", [call EXCEPT !.recs = R, !.write = write])
  /\ UNCHANGED <<disk, copy, med, media, drvtbl, bufl, place, clock>>

(* The data buffers that hold one of the records. The code compares their  *)
(* numbers only: a record of the root directory may be one of them.        *)
Overlaps(b) ==
  /\ ListOf[b] = BI_DATA /\ bufl[b].b_bufdrv = call.drv
  /\ \E r \in call.recs : r.b_bufrec = bufl[b].b_rec.b_bufrec

(* Mutant of usrio_buffer: a dirty buffer is dropped.                      *)
usrio_bufferDrops ==
  /\ pc = "usrio"
  /\ \E b \in Buffers :
       /\ Overlaps(b)
       /\ bufl' = [bufl EXCEPT ![b] = Empty]
       /\ UNCHANGED <<disk, copy, med, media, drvtbl, place, call, pc, clock>>

(* The loop over the data buffers: a dirty one is flushed, a clean one     *)
(* invalidated.                                                            *)
usrio_buffer ==
  /\ pc = "usrio"
  /\ \E b \in Buffers :
       /\ Overlaps(b)
       /\ \A x \in Buffers : Overlaps(x) => place[b] <= place[x]
       /\ IF bufl[b].b_dirty THEN Flush(b, "usrio")
          ELSE /\ bufl' = [bufl EXCEPT ![b] = Empty]
               /\ UNCHANGED <<disk, copy, med, media, drvtbl, place, call, pc, clock>>

(* The transfer to or from the program's memory.                           *)
Transferred ==
  [disk EXCEPT ![med[call.drv]] =
     [r \in Records |-> IF r \in call.recs THEN clock + 1 ELSE @[r]]]

usrio ==
  /\ pc = "usrio"
  /\ \A b \in Buffers : ~Overlaps(b)
  /\ \/ RwabsFails(call.drv, bufl)
     \/ /\ media[call.drv] = 0
        /\ disk' = IF call.write THEN Transferred ELSE disk
        /\ Tick(call.write)
        /\ Goto("busy", [NoCall EXCEPT !.drv = call.drv, !.handle = call.handle])
        /\ UNCHANGED <<copy, med, media, drvtbl, bufl, place>>

-----------------------------------------------------------------------------
(* The end of ixclose(): all buffers of all drives are flushed.            *)

Begin_close ==
  /\ pc = "busy"
  /\ Goto("close", call)
  /\ UNCHANGED <<disk, copy, med, media, drvtbl, bufl, place, clock>>

(* Mutant of ToFlush: only the buffers of the file's drive.                *)
ToFlushOwn(b) == bufl[b].b_bufdrv = call.drv /\ bufl[b].b_dirty

ToFlush(b) == Valid(b) /\ bufl[b].b_dirty

(* The next one: the FAT list first, each list from its head.              *)
Sooner(b, x) ==
  \/ ListOf[b] < ListOf[x]
  \/ ListOf[b] = ListOf[x] /\ place[b] <= place[x]

ixclose_flush ==
  /\ pc = "close"
  /\ \E b \in Buffers :
       /\ ToFlush(b)
       /\ \A x \in Buffers : ToFlush(x) => Sooner(b, x)
       /\ Flush(b, "close")

ixclose ==
  /\ pc = "close"
  /\ \A b \in Buffers : ~ToFlush(b)
  /\ Return                                           (* E_OK              *)
  /\ UNCHANGED <<disk, copy, med, media, drvtbl, bufl, place, clock>>

-----------------------------------------------------------------------------
(* The world outside.                                                      *)

(* Another medium is put into the drive; the drive notices.                *)
Swap(d, m) ==
  /\ d \in Removable /\ DriveOf[m] = d /\ m # med[d]
  /\ med' = [med EXCEPT ![d] = m]
  /\ media' = [media EXCEPT ![d] = 2]
  /\ UNCHANGED <<disk, copy, drvtbl, bufl, place, call, pc, clock>>

(* A program sets the status by Rwabs() without a buffer; or the drive     *)
(* reports a change where none was (the same disk put in again).           *)
Suspect(d, status) ==
  /\ d \in Removable /\ media[d] = 0 /\ status \in {1, 2}
  /\ media' = [media EXCEPT ![d] = status]
  /\ UNCHANGED <<disk, copy, med, drvtbl, bufl, place, call, pc, clock>>

Init ==
  /\ disk = [m \in Media |-> [r \in Records |-> 0]]
  /\ copy = disk
  /\ med \in [Drives -> Media]
  /\ \A d \in Drives : DriveOf[med[d]] = d
  /\ media = [d \in Drives |-> 0]
  /\ drvtbl = [d \in Drives |-> None]
  /\ bufl = [b \in Buffers |-> Empty]
  /\ place \in [Buffers -> 1 .. Cardinality(Buffers)]
  /\ \A l \in Lists : {place[b] : b \in On(l)} = 1 .. Cardinality(On(l))
  /\ call = NoCall
  /\ pc = "idle"
  /\ clock = 0

Call ==
  \/ \E d \in Drives, handle \in BOOLEAN : Begin(d, handle)
  \/ ckdrv \/ Done \/ flush \/ flush_copy
  \/ \E r \in Records, write \in BOOLEAN : getrec(r, write)
  \/ fill
  \/ \E R \in SUBSET Runs, write \in BOOLEAN : Begin_usrio(R, write)
  \/ usrio_buffer \/ usrio
  \/ Begin_close \/ ixclose_flush \/ ixclose

Outside ==
  \E d \in Drives :
    \/ \E m \in Media : Swap(d, m)
    \/ \E status \in {1, 2} : Suspect(d, status)

Next == Call \/ Outside

Spec == Init /\ [][Next]_vars

-----------------------------------------------------------------------------
(* Properties.                                                             *)

Labels == {"idle", "start", "busy", "flush", "copy", "fill", "usrio", "close"}

(* Media, buffers and the running call are in their ranges.                *)
TypeOK ==
  /\ disk \in [Media -> [Records -> Nat]]
  /\ copy \in [Media -> [Records -> Nat]]
  /\ med \in [Drives -> Media]
  /\ \A d \in Drives : DriveOf[med[d]] = d
  /\ media \in [Drives -> 0 .. 2]
  /\ drvtbl \in [Drives -> Media \cup {None}]
  /\ bufl \in [Buffers -> BCB]
  /\ place \in [Buffers -> Nat \ {0}]
  /\ call \in [drv : Drives \cup {None}, handle : BOOLEAN, rec : Records,
               write : BOOLEAN, recs : SUBSET Records,
               victim : Buffers \cup {None}, then : Labels]
  /\ pc \in Labels
  /\ clock \in Nat

(* A valid buffer is of the medium that its drive is logged in with, no    *)
(* record is in two buffers, a clean buffer has what is on that medium     *)
(* (getbcb(), flush(), usrio() and the handling of E_CHNG by osif()); and  *)
(* each buffer has a place of its own in its list.                         *)
Coherent ==
  /\ \A b \in Buffers : Valid(b) =>
       /\ bufl[b].b_dm # None
       /\ bufl[b].b_dm = drvtbl[bufl[b].b_bufdrv]
       /\ ListOf[b] = ListFor(bufl[b].b_rec)
       /\ ~bufl[b].b_dirty => bufl[b].b_bufr = disk[bufl[b].b_dm][bufl[b].b_rec]
  /\ \A b, x \in Buffers :
       b # x /\ Valid(b) /\ Valid(x) /\ bufl[b].b_bufdrv = bufl[x].b_bufdrv
         => bufl[b].b_rec # bufl[x].b_rec
  /\ \A b, x \in Buffers : ListOf[b] = ListOf[x] /\ place[b] = place[x] => b = x

(* What the file system has for record r of medium m: what is in the       *)
(* buffer with it, or else what is on the medium.                          *)
HeldIn(bcbs, m, r) ==
  {b \in Buffers : bcbs[b].b_bufdrv # None /\ bcbs[b].b_dm = m /\ bcbs[b].b_rec = r}

ContentIn(bcbs, store, m, r) ==
  IF HeldIn(bcbs, m, r) = {} THEN store[m][r]
  ELSE bcbs[CHOOSE b \in HeldIn(bcbs, m, r) : TRUE].b_bufr

Content(m, r) == ContentIn(bufl, disk, m, r)

(* The buffers implement RecordStore: filling, flushing and replacing them *)
(* and the order of the lists show in no content, a write changes the one  *)
(* record of the one medium it is for, and what is lost is what was not    *)
(* written yet.                                                            *)
Records_ == INSTANCE RecordStore WITH
  content <- [m \in Media |-> [r \in Records |-> Content(m, r)]],
  stable <- disk
RecordStoreSpec == Records_!Spec

(* When Fclose() reports success everything that was ever written and not  *)
(* given up is on its medium, on all drives.                               *)
ClosedIsStored ==
  [][ixclose => \A m \in Media, r \in Records : Content(m, r) = disk[m][r]]_vars

(* Why Coherent is kept. A drive without a change has the medium that it   *)
(* was logged in with; a running call has its drive logged in.             *)
LoggedIn ==
  \A d \in Drives : drvtbl[d] # None =>
    /\ DriveOf[drvtbl[d]] = d
    /\ media[d] = 0 => drvtbl[d] = med[d]

(* The call has what its step needs: a buffer to be flushed is dirty, one  *)
(* to be filled has nothing that is not on its medium, and the record that *)
(* it is filled with is in no other.                                       *)
Filling == pc = "fill" \/ (pc \in {"flush", "copy"} /\ call.then = "fill")

CallReady ==
  /\ pc # "idle" => call.drv \in Drives
  /\ pc \notin {"idle", "start"} \/ (pc = "start" /\ call.handle) => drvtbl[call.drv] # None
  /\ pc \in {"flush", "copy"} =>
       /\ call.victim \in Buffers
       /\ Valid(call.victim) /\ bufl[call.victim].b_dirty
       /\ call.then \in {"fill", "usrio", "close"}
  /\ pc = "copy" =>
       bufl[call.victim].b_bufr = disk[bufl[call.victim].b_dm][bufl[call.victim].b_rec]
  /\ Filling =>
       /\ call.victim \in Buffers
       /\ ListOf[call.victim] = ListFor(call.rec)
       /\ \A b \in Buffers \ {call.victim} : ~Holds(b, call.drv, call.rec)
  /\ pc = "fill" => ~(Valid(call.victim) /\ bufl[call.victim].b_dirty)
  /\ call.recs \subseteq Runs

IInv == TypeOK /\ Coherent /\ LoggedIn /\ CallReady
=============================================================================
