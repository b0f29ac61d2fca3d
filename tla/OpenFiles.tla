------------------------------ MODULE OpenFiles ------------------------------
(***************************************************************************)
(* The handles, the open file descriptors and the directory entries of     *)
(* GEMDOS, and the programs that open, share, redirect, close and delete:  *)
(*                                                                         *)
(*   bdos/fsopnclo.c  ixcreat(), ixopen(), makopn(), opnfil(), sftdel(),   *)
(*                    xclose(), ixclose(), ixdel()                         *)
(*   bdos/fshand.c    ixforce(), xdup()                                    *)
(*   bdos/proc.c      init_pd_files() (Pexec), ixterm() (Pterm)            *)
(*   bdos/fsdir.c     xrename() within a directory                         *)
(*                                                                         *)
(* An OFD is one opening of a file; its DFD, inside the OFD that opened    *)
(* the file first, has the length and the first cluster, and is copied     *)
(* into the directory entry when the file is closed. All that the entry    *)
(* and the DFD say of a file is one number here (ver). A program uses the  *)
(* handles that it has been given and has not closed, and its standard     *)
(* handles.                                                                *)
(***************************************************************************)
EXTENDS Integers, Sequences, FiniteSets, SequencesExt

CONSTANTS
  PDs,       (* places for a program (basepages)                           *)
  Shell,     (* the program that runs first                                *)
  NUMSTD,    (* standard handles of a program                              *)
  OPNFILES,  (* entries of the sft                                         *)
  Ofds,      (* blocks for OFDs                                            *)
  Slots,     (* entries of the directory (o_dirbyt)                        *)
  Names,     (* file names                                                 *)
  None,      (* NULL                                                       *)
  MaxUse,    (* bound: the use count of an entry                           *)
  MaxClock   (* bound: files created and written in a behaviour            *)

Std == 0 .. NUMSTD - 1
Handles == NUMSTD .. NUMSTD + OPNFILES - 1
CON == -1    (* a character device, for a handle or an OFD                 *)
Ids == 1 .. MaxClock

OFD == [o_dirbyt : Slots, o_dfd : Ofds, o_usecnt : Nat, dirty : BOOLEAN,
        ver : Ids, id : Ids]
FCB == [name : Names, id : Ids, ver : Ids]

ASSUME OpenFilesAssumption ==
  /\ Shell \in PDs
  /\ NUMSTD \in Nat \ {0} /\ OPNFILES \in Nat \ {0}
  /\ Slots # {} /\ Slots \subseteq Nat
  /\ None \notin PDs \cup Ofds \cup Names /\ CON \notin Ofds
  /\ None \notin Int /\ None \notin OFD /\ None \notin FCB
  /\ {MaxUse, MaxClock} \subseteq Nat

VARIABLES
  sft,     (* sft[h]: f_ofd, its owner and its use count                   *)
  ofd,     (* ofd[o]: an OFD with the DFD inside it, or None (free)        *)
  d_files, (* the OFDs of the open files of a directory, the last one      *)
           (* opened first                                                 *)
  dir,     (* dir[s]: the entry at s, or None (erased)                     *)
  p_uft,   (* p_uft[p][i]: what the standard handle i of p is mapped to    *)
  stack,   (* the running program, the one that started it, and so on      *)
  held,    (* history: held[p][h]: the file that program p has opened as   *)
           (* h or redirected h to (0: a device), or None                  *)
  strayed, (* history: the entries with a stray OFD (see Strays), or that  *)
           (* had one and have been open ever since                        *)
  clock    (* history: the number of the last creation or write            *)

vars == <<sft, ofd, d_files, dir, p_uft, stack, held, strayed, clock>>

run == Head(stack)
Running == Range(stack)

NoEntry == [f_ofd |-> None, f_own |-> None, f_use |-> 0]
Unheld == [h \in Std \cup Handles |-> IF h \in Std THEN 0 ELSE None]

First(S) == CHOOSE s \in S : \A t \in S : s <= t

sftofdsrch(x, o) == \E h \in Handles : x.sft[h].f_ofd = o

(* The OFDs in use at s, and those of them that the directory does not     *)
(* list: ixclose() takes an OFD off the list at the first close, though    *)
(* Fforce(), Fdup() or Pexec() have shared it.                             *)
UsedAt(x, s) == {o \in Ofds : sftofdsrch(x, o) /\ x.ofd[o] # None /\ x.ofd[o].o_dirbyt = s}
Strays(x, s) == UsedAt(x, s) \ Range(x.d_files)

(* What a call of the BDOS changes.                                        *)
Now == [sft |-> sft, ofd |-> ofd, d_files |-> d_files, dir |-> dir]
Commit(x) ==
  /\ sft' = x.sft
  /\ ofd' = x.ofd
  /\ d_files' = x.d_files
  /\ dir' = x.dir
  /\ strayed' = {s \in Slots : Strays(x, s) # {} \/ (s \in strayed /\ UsedAt(x, s) # {})}

Base(x, o) == x.ofd[o].o_dfd
Dfd(x, o) == x.ofd[Base(x, o)]

-----------------------------------------------------------------------------
(* ixclose(fd,0): a dirty DFD goes into the directory entry, whatever      *)
(* that is by now, and the OFD off the list of the directory.              *)

Saved(x, o) ==
  LET s == x.ofd[o].o_dirbyt IN
  IF ~Dfd(x, o).dirty THEN x
  ELSE [x EXCEPT !.dir[s] = IF @ = None THEN None ELSE [@ EXCEPT !.ver = Dfd(x, o).ver],
                 !.ofd[Base(x, o)].dirty = FALSE]

Without(s, o) ==
  IF o \in Range(s) THEN RemoveAt(s, CHOOSE i \in DOMAIN s : s[i] = o) ELSE s

ixclose(x, o) == [Saved(x, o) EXCEPT !.d_files = Without(@, o)]

(* sftdel(): the entry is cleared; an OFD that no other entry has is       *)
(* freed, but the one with the DFD only with the last user of the DFD.     *)
Clear(x, h) == [x EXCEPT !.sft[h] = NoEntry]

Unused(x, o) ==
  [x EXCEPT !.ofd[Base(x, o)].o_usecnt = IF @ > 0 THEN @ - 1 ELSE 0]

Freed(x, o, d) ==
  [x EXCEPT !.ofd = [p \in Ofds |->
      IF (p = o /\ o # d) \/ (p = d /\ x.ofd[d].o_usecnt = 0) THEN None ELSE x.ofd[p]]]

(* Mutant of DropOfd: another entry with the OFD is not looked for.        *)
DropOfdBlind(x, o) == Freed(Unused(x, o), o, Base(x, o))

DropOfd(x, o) ==
  IF sftofdsrch(x, o) THEN x ELSE Freed(Unused(x, o), o, Base(x, o))

sftdel(x, h) == DropOfd(Clear(x, h), x.sft[h].f_ofd)

(* Mutant of Unref: one close too late.                                    *)
UnrefLate(x, h) ==
  IF x.sft[h].f_use = 0 THEN sftdel(x, h) ELSE [x EXCEPT !.sft[h].f_use = @ - 1]

Unref(x, h) ==
  IF x.sft[h].f_use = 1 THEN sftdel(x, h) ELSE [x EXCEPT !.sft[h].f_use = @ - 1]

(* xclose() of a handle that is not a standard one.                        *)
xclose(x, h) ==
  CASE x.sft[h].f_ofd = None -> x                                (* EIHNDL *)
    [] x.sft[h].f_ofd = CON ->
         IF x.sft[h].f_use = 1 THEN Clear(x, h) ELSE [x EXCEPT !.sft[h].f_use = @ - 1]
    [] OTHER -> Unref(ixclose(x, x.sft[h].f_ofd), h)

-----------------------------------------------------------------------------
(* Opening.                                                                *)

FreeHandles(x) == {h \in Handles : x.sft[h].f_own = None}
FreeHandle(x) == First(FreeHandles(x))

(* The places in the list of the OFDs that are open at s.                  *)
OpenAt(x, s) == {i \in DOMAIN x.d_files : x.ofd[x.d_files[i]].o_dirbyt = s}

(* Mutant of SharedDfd: every opening has a DFD of its own.                *)
SharedDfdNone(x, s, o) == o

(* The DFD of the file, if the directory has it as open.                   *)
SharedDfd(x, s, o) ==
  IF OpenAt(x, s) = {} THEN o ELSE Base(x, x.d_files[First(OpenAt(x, s))])

(* opnfil() and makopn(): the file at s is opened as h, with the OFD o.    *)
NewOfd(x, s, d) ==
  [o_dirbyt |-> s, o_dfd |-> d, o_usecnt |-> 0, dirty |-> FALSE,
   ver |-> x.dir[s].ver, id |-> x.dir[s].id]

Enter(x, s, h, o, d) ==
  [x EXCEPT !.sft[h] = [f_ofd |-> o, f_own |-> run, f_use |-> 1],
            !.ofd[o] = NewOfd(x, s, d),
            !.d_files = <<o>> \o @]

opnfil(x, s, h, o) ==
  LET d == SharedDfd(x, s, o)
      y == Enter(x, s, h, o, d)
  IN  [y EXCEPT !.ofd[d].o_usecnt = @ + 1]

(* The program has the handle h for the file id.                           *)
Hold(h, id) == held' = [held EXCEPT ![run][h] = id]

(* Fopen(). ENHNDL without a free handle. MGET(OFD) returns a block or     *)
(* stops the system.                                                       *)
ixopen(name) ==
  /\ FreeHandles(Now) # {}
  /\ \E s \in Slots, o \in Ofds :
       /\ dir[s] # None /\ dir[s].name = name
       /\ ofd[o] = None
       /\ Commit(opnfil(Now, s, FreeHandle(Now), o))
       /\ Hold(FreeHandle(Now), dir[s].id)
  /\ UNCHANGED <<p_uft, stack, clock>>

-----------------------------------------------------------------------------
(* ixdel(): the OFDs of the file are closed if their handles are the       *)
(* program's own; the first that is another's is an error. What was closed *)
(* by then stays closed, with its handle.                                  *)

OwnEntry(o) == {h \in Handles : sft[h].f_ofd = o /\ sft[h].f_own = run}

OthersEntry(o) == {h \in Handles : sft[h].f_ofd = o /\ sft[h].f_own # run}

(* Those closed before an error.                                           *)
ClosedFirst(s) ==
  {i \in OpenAt(Now, s) :
     /\ \A j \in OpenAt(Now, s) : j < i => OthersEntry(d_files[j]) = {}
     /\ \E h \in OwnEntry(d_files[i]) : \A g \in OthersEntry(d_files[i]) : h < g}

CloseListed(x, places) ==
  LET close(y, i) == IF i \in places THEN ixclose(y, d_files[i]) ELSE y
  IN FoldLeft(close, x, [i \in 1 .. Len(d_files) |-> i])

OwnClosed(s) == CloseListed(Now, ClosedFirst(s))

Refused(s) == \E i \in OpenAt(Now, s) : OthersEntry(d_files[i]) # {}

Erase(x, s) == [x EXCEPT !.dir[s] = None]

ixdel(s) == IF Refused(s) THEN OwnClosed(s) ELSE Erase(OwnClosed(s), s)

(* Fdelete()                                                               *)
xunlink(name) ==
  /\ \E s \in Slots : dir[s] # None /\ dir[s].name = name /\ Commit(ixdel(s))
  /\ UNCHANGED <<p_uft, stack, held, clock>>

-----------------------------------------------------------------------------
(* Fcreate(): the file of that name is deleted, and its entry or else the  *)
(* first free one is used.                                                 *)

FileAt(name) == {s \in Slots : dir[s] # None /\ dir[s].name = name}
FreeSlots == {s \in Slots : dir[s] = None}

Creatable(name) ==
  IF FileAt(name) # {} THEN FileAt(name)
  ELSE IF FreeSlots # {} THEN {First(FreeSlots)} ELSE {}

Replaced(name, s) == IF FileAt(name) = {} THEN Now ELSE ixdel(s)

NewEntry(x, name, s) ==
  [x EXCEPT !.dir[s] = [name |-> name, id |-> clock + 1, ver |-> clock + 1]]

Opened(x, s, o) ==
  LET y == opnfil(x, s, FreeHandle(x), o) IN
  [y EXCEPT !.ofd[Base(y, o)].dirty = TRUE]

ixcreat(name) ==
  /\ clock < MaxClock
  /\ \E s \in Creatable(name) :
       IF FileAt(name) # {} /\ Refused(s)
       THEN Commit(ixdel(s)) /\ UNCHANGED <<held, clock>>        (* EACCDN *)
       ELSE \E x \in {NewEntry(Replaced(name, s), name, s)} :
              /\ clock' = clock + 1
              /\ IF FreeHandles(x) = {}
                 THEN Commit(x) /\ UNCHANGED held                (* ENHNDL *)
                 ELSE /\ \E o \in Ofds : x.ofd[o] = None /\ Commit(Opened(x, s, o))
                      /\ Hold(FreeHandle(x), clock + 1)
  /\ UNCHANGED <<p_uft, stack>>

(* Frename() within the directory: the name is written over, open or not.  *)
xrename(name, new) ==
  /\ FileAt(new) = {}
  /\ \E s \in FileAt(name) : dir' = [dir EXCEPT ![s].name = new]
  /\ UNCHANGED <<sft, ofd, d_files, p_uft, stack, held, strayed, clock>>

-----------------------------------------------------------------------------
(* Using handles.                                                          *)

(* Fwrite(), to a handle of the program or a standard handle.              *)
Target(h) == IF h \in Std THEN p_uft[run][h] ELSE h

xwrite(h) ==
  /\ clock < MaxClock
  /\ held[run][h] # None
  /\ Target(h) # CON
  /\ \E o \in {sft[Target(h)].f_ofd} \ {None, CON} :
       /\ ofd[o] # None
       /\ ofd' = [ofd EXCEPT ![Base(Now, o)].dirty = TRUE,
                             ![Base(Now, o)].ver = clock + 1]
  /\ clock' = clock + 1
  /\ UNCHANGED <<sft, d_files, dir, p_uft, stack, held, strayed>>

(* Fclose() of a handle.                                                   *)
CloseHandle(h) ==
  /\ h \in Handles /\ held[run][h] # None
  /\ Commit(xclose(Now, h))
  /\ Hold(h, None)
  /\ UNCHANGED <<p_uft, stack, clock>>

(* Fclose() of a standard handle: its default is restored, and the file it *)
(* was mapped to is closed.                                                *)
CloseStd(i) ==
  /\ p_uft' = [p_uft EXCEPT ![run][i] = CON]
  /\ IF p_uft[run][i] = CON THEN UNCHANGED <<sft, ofd, d_files, dir, strayed>>
     ELSE Commit(xclose(Now, p_uft[run][i]))
  /\ Hold(i, 0)
  /\ UNCHANGED <<stack, clock>>

Uses(table, h) == [table EXCEPT ![h].f_use = @ + 1]

IsDevice(h) == IF h = CON THEN TRUE ELSE sft[h].f_ofd = CON

(* Fforce() of a standard handle to a handle, or to a device.              *)
ixforce(i, h) ==
  /\ \/ /\ IsDevice(h)
        /\ p_uft' = [p_uft EXCEPT ![run][i] = CON]
        /\ UNCHANGED sft
     \/ /\ h # CON
        /\ sft[h].f_ofd \notin {None, CON}
        /\ sft[h].f_use < MaxUse
        /\ p_uft' = [p_uft EXCEPT ![run][i] = h]
        /\ sft' = Uses(sft, h)
  /\ Hold(i, IF h = CON THEN 0 ELSE held[run][h])
  /\ UNCHANGED <<ofd, d_files, dir, stack, strayed, clock>>

xforce(i, h) == (h # CON => held[run][h] # None) /\ ixforce(i, h)

(* Fdup() of a standard handle.                                            *)
xdup(i) ==
  LET h == FreeHandle(Now)
      m == p_uft[run][i]
  IN
  /\ FreeHandles(Now) # {}
  /\ sft' = [sft EXCEPT ![h] = [f_ofd |-> IF m = CON THEN CON ELSE sft[m].f_ofd,
                                f_own |-> run, f_use |-> 1]]
  /\ Hold(h, held[run][i])
  /\ UNCHANGED <<ofd, d_files, dir, p_uft, stack, strayed, clock>>

-----------------------------------------------------------------------------
(* Programs.                                                               *)

(* Pexec(): init_pd_files() forces the standard handles of the parent on   *)
(* the child.                                                              *)
Inherited ==
  [h \in Handles |->
     [sft[h] EXCEPT !.f_use = @ + Cardinality({i \in Std : p_uft[run][i] = h})]]

Pexec(p) ==
  /\ p \notin Running
  /\ \A h \in Handles : Inherited[h].f_use <= MaxUse
  /\ sft' = Inherited
  /\ p_uft' = [p_uft EXCEPT ![p] = p_uft[run]]
  /\ held' = [held EXCEPT ![p] = [h \in Std \cup Handles |-> IF h \in Std THEN held[run][h] ELSE None]]
  /\ stack' = <<p>> \o stack
  /\ UNCHANGED <<ofd, d_files, dir, strayed, clock>>

(* ixterm(): the standard handles are closed, then what the program owns,  *)
(* each once.                                                              *)
CloseMapped(x, i) ==
  LET h == p_uft[run][i] IN IF h = CON THEN x ELSE xclose(x, h)

CloseOwned(x, h) == IF x.sft[h].f_own = run THEN xclose(x, h) ELSE x

ixterm ==
  LET x == FoldLeft(CloseMapped, Now, [i \in 1 .. NUMSTD |-> i - 1])
  IN FoldLeft(CloseOwned, x, [i \in 1 .. OPNFILES |-> NUMSTD + i - 1])

Pterm ==
  /\ run # Shell
  /\ Commit(ixterm)
  /\ p_uft' = [p_uft EXCEPT ![run] = [i \in Std |-> CON]]
  /\ held' = [held EXCEPT ![run] = Unheld]
  /\ stack' = Tail(stack)
  /\ UNCHANGED clock

Init ==
  /\ sft = [h \in Handles |-> NoEntry]
  /\ ofd = [o \in Ofds |-> None]
  /\ d_files = <<>>
  /\ dir = [s \in Slots |-> None]
  /\ p_uft = [p \in PDs |-> [i \in Std |-> CON]]
  /\ stack = <<Shell>>
  /\ held = [p \in PDs |-> Unheld]
  /\ strayed = {}
  /\ clock = 0

Next ==
  \/ \E name \in Names : ixopen(name) \/ ixcreat(name) \/ xunlink(name)
  \/ \E name, new \in Names : xrename(name, new)
  \/ \E h \in Std \cup Handles : xwrite(h)
  \/ \E h \in Handles : CloseHandle(h)
  \/ \E i \in Std : CloseStd(i) \/ xdup(i)
  \/ \E i \in Std, h \in Handles \cup {CON} : xforce(i, h)
  \/ \E p \in PDs : Pexec(p)
  \/ Pterm

Spec == Init /\ [][Next]_vars

-----------------------------------------------------------------------------
(* Properties.                                                             *)

(* Tables, descriptors and entries are in their ranges.                    *)
TypeOK ==
  /\ sft \in [Handles -> [f_ofd : Ofds \cup {None, CON}, f_own : PDs \cup {None},
                          f_use : Nat]]
  /\ \A h \in Handles : sft[h].f_use > 0 <=> sft[h].f_own # None
  /\ \A o \in Ofds : ofd[o] # None => ofd[o] \in OFD
  /\ Range(d_files) \subseteq Ofds /\ IsInjective(d_files)
  /\ \A s \in Slots : dir[s] # None => dir[s] \in FCB
  /\ p_uft \in [PDs -> [Std -> Handles \cup {CON}]]
  /\ IsInjective(stack) /\ Range(stack) \subseteq PDs
  /\ clock \in 0 .. MaxClock

(* What uses the entry h: the program that was given it, and the standard  *)
(* handles of all programs.                                                *)
References(h) ==
  Cardinality({p \in Running : held[p][h] # None}) +
  Cardinality({r \in Running \X Std : p_uft[r[1]][r[2]] = h})

IsFile(h, id) ==
  LET o == sft[h].f_ofd IN
  IF id = 0 THEN o = CON
  ELSE /\ o \in Ofds /\ ofd[o] # None /\ ofd[o].id = id
       /\ ofd[Base(Now, o)] # None /\ Dfd(Now, o).id = id

(* Every handle that a running program has not closed, and every standard  *)
(* handle, is still the file it was opened on, with its descriptors not    *)
(* given back, whoever else closed, duplicated, redirected, deleted or     *)
(* ended meanwhile; a DFD counts the OFDs that use it (xclose(), sftdel(), *)
(* ixforce(), ixterm()).                                                   *)
HandlesLive ==
  /\ \A p \in Running :
       /\ \A h \in Handles : held[p][h] # None => IsFile(h, held[p][h])
       /\ \A i \in Std : IF p_uft[p][i] = CON THEN held[p][i] = 0
                         ELSE IsFile(p_uft[p][i], held[p][i])
  /\ \A h \in Handles : sft[h].f_use >= References(h)
  /\ \A d \in Ofds : ofd[d] # None /\ ofd[d].o_dfd = d =>
       ofd[d].o_usecnt =
         Cardinality({o \in Ofds : sftofdsrch(Now, o) /\ ofd[o].o_dfd = d})

(* The entry of a file says what its DFD says, or the DFD is still to be   *)
(* saved by a program that has it open: no change of the length or the     *)
(* clusters is lost between openings, unless there was a stray.            *)
EntryFollowsDfd ==
  \A o \in Range(d_files) :
    \/ dir[ofd[o].o_dirbyt].ver = Dfd(Now, o).ver
    \/ Dfd(Now, o).dirty
    \/ ofd[o].o_dirbyt \in strayed

(* makopn() says (fsopnclo.c:297-301): if a file is already open the DFD   *)
(* is shared, so that all OFDs for the same file use the same DFD.         *)
OneDfd ==
  \A h, g \in Handles :
    LET o == sft[h].f_ofd
        q == sft[g].f_ofd
    IN  o \in Ofds /\ q \in Ofds /\ ofd[o].id = ofd[q].id => ofd[o].o_dfd = ofd[q].o_dfd
=============================================================================
