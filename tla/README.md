# TLA+ models of EmuTOS for the Foenix A2560

The repository is a fork of EmuTOS: a GEM operating system (BIOS, XBIOS, GEMDOS,
VDI, AES, desktop) for 68000 machines. This directory holds TLA+ specifications
of the parts where the order of things matters, TLC configurations that check
them on small instances, and proofs of what holds for every instance.

Contents: [1 Inventory](#1-inventory) · [2 Plan](#2-plan) ·
[3 Modules and code](#3-modules-and-code) · [4 Runs](#4-runs) ·
[5 Fairness](#5-fairness) · [6 Proofs](#6-proofs) ·
[7 Disagreements found](#7-disagreements-found) ·
[8 What is left out](#8-what-is-left-out)

To run a check: `tlc -config AESQueue.cfg MCAESQueue` (the table in section 4
names the module of each configuration); to check the proofs:
`tlapm AESSched_proofs.tla`, `tlapm AESQueue_proofs.tla`, `tlapm ForkRing_proofs.tla`,
`tlapm FileSystem_proofs.tla`, `tlapm WindowRects_proofs.tla`,
`tlapm AESTimer_proofs.tla`, `tlapm UMem_proofs.tla`, `tlapm OpenFiles_proofs.tla`.

## 1 Inventory

The parts of the system, the state each keeps, and what can go wrong in it. All
of them are in PROJECT.json too, with the modules that cover them; what is hard
to test is listed there line by line under "hazards".

### How the system runs

One processor and, except for interrupts, one thread of control. GEMDOS
(`bdos/`) is not re-entered: a trap runs to its end. The AES (`aes/`) has
processes (programs and desk accessories), but it is cooperative: a process
keeps the processor until it makes an AES call that ends in `dsptch()`. An
interrupt never touches the AES's lists. It enters a *fork* - a routine and its
data - in a ring, and the dispatcher runs the forks. So interleavings happen at
three places: between AES calls of different processes; at the sleeping points
inside AES calls; and, for the few variables that interrupts share (the fork
ring, the timer's counters, the double-click filter), between any two
instructions that run unmasked.

### AES

- **Dispatcher** (`gemdisp.c`, `gempd.c`). *State:* the ready list `rlr`, the
  drive-ready list `drl`, the not-ready list `nrl`, each process' `p_stat`; the
  fork ring. *Operations:* `dsptch`, `disp`, `schedule`, `forker`, `chkkbd`.
  *Hard:* a wake-up comes from a fork, from another process or from the process'
  own call. *Correct if:* every process is on one list, once; a process with
  something to do is run.
- **Events** (`gemasync.c`, `gemevlib.c`, `geminput.c`). *State:* per process the
  event blocks it holds, which are complete (zombie list), `p_evflg`,
  `p_evwait`, its key buffer; the owner of mouse and keyboard. *Operations:*
  `iasync`, `mwait`, `azombie`/`signal`, `acancel`, `apret`, on top of them
  `ev_block` and `ev_multi`. *Hard:* an event completes between the start of a
  wait and the sleep, or between the sleep and the cancellation. *Correct if:* no
  wake-up is lost and no block or flag is left over.
- **Screen semaphore** (`gemflag.c`, `gemwmlib.c`). *State:* count, owner, wait
  list. *Operations:* `wm_update`, `tak_flag`, `amutex`, `unsync`, `wm_new`.
  *Hard:* the lock is handed to a process that has not run yet. *Correct if:* a
  nested lock, and nobody sleeps for a free lock.
- **Timer** (`geminput.c`, `gemflag.c`, `gemdosif.S`). *State:* the delta list,
  `CMP_TICK`, `NUM_TICK`. *Operations:* `adelay`, `takeoff`, `tchange`, the tick
  interrupt. *Hard:* the interrupt counts while the list is changed. *Correct
  if:* each wait ends when its ticks have passed, whatever others do.
- **Message pipes** (`gemqueue.c`, `gemaplib.c`, `gemctrl.c`). *State:* per
  process 128 bytes of messages, the waiting reader, the waiting writers, one
  arrow put aside; the message buffers the whole AES shares. *Operations:*
  `ap_rdwr`, `aqueue`, `doq` (merges redraws), `handle_arrow_msg`, `ap_exit`.
  *Hard:* full and empty pipes, merging, buffers that are written while a sender
  that named them sleeps. *Correct if:* nobody sleeps for what is there, and no
  redraw is lost.
- **Fork ring and double-click filter** (`gemdisp.c`, `geminput.c`). *State:* the
  ring's slots and three counters; the true, the counted and the announced state
  of the button. *Operations:* `forkq`, `b_click`, `b_delay`, `mchange`. *Hard:*
  a full ring; code called both masked and unmasked. *Correct if:* the ring is a
  queue, and a released button is known to be released.
- **Window manager** (`gemwmlib.c`, `gemwrect.c`, `rectfunc.c`). *State:* the
  window tree (who is open, and in which order), the places of the windows, per
  window the list of the rectangles it owns, the pool these come from, the top
  window; in effect also the screen, which the window manager draws on, and the
  redraws it has asked for. *Operations:* `wm_create`, `wm_open`, `wm_close`,
  `wm_delete`, `wm_set`, `draw_change` and what it calls, `form_dial`. *Hard:*
  `draw_change` draws as little as it can, in a dozen cases. *Correct if:* the
  rectangles of all windows partition the screen, and each pixel shows what its
  owner has there or will be drawn.
- **Screen manager, menus, shell** (`gemctrl.c`, `gemmnlib.c`, `gemshlib.c`,
  `geminit.c`): hands keyboard and mouse between programs, starts programs one
  after another, closes accessories in between (AC_CLOSE, a wait with a limit).
- **Objects, forms, resources, file selector**: sequential code on trees.

### GEMDOS

- **Memory** (`umem.c`, `iumem.c`, `osmem.c`). *State:* for ST-RAM and Alt-RAM a
  free list and an allocated list of descriptors; a pool of descriptors in
  blocks of three, which come from the OS pool that drive and directory
  descriptors come from too. *Operations:* `Malloc`, `Mxalloc`, `Mfree`,
  `Mshrink`, `Maddalt`. *Hard:* splitting needs a descriptor, which may not be
  there; joining depends on the order of the list. *Correct if:* each byte is in
  one block of one list, and each descriptor describes one block.
- **Processes** (`proc.c`, `kpgmld.c`). *State:* the stack of running programs
  and the owner of each block. *Operations:* `Pexec` in six modes, `Pterm`,
  `Ptermres`. *Hard:* a failure in the middle; blocks that outlive their owner.
  *Correct if:* a program's memory is freed with it and not before.
- **Files** (`fsio.c`, `fsfat.c`). *State:* the FAT; per file its first cluster
  and length (DFD); per opening the position, four times over (OFD).
  *Operations:* `xrw`, `ixlseek`, `nextcl`, `findfree`, `ixdel`. *Hard:* the
  boundaries of records and clusters; a disk that becomes full. *Correct if:*
  chains are disjoint and as long as needed, and transfers go to the file's own
  bytes.
- **Sector buffers** (`fsbuf.c`, `fsio.c`, `bdosmain.c`, `fsdrive.c`, on top of
  `blkdev.c`). *State:* two lists of buffers with their drive, record and dirty
  flag; which medium a drive was logged in with; whether it has changed.
  *Operations:* `getrec`, `flush`, `usrio`, `ckdrv`, the end of `ixclose`, and
  `osif()`'s error paths. *Hard:* the disk is changed, or an error comes, between
  any two BIOS calls; the call is left by longjmp() and may start again.
  *Correct if:* no buffer is of another disk, and what is written gets to its
  medium or is known to be lost.
- **Handles and open files** (`fsopnclo.c`, `fshand.c`, `proc.c`). *State:* the
  table of handles with owner and use count, OFDs with DFDs inside, per directory
  the list of open files, the standard handles of each program. *Operations:*
  `Fcreate`, `Fopen`, `Fclose`, `Fdelete`, `Frename`, `Fdup`, `Fforce`, `Pexec`,
  `Pterm`. *Hard:* sharing by redirection and inheritance, in any order with
  closing. *Correct if:* a handle is what it was opened on until it is closed, and
  one file has one DFD.
- **Directories and drives** (`fsdir.c`, `fsdrive.c`): paths, searches, renaming,
  logging in.
- **Console and dispatch** (`console.c`, `bdosmain.c`, `time.c`): type-ahead
  buffers, flow control, dates.

### BIOS, VDI, Foenix drivers, desktop, shell, tools

Interrupt-driven rings (`iorec.c`, `ikbd.c`, `serport.c`), media change and
block devices, hardware set-up, drawing on bitmaps (`vdi/`), the A2560 drivers
(`foenix/`), the desktop (a GEM program), the command line (a TOS program), and
build tools. See PROJECT.json for each and why it is left for later or out.

### How the parts interact

- Interrupt -> fork ring -> dispatcher -> event -> process: AESTimer and ForkRing
  look at the first half with interrupts between instructions; AESSched takes
  the ring as the queue that ForkRing shows it to be (`RingIsQueue`), and the
  tchange() fork as one that completes any timers, which AESTimer justifies.
- Process -> event -> process: messages in AESQueue, the screen in AESSched. A
  sender that holds the screen is the reason that the shared redraw buffer is
  safe: AESQueue states this as a condition on senders (`MayWrite`) and AESSched
  shows the lock that it rests on.
- Calls of GEMDOS -> records -> media: FileIO says which clusters and records a
  transfer touches, BufferCache takes a call as any sequence of records, so that
  nothing in it depends on FileIO's order. OpenFiles says which openings share a
  DFD: FileIO has one DFD for each file, which is what OpenFiles shows as long as
  the file is on the list of open files (and OpenFilesDfd shows the exception).
- Window calls -> rectangles -> redraws: WindowRects composes the geometry of Rects
  with what is drawn; the redraws it asks for go into the pipe that AESQueue
  models, where those of one window are united; its calls are single steps because
  of the screen semaphore that AESSched models.
- Pexec, Pterm and the allocator share the lists of UMem and are modelled in one
  module, for a block's owner is a basepage that the allocator has returned.

## 2 Plan

The order was: the AES kernel first, because it is the system's concurrency; then
GEMDOS memory, because every program depends on it; then the file system, where
errors and changed disks come in the middle of calls; then the windows.

| module | role |
| --- | --- |
| AESTimer, AESTimer_proofs | the timer interrupt against the dispatcher; proofs |
| ForkRing, ForkRing_proofs | the fork ring, the double-click filter and interrupts; proofs |
| AESSched, ScreenLock, AESSched_proofs | dispatcher, events, screen semaphore; the abstract lock; proofs |
| AESQueue, AESQueue_proofs | message pipes; proofs |
| UMem, MemoryMap, UMem_proofs | memory and processes; the abstract map of owners; proofs |
| FileIO, ByteFile | clusters, positions and transfers; files as bytes with a position |
| BufferCache, RecordStore | sector buffers, changed media and errors; the abstract store |
| FileSystem_proofs | proofs about FileIO and BufferCache |
| OpenFiles, OpenFiles_proofs | handles, open files and programs; proofs |
| Rects, WindowRects, WindowRects_proofs | breaking rectangles up; windows and what the screen shows; proofs about both |

Not done, in the order in which it would be worth doing:

1. *Changed media and handles together:* `offree()` in OpenFiles.
2. *Directories:* subdirectories' descriptors and their use counts (`fsdir.c`).
3. *BIOS rings:* the IOREC ring between interrupt and `Bconin`/`Bconout`, with the
   flow control of `serport.c`.
4. *Input:* multiple clicks (`downorup`, `gl_bpend`) and recording.
5. *Screen manager and shell:* AC_CLOSE, `wait_for_accs`.
6. *Narrow integers:* Malloc and Mshrink near 2^31.

## 3 Modules and code

Names are the code's; "history" variables, marked so in the modules, exist for
properties and decide nothing.

### AESTimer

`dlr` is the delta list, as a sequence of blocks and the ticks after the one
before; `CMP_TICK` and `NUM_TICK` are the counters the interrupt changes; `ring`
holds as much of the fork ring as can delay or refuse a tchange(). `adelay`,
`takeoff` and `apret` are one step each (the first masks interrupts, the others
do not touch the counters). `tchange()` is two steps, `forker` and `Rearm`,
because the tick may come between its loop and its masked assignments. Ages are
computed with `DueAt`, the sum of the delays up to a block.

### AESSched

The three lists are variables; a process' event blocks are the sets `evlist` and
`zlr` (complete) of kinds, for a process never has two of a kind. A step is an
AES call up to its next `dsptch()` or `forker()`; `pc` says where a process is in
a call, and `mode` whether a process, its call of forker() in ev_multi(), or the
dispatcher runs. `interrupt` adds a fork in any state; `forker` takes one, and
`kchange`, `bchange`, `tchange` run it. `iasync` composes "take the block", "may
complete at once" and `mwait`; `azombie` is azombie() with signal(). The data of
events is left out; what decides (whether a key is buffered, who owns the mouse)
is kept, the rest is a choice: whether the buttons are in the state asked for,
whether the poll finds a key. Mouse rectangles behave as buttons do. `Direct`
are the processes inside the AES, which do not go through super();
`Quitters` those that call `wm_new()`. That a program calls wm_update(END_UPDATE)
only when it is inside, or nobody is, is an assumption on programs: unsync() does
not look at who calls.

`inside` (history) counts the calls of wm_update(BEG_UPDATE) that have *returned*
less the matching ones. A process that has been handed the semaphore and has not
run is not inside; this is where an erroneous hand-over would show.

ScreenLock is the promise: ask, take when nobody else is inside, give. AESSched
implements it with `asking` := the processes blocked in wm_update().

### AESQueue

One pipe, its owner, and any number of senders. `q` is the pipe in messages of 16
bytes, `qdq` and `qnq` the waiting reader and writers, `p_msg` the arrow put
aside. A waiting writer keeps the *buffer* it named and what is in that buffer
now, so that a later write changes what it will send. `Put` is doq(): it merges
with the first message that its tests let it (`Mergeable`). `ap_sendmsg` is
aqueue(TRUE) and, if the owner waits, the delivery; `ev_mesag` is ap_rdwr() with
its quick version and aqueue(FALSE), which lets the writer at the head in;
`ap_exit` reads all the bytes at once. Rectangles are sets of screen areas, so
that "united" is a union. `owed` (history) has the redraws asked for and not
delivered; a redraw thrown away with the pipe of a program that ends is no longer
owed. `flushed` (history) says that this has happened: ap_exit() empties the pipe in
one read, which lets one sleeping sender in (`gemaplib.c:257`); others may stay asleep
in the code as in the model, and NoStuckSender and SleepsOnEmpty promise nothing
from then on. PROJECT.json lists this as a hazard that no property covers.
`Unlocked` are the processes that end a dialogue without the screen, as form_dial()
lets them.

### ForkRing

The ring with its slots and its three counters, and the double-click filter. An
interrupt (`b_click`, `b_delay`, `other_fork`) is one step. The dispatcher takes
a fork in one masked step; mchange()'s call of b_delay() is unmasked and runs in
the steps `delay`, `decide`, `take`, `put`, with interrupts in between. `raced`
and `refused` (history) say that this has happened, or that b_click() met a full
ring.

### UMem

`mem.mfl` are the free lists, in list order; `mem.mal` the allocated lists as
sets: they are only ever searched for an address or an owner, of which there is
at most one, or freed completely. `mem.osm` is the descriptor pool: how many
slots of each MDBLOCK are taken, the chain of partly used blocks, and the blocks
that other users of the OS pool hold. Operators take the memory and return it
changed, with the address found: they follow ffit(), freeit(), shrinkit(),
xmgetmd() and xmfremd() case by case, in the code's order. `stack` is the chain
of running programs by basepage address, `loaded` the basepages from
Pexec(PE_LOAD) and PE_BASEPAGE that may still be run.

Abstractions, and why they are sound:

- The slots of an MDBLOCK are counted, not named; no code looks at which one it is.
- Of the free blocks of the OS pool the lowest is taken; they are alike.
- `m_own` of a free block is reset; only allocated blocks' owners are read.
- `big` is whether the program's PF_TTRAMLOAD size asks for more than there is in
  Alt-RAM, which decides a tie of alloc_tpa(); the size itself is left out.
- PE_LOAD and PE_BASEPAGE differ in loading only; failure to load may occur in
  either.
- Programs give back only what they own and, by Mshrink(), cut their own TPA.
  The code lets them free anything by address: that would be the caller's error,
  and OwnersLive is about the kernel. The block a program runs in is not freed by
  itself.
- `themd`, the descriptor of all ST-RAM at boot, is in no MDBLOCK. xmfremd(&themd)
  reads the word after it as a slot number: the model chooses (`low`) whether
  that word happens to be a valid one.

MemoryMap is the promise without lists: each address is free, owned by a program
or kept for good; programs take what is free, give what they have, and when one
ends nothing is left in its name.

### FileIO

`fat` is the table, `dfd` first cluster and length of each file, `ofd` the position
of each opening with its four parts (`o_bytnum`, `o_curcl`, `o_currec`,
`o_curbyt`). A transfer in progress is a record, and the parts of xrw() and
xrw_recs() are operators that return it changed: `FirstBytes`, `Header`,
`WholeClusters` (the loop that puts off a transfer while clusters follow each
other), `TailRecords`, `LastBytes`; `nextcl`, `addit` and `findfree` are the code's.
A call is one step, because GEMDOS is not re-entered. Contents are left out: a
transfer is the sequence of disk addresses it goes to. Files are created again by
`recreate` (Fcreate() of a file that is there), which frees the chain. FATs with 12
bits for a cluster, where findfree() starts from elsewhere, are not modelled.

ByteFile is the promise: a file has a length, an opening a position; a read moves
as many bytes as there are, a write as many as there is room for, in whole
clusters, on the drive.

### BufferCache

A BCB's list is fixed and its place in the list (`place`) changes. A step ends at
each BIOS call, for the user (`Swap`) or the drive (`Suspect`) may change the
status of the medium in between. `pc` says where the call is: `flush` and `copy`
are the two writes of flush(), `fill` is the read, `usrio` the loop and the
transfer past the buffers, `close` the flush at the end of ixclose(). A
longjmp() with E_CHNG is `MediaChange`, with any other error `HardError`: the drive
it is for is that of the *buffer*, the call that is started again or left may be
of another drive. What is written is the number of the write (`clock`), so that no
two contents are alike. A call is any sequence of requests for records of its
drive, with or without a handle; those with a handle do not go through ckdrv().

While the first FAT is written the code has the buffer invalid; here it stays
valid in the step between, and nobody looks at it there: an error invalidates it
anyway, with all of its drive's.

A write changes the buffer and marks it dirty in one step, as xrw() does. ixclose()
and ixcreat() change an entry of the directory in its buffer first
(`fsopnclo.c:536`, `:187`), and the ixwrite() that follows marks it. If a BIOS call
between the two reports an error or a changed disk of this drive, all its buffers
are dropped, with the change or without. What the model does not have is an error of
*another* drive there: in a subdirectory ixlseek() reads the FAT, which may have to
flush a buffer of another drive; if that fails, a changed buffer stays that counts
as clean. PROJECT.json notes this with the hazard at `bdosmain.c:490`.

Assumed: the drive notices that a disk was changed (`Swap` sets the status, which
stays until it is cleared by Getbpb()): floppy_mediach() may miss a change within
half a second, and this is a matter of the hardware; Mediach() does not fail; and
programs do not call Getbpb() themselves, which would clear the status without
GEMDOS knowing.

RecordStore is the promise: records of media, each with what was last written and
what is stable; a write changes one, things become stable, and what is not yet
stable may be lost for all records of a drive at once.

### OpenFiles

`sft` is the table of handles; `ofd` holds OFDs, each with room for a DFD, which is
used in the one that opened the file first; `d_files` is the directory's list of
open files; `dir` the entries; `p_uft` the standard handles of each program. What a
DFD and an entry say (length, first cluster) is a number, `ver`. Calls are single
steps; operators with an argument `x` return the changed tables and follow the
code's functions (`sftdel`, `xclose`, `ixclose`, `opnfil`, `ixdel`).

`held` (history) is what each program may rely on: the files that its handles were
opened on. Programs use only handles that they hold; the code checks ranges only,
and what a program does with another's handle is its own error. `strayed`
(history) marks entries with an OFD in use that is not listed, and those that had
one while they were open: EntryFollowsDfd makes no promise for these, because two
DFDs may then be about. OpenFilesDfd shows how this comes about. Not modelled:
renaming across directories, `offree()` after a change of disk.

### Rects and WindowRects

Rects has the functions of `rectfunc.c` and the breaking up of one rectangle.
WindowRects has the window tree as the sequence
`order` of open windows from bottom to top (as `ob_delete` and `ob_order` leave
the children of the root object), their places, `lists` with the
rectangles and the pool, and what each pixel shows. A picture says whose pixel it
is and its place within the window, so that a copied, moved or old pixel can be
told from the right one; whatever is not right becomes `Stale` at the end of a
call, so that a wrong pixel does not become right again by a later move of the
window (this is stricter than the code). `asked` is the redraw in the pipe of a
window's owner, `redraw` the program's answer, in the rectangles that the window
owns by then.

Each call is one step, with the whole of draw_change(): its cases are
`TopRequest`, `SizeRequest`, `MoveRequest` (with `w_move`, which copies the window)
and `NewTop`; each returns a plan of what is still to be drawn, `Finish` draws it.
Windows have no gadgets; a frame of one pixel and a shadow stay, because the
shadow is what makes a window's place and the area it covers differ. `w_prev` is
written before each use and so is no state. A redraw for a deleted window is
dropped.

Two assumptions on programs are CONSTANTS: with `Early = TRUE` a program gives a
window a place before it opens it and deletes it without; wm_delete() then lays this
place over the other windows (`gemwmlib.c:1476`), and TLC finds OwnersExact violated
after three calls. That programs do give such a place is what a comment in
draw_change() says (`gemwmlib.c:1079`), so `Early = FALSE` is a restriction on
programs and not something that the code rules out. With `Prompt = FALSE` a program
moves its top window while a redraw of it is pending, and w_move() copies what has
not been drawn yet: TLC finds ScreenRight violated, because the redraw that comes
names the old place.

### MC modules

The MC modules define the symmetry sets, the messages that are sent, the memory
boards, which files and records there are, and the places of windows.

## 4 Runs

All bounds are CONSTANTS of the configurations; those marked "bound" in a module
limit the environment, the others are sizes that the code fixes or configures.

| run | module | what it shows |
| --- | --- | --- |
| AESTimer | AESTimer | three waits, delays to 2, a ring of 2: the delta list stays exact, the count-down is armed, every wait ends |
| AESSched | MCAESSched | three processes (one inside the AES), ev_multi() for keys and buttons, nesting to 2: no process lost, no wake-up lost, no event block leaked, the screen is exclusive, handed on, and implements ScreenLock |
| AESSchedLive | MCAESSched | two processes with timers and wm_new(): a completed event is picked up |
| AESQueue | MCAESQueue | three processes, three slots, redraws of two windows, arrows and others: no sender stuck, the owner sleeps on an empty pipe only, no redraw lost |
| ForkRing | ForkRing | three slots: the ring is a queue, the button is not stuck |
| ForkRingStuck | ForkRing | section 7 |
| UMem | MCUMem | 6 bytes of ST-RAM, a board of 6, two MDBLOCKs, programs nested two deep: a partition, ascending and joined free blocks in ST-RAM, descriptors accounted for, owners alive, failures clean, MemoryMap implemented |
| FileIO | MCFileIO | two files, one open twice, three clusters of two records of two bytes, requests up to 12 bytes, transfers of up to 4 records: chains fit, the next transfer of any kind goes right, ByteFile implemented |
| BufferCache | MCBufferCache | a floppy drive with two disks and a hard disk, two buffers in each list, two writes: buffers coherent, RecordStore implemented, closed files stored |
| OpenFiles | MCOpenFiles | two programs, two handles, two entries and names, three OFDs: handles live, entries follow |
| OpenFilesDfd | MCOpenFiles | section 7 |
| WindowRects | MCWindowRects | two windows on a screen of 5 by 4: each pixel owned once, right or asked for; no rectangle lost |

Why these sizes are enough to be interesting:

- *AESTimer:* three blocks give a head, a middle and a tail to insert before, to
  cancel and to expire together; with NFORKS = 2 the ring fills with other forks
  so that ticks accumulate (MaxNum).
- *AESSched:* three processes make one that holds, one that was handed the lock
  and one that comes in between, and a wait list of two. NFORKS = 1 makes a fork
  found by chkkbd() meet a full ring. KBD_SIZE = 1 fills the key buffer. With
  nesting to 2 an inner unlock differs from the last one. Timers are left to
  AESSchedLive: to these lists they are another event that a fork completes.
- *AESQueue:* Slots = 3 = the number of processes is the code's own relation
  (NUM_PDS = 8 and room for 8 messages), the least at which the argument of
  NoStuckSender holds. The pipe may stop with everybody asleep (the owner fills
  its own pipe), so deadlock is not checked.
- *ForkRing:* three slots are taken by the two forks of b_delay() and one more,
  so that the check for room fails and succeeds, and the ring wraps.
- *UMem:* drives and directories may take both blocks of the OS pool, so that
  splits find no descriptor, an MDBLOCK is made, filled, emptied and given back;
  a board whose size is no multiple of 4; environment and TPA in either pool. Larger instances were
  run once, without an error: 8 bytes of ST-RAM with two nested programs (220,244
  states), and 6 with a board of 8 (110,156 states).

- *FileIO:* a cluster of two records, so that positions within and at the end of
  both differ; three clusters, so that two files interleave, chains turn back, a
  file fills the disk, and CNTMAX = 4 records joins two clusters but not three. A
  request of 12 bytes from the start of a file is three whole clusters: when they are
  neighbours on the disk the third one makes the transfer too long, the first two are
  moved and a new transfer begins. A mutant of TransfersRight forgets these two.
- *BufferCache:* drive A has a FAT record (with two copies on the floppy, one on the
  hard disk), a root record that overlaps in number with a data record (usrio()
  compares numbers only), and data; with two buffers in a list, records of two
  drives and two media compete for one, and the flush of one drive's buffer
  happens in a call of the other. Two writes tell a lost one from a late one.
- *OpenFiles:* three OFDs are two openings of a file and one more; two programs are
  the one that redirects and the one that inherits. Also checked once: three handles
  with one entry (5.8 million states).
- *WindowRects:* with the desktop, two windows cut a list twice. The places move a
  window on and off the left and the lower right edge, grow it, shrink it, and lay
  one fully or partly over the other. Also checked once: three windows
  (98,933 states).

Each property has mutants (the definitions commented "Mutant"), changes to the
model as a plausible slip in the code would make; with them the property fails in
the same configuration.

## 5 Fairness

Only AESTimer and AESSched have liveness properties.

*AESTimer.* The tick is periodic (weak fairness), and disp() loops until the ring
is empty, so a tick does not find it full for ever: strong fairness for the tick
that finds room. forker() and the end of tchange() are the running thread.

*AESSched.* The processor does not stop, hence weak fairness of the forks and of
each process' next step *as a whole*: which call it makes next is not promised.
schedule() with an empty ring, and the part of ev_multi() that runs when the ring
is empty, are strongly fair, and the ring runs empty again and again: interrupts
and keys are rarer than forks are quick. Without this assumption the system has
no progress to speak of (disp() would run forks for ever), in the code as in the
model. It is *not* assumed that a lock is released, a key comes or a button is
pressed; EventDelivered needs none of these.

## 6 Proofs

The proofs are for any finite number of processes, any drives, media, records,
partitions, boards, windows, handles, files, openings, sizes and bounds, and with no use of symmetry;
the theorems about a property are of the same definitions that the runs check. From the assumptions in the modules
only (`SchedAssumption`, `RingAssumption`, `QueueAssumption`, `RoomForAll`,
`BufferAssumption`, `TimerAssumption`, `UMemAssumption`, `WindowRectsAssumption`,
`OpenFilesAssumption`, `FileAssumption`),
and:

| theorem | property | holds if |
| --- | --- | --- |
| TypeCorrect, OnOneList, WakeupsKept, NothingLeaks | TypeOK, OneList, NoLostWakeup, NoEventLeak | always, also with wm_new() |
| ScreenExclusive, ScreenHandedOn, ScreenRefines | MutualExclusion, LockHandedOn, ScreenLockSpec | Quitters = {}: nobody calls wm_new(). The shell does after each graphics program (`gemshlib.c:639`), so they are about the time between two such calls |
| TypesHold | TypeOK (ForkRing) | always |
| QueueHolds, ButtonFree | RingIsQueue, NotStuckDown | as the properties say: no interrupt has come in mchange()'s call of b_delay(); for the button, b_click() has not met a full ring |
| QueueTypeCorrect, SendersServed, OwnerSleepsOnEmpty | TypeOK, NoStuckSender, SleepsOnEmpty | always |
| NoRedrawLost | RedrawsKept | Unlocked = {}: a dialogue is ended with the screen held, which the code does not enforce |
| TimerTypes, ListKept, WakeUpKept | TypeOK, ListExact, WakeUpArmed | always |
| MemoryTypes, MemoryPartitioned, StRamCoalesced | TypeOK, Partition, StCoalesced | always |
| DescriptorsAccounted, OwnersAlive, FailedCallsClean | MDsAccounted, OwnersLive, FailsClean | always |
| ImplementsMap | MemoryMapSpec | always |
| RectanglesExact | OwnersExact | Early = FALSE: no window has a place before it is opened, which the code permits |
| RectanglesKept | OrectsAccounted | always |
| ScreenStaysRight | ScreenRight | Early = FALSE, Prompt = TRUE: a program draws what it was asked to before it moves a window; Shadow > 0 |
| HandleTypes, HandlesKept | TypeOK, HandlesLive (OpenFiles) | always |
| EntriesFollow | EntryFollowsDfd | always (the property itself excepts entries with strays) |
| FileTypesSafe, ChainsFitSafe, TransfersRightSafe | FileTypes, ChainsFit, TransfersRight | always |
| FileIORefines | ByteFileSpec | always |
| TypesKept, CoherentAlways, StoredAtClose, ImplementsRecordStore | TypeOK, Coherent, ClosedIsStored, RecordStoreSpec | always |
| PiecesSized, PiecesDisjoint, PiecesExact | about brkrct() | the two rectangles overlap and have a size |

The conditions are not conveniences: section 7 says how the properties fail
without them (`refused` is the hazard at `geminput.c:143`).

*The argument for AESSched* is in four layers, each inductive on top of those
below:

1. `TypeOK`.
2. `ListInv`: OneList, and somebody is on the ready list unless the dispatcher
   runs. Needed because every action begins with `Head(rlr)`; facts about Head,
   Tail and concatenation of sequences without repetitions are lemmas of their own
   (`TailFacts`, `ConcatFacts`, `RotateFacts`).
3. `EventInv`: for each process the flags are the completed blocks, the awaited
   events are the held blocks, and both are empty outside of ev_multi() and
   ev_block(); who sleeps has no completed block; the wait list of the semaphore
   is exactly the sleepers for it. NoLostWakeup alone is not inductive: signal()
   looks at p_evwait and p_evflg, and the proof has to know that they agree with
   the blocks.
4. `LockInv`: the count of the semaphore is what its owner is inside, plus one if
   it was handed the semaphore and has not run. This is the fact that makes the
   refinement of ScreenLock go through: the step in which the owner *returns*
   from wm_update() is the abstract Take, and the hand-over changes nothing.

*The argument for AESQueue:* `QueueInv` has `SendersInv` (the sleeping senders are
the ones on `qnq`, once each), `OwnerInv`, and `RoomInv`, a count: while anybody
sleeps, messages and processes that are awake together are more than the slots.
With as many slots as processes this leaves two messages, so that the quick read
is not taken. The count is made when the first sender sleeps (the pipe is full),
and each read removes a message and wakes a process. `Owed` adds that the shared
buffers are not written while a redraw waits in them.

*The argument for ForkRing* has three layers. `TypeInv` bounds the ticks to wait by
the clicks counted, which keeps `gl_bdely` in its type. `QueueInv` says that the
slot to put in is `fpcnt` slots after the one to take from, and which slot it is
between the two halves of forkq(). `ToldInv` is about the *last* thing that the
forks in the ring tell of the button: NotStuckDown speaks of an empty ring only.
While clicks are counted nothing told says "down", for the count begins when the
button was up; so the end of the wait may be dropped by a full ring without harm,
and when it is not dropped its last fork tells the true state, for which there is
room because b_delay() has looked. Where an interrupt in b_delay() breaks the
argument, the run ForkRingStuck breaks the property.

*The argument for BufferCache* (in FileSystem_proofs, behind FileIO's)*:* Coherent is not inductive. `LoggedIn` adds that a
drive without a reported change has the medium it was logged in with, so that a
write to the drive goes to the medium of the buffer; `CallReady` adds what the
running call relies on between two of its steps: the buffer it is flushing is
still valid and dirty, the one it will fill has nothing unsaved, and no other has
the record it will be filled with. Each of the fifteen actions keeps the four
parts; MediaChange and HardError, which any BIOS call may end in, are lemmas of
their own. For the refinement, what the file system holds (`Content`) is followed
through each step: flush() makes one record stable, a hit, a fill or usrio()
writes, MediaChange and HardError give up what is not stable on one medium, and
everything else changes nothing. That the choice in `Content` does not matter is
where "no record is in two buffers" is used.

*Induction.* The library's theorems of induction take an operator and cannot be
used. Where a recursive function or a fold has to be followed over a sequence, the
proofs take the *set* of numbers for which the claim holds (or fails) and use that
a set of numbers has a least element: `Induction` in AESTimer_proofs, `RunReach` and
`SumExists` in WindowRects_proofs, `MinFacts` in UMem_proofs,
OpenFiles_proofs and FileSystem_proofs; in OpenFiles_proofs `Runs` gives the intermediate results of a fold. For a fold it is shown
first that the function the fold chooses exists.

*The argument for AESTimer:* the ages of the blocks, `DueAt`, are a recursive sum over
the delta list. The lemmas say what inserting a block before another one, taking one
off, and charging ticks from the head do to all sums at once; `ListExact` is then
inductive with the shape of the list. `WakeUpArmed` says itself what holds between the
two halves of tchange(), when the count-down may be stopped with a block still
waiting; `ClockInv` adds that the ticks counted and those to come are bounded together,
because their sum grows only while the ring is full.

*The argument for UMem:* the blocks of all lists, free and allocated, are looked at as
one set. What the allocator does to it are a few changes: a block replaced by one in
its place, split, joined with the next, added, taken out. Each is a lemma that
says what becomes of disjointness, of the addresses covered and of the number of
blocks whose descriptor is in each MDBLOCK. What ffit() and freeit() do to the free
*list*, as a sequence, is proved apart: that its searches find what they look for,
and that ST-RAM stays in ascending order with no two neighbours touching. `MemInv`
(checked with TLC before) puts these together with who owns what: a program that is
running or loaded has the block it is in. It is needed because MDsAccounted is
not kept without disjointness (two blocks with one start would be one element), nor
OwnersLive without knowing that Pterm() frees every block of the program in both
pools. Loops that free or hand over many blocks are folds over sets of blocks; their
results are followed by induction on what is left. The refinement of MemoryMap maps
each address to the owner of its block; the steps are read off the same lemmas.

*The argument for OpenFiles* follows the code's functions: each operator on the
tables (`Saved`, `Without`, `Clear`, `Unused`, `Freed`, `Enter`, ...) has a lemma that
says what it does to `Good`, and a call is a chain of them. `Good` has three parts.
`Sound`: an entry of the sft is free or in use; an OFD in use is there and so is its
DFD, in an OFD for the same entry of the directory; a DFD counts the OFDs in use that
have it, and there is one. `Listed`: the directory lists OFDs in use, of files that
are there, and those of one file have one DFD. `Follows`: two OFDs of one file have
different DFDs only where `strayed` says so, and elsewhere the entry says what the
DFD says, or the DFD is dirty. HandlesLive needs more, because a handle may be in
use by programs that know nothing of each other: `Refs` says that each handle held,
and each mapped standard handle, is for the file that `held` remembers; that its entry
of the sft belongs to the program or to one that waits for it, so that no Pterm()
closes what a program below still has; and that `f_use` is at least the number of
such references, counted as a set of pairs of program and handle. A close takes
one use and one reference, Fforce() and Fdup() add one each, Pexec() as many
uses as standard handles are mapped to the entry. When Pterm() ends a
program its closes are two folds, and after step i the invariant holds with the
standard handles below i, and then the owned entries below i, taken away.
ixcreat() deletes, makes the entry anew and opens it: after a deletion that was not
refused no listed OFD is for the entry, which is why the new file has a DFD of its own.

*The argument for WindowRects* begins with brkrct(), by cases on the sides and linear
arithmetic: the pieces are told apart by which edge of the new rectangle a pixel is
beyond, above and below first. Then a list *tiles* a set of pixels if each of them is in
exactly one rectangle of it, every other pixel in none, and none is empty.
Laying a new rectangle over a list that tiles A leaves one that tiles A less the
new one, with the mark VF_BROKEN if they met; this is an induction over the list
(mkrect()), then one over the windows below (newrect()), and one over the windows
from the bottom up (draw_change()): after window k each window below it has what no
window up to k covers, whatever the lists were before. `Shape` is the rest of the
inductive invariant: a window that is not open has a size only if programs give it
one early, *all* lists, also those of closed windows, tile something (or laying a place
over them could take more than it gives), and what is free and what is on the lists
is the whole pool. The sum over the windows is a fold, too: `HeldChange` says
that changing one list changes it by the difference. OwnersExact needs `Early = FALSE`
because wm_delete() lays the place of a window that is not open over those that
are (section 3); OrectsAccounted does not need it.

ScreenRight rests on OwnersExact: drawing within the rectangles of a window's list
draws exactly the pixels that the window is the owner of, before the call
(`Sound(Now)`) and after it (`Sound(t)`). The invariant behind it, `Seen`, adds that
`gl_wtop` is the top of the tree, that pending redraws have a size or are none, and that
no window is further left than -1. A call changes the place of one window: the
others, and their order, are `Alike`, and a pixel that this window owns neither before nor
after has the owner that it had (`OwnerKept`), and the picture, unless that owner has
become the top window or has ceased to be it (`Kept`). `DrawnFine` says once for every
plan what is fine after it has been drawn: what was before, what is in the clip and
belongs to a window from `start` up to `stop`, and the frames of the old and the new top
window. Then each case of draw_change() has to show that all other pixels are fine:
`OpenFine`, `CloseFine`, `TopFine`, `SizeFine`, and `MoveFine`, which has w_move():
`MoveGeometry` says that what is copied comes from the screen and from the window, that what
cannot be copied is the column at the left which `edge` draws, and that the clip of
the rest holds all of the old place. This is where the shadow is needed: for a window
that moves to -1 the clip is moved left by one and not widened, so that without a shadow
a column would stay behind at its right (WindowRects.cfg with `Shadow = 0` shows it;
DROP_SHADOW_SIZE is 2, `gemwmlib.c:49`). A copied pixel is right if the old one was, and
the old one was, because the top window has no redraw pending (`Prompt`).
A redraw asks for the common part of clip, work area and the *union* of the window's
rectangles, which holds all that the window owns there (`RedrawAsks`). The places of
windows begin at -1 or to its right, and below the menu bar: for these w_mvfix() is made.

*The argument for FileIO:* the inductive invariant, `FileInv`, says of the state between
two calls that each chain is `Linked` (no cluster twice, ended by ENDOFCHAIN) and
as long as its file needs (`Fits`), that chains do not meet and own all that is not free,
and that every position is `Placed`: at the start of the file, or in a cluster of its
chain, or *at the end* of one, with its cluster, record and byte agreeing with the byte
in the file. The four parts of a position say this twice over at a cluster's end, and
which of the two it is decides whether the next move goes to another cluster first.
A call is followed through the operators it is made of. `Good` says what
holds between two moves of a transfer: what has been moved is the file's own next
bytes by the *present* chain, which extends the one it began with and touches no other
file's cluster, and the length is the longest that the position has been; `Open`, that the
position has been taken into the cluster of the next byte. nextcl() goes
from Good to Open (`GoodOpens`), a move from Open back to Good (`MoveGood`). In the loop
of whole clusters what is joined has not been moved yet: `Covers` says that the transfer
with the pending records moved would be Good, and that these records are the whole of
consecutive clusters of the chain, so that moving them in one piece is moving
each in its place; when the chain ends (a full disk) the pending part is moved, and the
transfer is Good with no cluster that is not used. The loop's fold and those of
the chain and of ixlseek() are followed with `RunReach`. A seek is shown to arrive where
the chain from the first cluster would (`TargetIs`), whether it starts there or goes on from
where it is. For the refinement, each call is read as one of ByteFile; that a write which is cut
short has filled the drive needs a count: the clusters of disjoint chains
without repetitions are as many as the blocks of all files together (`UsedIs`,
a fold over the set of files), and all of the drive when none is free.

FileAssumption bounds the clusters by MAX_FAT16_CLUSTERS (`blkdev.c:749`), so that no
cluster has the number of a mark that ends chains, and has a finite number of files.

Model-checked only: the liveness properties WaitEnds and EventDelivered, which rest on
fairness. For each of the other properties of the passing runs PROJECT.json names
the theorem that states it.

## 7 Disagreements found

Two are runs whose only property says what a comment of the code says, and which
TLC refutes with what the code does.

- **OpenFilesDfd** - `ixclose()` takes a file off the list of open files at the first
  close, also when its handle is shared (`fsopnclo.c:552`): opened again, it has
  two DFDs.
- **ForkRingStuck** - `mchange()` calls `b_delay()` with interrupts enabled
  (`geminput.c:368`): the second fork may find the ring full, and the button
  stays down.

The others are a constant or a property away from a run, and can be had by changing
its configuration:

- `wm_new()` unlocks the screen until the count is 0, whoever owns it
  (`gemwmlib.c:1882`): a second process is let in while one is inside an update,
  which wm_update() is there to prevent (`gemwmlib.c:1774`). The shell itself calls
  wm_new() when a program has ended, while accessories go on. AESSchedLive.cfg with
  `INVARIANT MutualExclusion` (Quitters is not empty in it).
- `form_dial(FMD_START)` does not take the screen, though the empty case says "grab
  screen sync or some other mutual exclusion method" (`gemfmlib.c:373`);
  `form_dial(FMD_FINISH)` then sends redraws without holding it (`gemfmlib.c:384`),
  while another process waits to send one from the same buffer, and writes it over.
  AESQueue.cfg with `Unlocked = {p2}` and without the symmetry: RedrawsKept, and
  OneRedrawAtATime, which says what the comment does.
- `doq()` tests new and queued message separately (`gemqueue.c:46`): an arrow is
  merged into a redraw, and the other way round. AESQueue.cfg with
  `INVARIANT MergesLikeWithLike`.
- `adelay()` does not count the ticks that have passed since the list was last aged
  (`geminput.c:510`): a wait may end early. AESTimer.cfg with
  `INVARIANT WaitedLongEnough`, two blocks, MaxDelay = 3 and NFORKS = 1.
- `xmaddalt()` does not keep the free list in order (`umem.c:513`): freed Alt-RAM is
  not joined with its neighbour. UMem.cfg with `INVARIANT AltCoalesced` and the two
  boards `Boards <- TwoBoards`. In UMem the corresponding property is stated for
  ST-RAM only, whose list no Maddalt() changes.
- `mkpiece()` uses what get_orect() returns without a look (`gemwrect.c:68`), and
  `gemlib.h:88` asks of the pool of ten rectangles for each window: "is this
  enough???" It is not with the 16 windows of AES versions above 3.20: eight wide
  windows and seven tall ones across them need 161 of 160. WindowRects.cfg with
  `SPECIFICATION InOrderSpec`, `NUM_WIN = 16`, `NUM_ORECT = 160`, `Width = 41`,
  `Height = 46`, `Shadow = 2`, `Places <- CrossedPlaces` and no dialogues:
  OrectsSuffice.
  With NUM_WIN = 8 and NUM_ORECT = 80, as in the other versions, OrectsSuffice holds
  where it is checked: `Width = 17`, `Height = 18`, `Shadow = 0` and
  `Places <- StripedPlaces`, rows across columns that are all apart from each other.
  At most 50 of the 80 are in use at once there. This is a check of one family of
  arrangements and no proof for all of them.
- `Early` and `Prompt` in WindowRects (section 3).

## 8 What is left out

- *AES:* what events return (coordinates, keys); messages longer than 16 bytes;
  the mouse-control lock; recording and playback; how `gl_bpend` is counted
  (ForkRing lets it change at any time); the shell's loop; the screen manager.
- *Windows:* gadgets and sliders, names, colours, `wm_find()`, `WF_NEWDESK`, the
  clean-up of wm_new(), and the pointer into a window's list (`w_rnext`) that a
  program walks with WF_FIRSTXYWH and WF_NEXTXYWH, which a rebuild of the lists
  leaves dangling; coordinates near the ends of a WORD; a full pipe (AESQueue).
- *GEMDOS memory:* Srealloc(), static Alt-RAM, the freeing of directory nodes when
  the OS pool is empty (a call of xmgetblk() is then not enabled), sizes near
  2^31.
- *GEMDOS processes:* current directories, relocation, registers and stacks; the use
  counts that PE_LOAD leaves behind when the basepage is freed.
- *File system:* paths and subdirectories, searches, attributes and dates, 12-bit
  FATs, logging in a drive, renaming across directories, `offree()`; that
  Fforce() over a redirected standard handle does not count the old one down
  (`fshand.c:72`) is in OpenFiles, whose HandlesLive asks for a count that is high
  enough.
- *Everything else* in section 1, for the reasons that PROJECT.json gives: either
  planned (section 2), or hardware protocols, or sequential code with few states.
