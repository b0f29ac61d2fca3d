-------------------------------- MODULE UMem --------------------------------
(***************************************************************************)
(* GEMDOS memory: the ST-RAM and Alt-RAM partitions with their free and    *)
(* allocated lists, the pool the memory descriptors come from, and the     *)
(* processes that own the blocks.                                          *)
(*                                                                         *)
(*   bdos/umem.c    xmxalloc(), xmfree(), xsetblk(), xmaddalt(),           *)
(*                  set_owner()                                            *)
(*   bdos/iumem.c   ffit(), freeit(), shrinkit()                           *)
(*   bdos/osmem.c   xmgetmd(), xmfremd(), xmgetblk(), xmfreblk()           *)
(*   bdos/proc.c    xexec(), alloc_tpa(), xterm(), xtermres()              *)
(*                                                                         *)
(* A GEMDOS call is one step: the BDOS is not re-entered. A list is a      *)
(* sequence of descriptors in the order of their links; addresses are      *)
(* numbers; the address of its basepage is a process' identity, as in the  *)
(* code.                                                                   *)
(***************************************************************************)
EXTENDS Integers, SequencesExt, FiniteSetsExt

CONSTANTS
  StStart, StSize, (* membot and the length of the ST-RAM partition         *)
  AlignST,         (* malloc_align_stram + 1                               *)
  AlignAlt,        (* MALLOC_ALIGN_ALTRAM + 1                              *)
  Boards,          (* the Alt-RAM there is: sets of [start, size]          *)
  Amounts,         (* bound: the sizes asked for                           *)
  EnvSize,         (* size of an environment                               *)
  Blocks,          (* the blocks of the OS pool, numbered from 1           *)
  MaxDepth         (* bound: programs that have started one another        *)

NULL == 0
initial_basepage == 1
MDS_PER_BLOCK == 3

ASSUME UMemAssumption ==
  /\ {AlignST, AlignAlt, EnvSize, StSize} \subseteq Nat \ {0}
  /\ StStart \in Nat /\ StStart > initial_basepage
  /\ StStart % AlignST = 0 /\ StSize % AlignST = 0
  /\ Amounts \subseteq Nat \ {0}
  /\ \A b \in Boards : b.start \in Nat /\ b.size \in Int
  /\ \A b, c \in Boards : b.start \in c.start .. (c.start + c.size - 1) => b = c
  /\ Blocks \subseteq Nat \ {0} /\ IsFiniteSet(Blocks)
  /\ MaxDepth \in Nat

VARIABLES
  mem,      (* mfl: the free list of each pool; mal: the allocated list, as *)
            (* a set, for it is only searched for an address or an owner;  *)
            (* osm: the OS pool (see below)                                *)
  stack,    (* the basepages of the running program (first), the program   *)
            (* that started it, and so on down to initial_basepage         *)
  loaded,   (* basepages made by Pexec() and not yet run: [pd, env]        *)
  added,    (* the Boards that xmaddalt() has been called for              *)
  resident, (* history: the addresses Ptermres() has taken off the lists   *)
  rc        (* whether the last call has succeeded                         *)

vars == <<mem, stack, loaded, added, resident, rc>>

Pools == {"st", "alt"}
run == Head(stack)
has_alt_ram == added # {}
Bytes(m) == m.start .. (m.start + m.length - 1)

(***************************************************************************)
(* Memory descriptors. Three of them share an MDBLOCK, and which of the    *)
(* three one is makes no difference: the md of a block is the MDBLOCK its  *)
(* descriptor is in. osm.used has the number of slots taken in each,       *)
(* osm.mdbroot chains the partly used ones, and osm.taken are the blocks   *)
(* that DMDs, DNDs and OFDs are in.                                        *)
(*                                                                         *)
(* The first descriptor, themd, is a system variable and not in any        *)
(* MDBLOCK: "block" 0 stands for it. The first xmfremd(&themd) reads the   *)
(* word that follows it, which nothing sets. If that is no valid index     *)
(* themd is left alone; if the low memory is clear it becomes the only     *)
(* free slot of an MDBLOCK that overlaps the system variables.             *)
(***************************************************************************)
themd == 0
NoMD == -1

(* xmgetblk(): which of the free blocks is of no matter. *)
FreeBlocks(o) == {b \in Blocks : o.used[b] = 0} \ o.taken

(* Mutant: a block that is full stays on the chain. *)
SlotKeepsFull(o, b, chain) ==
  [md  |-> b, osm |-> [o EXCEPT !.used[b] = @ + 1, !.mdbroot = chain]]

(* A slot of block b, which is the head of the chain. *)
Slot(o, b, chain) ==
  [md  |-> b,
   osm |-> [o EXCEPT !.used[b] = @ + 1,
                     !.mdbroot = IF o.used[b] + 1 = MDS_PER_BLOCK THEN Tail(chain)
                                 ELSE chain]]

xmgetmd(o) ==
  IF o.mdbroot # <<>> THEN Slot(o, Head(o.mdbroot), o.mdbroot)
  ELSE IF FreeBlocks(o) = {} THEN [md |-> NoMD, osm |-> o]
  ELSE LET b == Min(FreeBlocks(o)) IN Slot(o, b, <<b>>)

(* An empty block goes back to the OS pool, one that was full on the chain.*)
xmfremd(o, b) ==
  LET left == o.used[b] - 1
  IN  [o EXCEPT !.used[b] = left,
                !.mdbroot = CASE left = 0 -> RemoveFirst(@, b)
                              [] left = MDS_PER_BLOCK - 1 -> <<b>> \o @
                              [] OTHER -> @]

(***************************************************************************)
(* Blocks of a pool. An operator takes the memory s and yields the memory  *)
(* after it, with the address found or NULL where the code returns one.    *)
(***************************************************************************)
Found(s, a) == [s |-> s, addr |-> a]

Round(pool, n) ==
  LET a == IF pool = "st" THEN AlignST ELSE AlignAlt
  IN  ((n + a - 1) \div a) * a

(* ffit(-1): the size of the largest free block. *)
Largest(s, pool) == Max({m.length : m \in ToSet(s.mfl[pool])} \cup {0})

FirstOf(list, Test(_)) == SelectInSeq(list, Test)

(* ffit(): the first free block large enough, or the first part of it. The *)
(* rest needs a descriptor of its own.                                     *)
ffit(s, pool, n, own) ==
  LET amount == Round(pool, n)
      fl == s.mfl[pool]
      i == FirstOf(fl, LAMBDA m : m.length >= amount)
      q == fl[i]
      got == xmgetmd(s.osm)
      Taken(fl1, osm1) ==
        Found([mfl |-> [s.mfl EXCEPT ![pool] = fl1],
               mal |-> [s.mal EXCEPT ![pool] =
                          @ \cup {[q EXCEPT !.length = amount, !.own = own]}],
               osm |-> osm1], q.start)
  IN  IF i = 0 THEN Found(s, NULL)
      ELSE IF q.length = amount THEN Taken(RemoveAt(fl, i), s.osm)
      ELSE IF got.md = NoMD THEN Found(s, NULL)
      ELSE Taken([fl EXCEPT ![i] = [md |-> got.md, start |-> q.start + amount,
                                    length |-> q.length - amount, own |-> NULL]],
                 got.osm)

(* find_mpb(), and the search of the allocated list for a block at addr.   *)
find_mpb(addr) ==
  IF addr \in StStart .. StStart + StSize - 1 THEN "st" ELSE "alt"

IsBlock(s, addr) == \E m \in s.mal[find_mpb(addr)] : m.start = addr
BlockAt(s, addr) == CHOOSE m \in s.mal[find_mpb(addr)] : m.start = addr

(* The block at addr becomes m. *)
Update(s, addr, m) ==
  [s EXCEPT !.mal[find_mpb(addr)] = (@ \ {BlockAt(s, addr)}) \cup {m}]

(* Mutant: blocks are joined across what lies between them. *)
TouchesOrBelow(m, f) == m.start + m.length <= f.start

Touches(m, f) == m.start + m.length = f.start

(* Mutant: the block goes to the head of the free list. *)
PlaceAtHead(fl, p) == 0

(* How many of the free blocks stay before p: those before the first one   *)
(* that is not below it.                                                   *)
Place(fl, p) ==
  LET k == FirstOf(fl, LAMBDA f : p.start <= f.start)
  IN  IF k = 0 THEN Len(fl) ELSE k - 1

(* freeit(): from the allocated into the free list, joined with the free   *)
(* blocks before and after it in the list if they touch it.                *)
freeit(s, pool, addr) ==
  LET fl == s.mfl[pool]
      m == BlockAt(s, addr)
      p == [m EXCEPT !.own = NULL]
      k == Place(fl, p)
      lower == SubSeq(fl, 1, k)
      upper == SubSeq(fl, k + 1, Len(fl))
      hi == upper # <<>> /\ Touches(p, Head(upper))
      lo == lower # <<>> /\ Touches(Last(lower), p)
      p1 == IF hi THEN [p EXCEPT !.length = @ + Head(upper).length] ELSE p
      rest == IF hi THEN Tail(upper) ELSE upper
      fl1 == IF lo THEN Front(lower) \o <<[Last(lower) EXCEPT !.length = @ + p1.length]>>
                        \o rest
             ELSE lower \o <<p1>> \o rest
      osm1 == IF hi THEN xmfremd(s.osm, Head(upper).md) ELSE s.osm
  IN  [mfl |-> [s.mfl EXCEPT ![pool] = fl1],
       mal |-> [s.mal EXCEPT ![pool] = @ \ {m}],
       osm |-> IF lo THEN xmfremd(osm1, p.md) ELSE osm1]

set_owner(s, addr, pd) ==
  IF IsBlock(s, addr) THEN Update(s, addr, [BlockAt(s, addr) EXCEPT !.own = pd]) ELSE s

(* xmfree(): NULL stands for EIMBA. *)
xmfree(s, addr) ==
  IF IsBlock(s, addr) THEN Found(freeit(s, find_mpb(addr), addr), addr)
  ELSE Found(s, NULL)

(* shrinkit(): the end of the block becomes a block, and is freed.         *)
shrinkit(s, pool, addr, newlen) ==
  LET m == BlockAt(s, addr)
      got == xmgetmd(s.osm)
      f == [md |-> got.md, start |-> addr + newlen, length |-> m.length - newlen,
            own |-> NULL]
      s1 == [Update(s, addr, [m EXCEPT !.length = newlen]) EXCEPT !.osm = got.osm]
  IN  IF got.md = NoMD THEN Found(s, NULL)
      ELSE Found(freeit([s1 EXCEPT !.mal[pool] = @ \cup {f}], pool, f.start), addr)

(* xsetblk(): NULL stands for EIMBA, EGSBF and ERR.                        *)
xsetblk(s, addr, n) ==
  LET pool == find_mpb(addr)
      len == Round(pool, n)
  IN  IF ~IsBlock(s, addr) \/ BlockAt(s, addr).length < len THEN Found(s, NULL)
      ELSE IF BlockAt(s, addr).length = len THEN Found(s, addr)
      ELSE IF len = 0 THEN Found(freeit(s, pool, addr), addr)
      ELSE shrinkit(s, pool, addr, len)

(* xmxalloc(): the pools to try, by the mode.                              *)
Modes == {"MX_STRAM", "MX_TTRAM", "MX_PREFSTRAM", "MX_PREFTTRAM"}
PoolsOf(mode) ==
  CASE mode = "MX_STRAM" -> <<"st">>
    [] mode = "MX_TTRAM" -> <<"alt">>
    [] mode = "MX_PREFSTRAM" -> <<"st", "alt">>
    [] mode = "MX_PREFTTRAM" -> <<"alt", "st">>

xmxalloc(s, n, mode, own) ==
  LET first == ffit(s, PoolsOf(mode)[1], n, own)
  IN  IF first.addr # NULL \/ Len(PoolsOf(mode)) = 1 THEN first
      ELSE ffit(s, PoolsOf(mode)[2], n, own)

(***************************************************************************)
(* A program's own calls.                                                  *)
(***************************************************************************)
Quiet == UNCHANGED <<stack, loaded, added, resident>>

(* A basepage is good for Pexec() as long as its blocks are allocated.     *)
StillThere(s, ls) == {l \in ls : IsBlock(s, l.pd) /\ IsBlock(s, l.env)}

Result(found) ==
  /\ mem' = found.s
  /\ rc' = (found.addr # NULL)

(* Malloc(), Mxalloc(). *)
Malloc == \E n \in Amounts, mode \in Modes :
  /\ Result(xmxalloc(mem, n, mode, run))
  /\ Quiet

(* The blocks of the program that runs, but not the one it runs in.        *)
Own == {m.start : m \in {b \in mem.mal["st"] \cup mem.mal["alt"] :
                           b.own = run /\ b.start # run}}

(* Mfree() of one of them, or of an address that is no block.              *)
Mfree == \E addr \in Own \cup {NULL} :
  /\ Result(xmfree(mem, addr))
  /\ loaded' = StillThere(mem', loaded)
  /\ UNCHANGED <<stack, added, resident>>

(* Mshrink() of one of them, to nothing too, or of the program's own.      *)
Mshrink == \E addr \in Own \cup {run}, n \in Amounts \cup {0} :
  /\ addr = run => n > 0
  /\ Result(xsetblk(mem, addr, n))
  /\ loaded' = StillThere(mem', loaded)
  /\ UNCHANGED <<stack, added, resident>>

(***************************************************************************)
(* Pexec(). The environment, then the TPA: all of the largest free block,  *)
(* in Alt-RAM for a program with PF_TTRAMLOAD, unless there is more of     *)
(* ST-RAM and the program asks for more than there is of Alt-RAM ('big').  *)
(***************************************************************************)
alloc_env(s, ttload) ==
  xmxalloc(s, EnvSize, IF ttload THEN "MX_PREFTTRAM" ELSE "MX_STRAM", run)

alloc_tpa(s, ttload, big, needed) ==
  LET st == Largest(s, "st")
      alt == Largest(s, "alt")
      inAlt == /\ ttload /\ has_alt_ram /\ alt >= needed
               /\ ~(st >= needed /\ st > alt /\ big)
  IN  IF inAlt THEN ffit(s, "alt", alt, run)
      ELSE IF st >= needed THEN ffit(s, "st", st, run)
      ELSE Found(s, NULL)

(* Pexec() up to the basepage, for a program that asks for r; pd is NULL   *)
(* if there is no memory for it.                                           *)
Requests == [ttload : BOOLEAN, big : BOOLEAN, needed : Amounts]

NewBasepage(s, r) ==
  LET e == alloc_env(s, r.ttload)
  IN  IF e.addr = NULL THEN [s |-> s, pd |-> NULL, env |-> NULL]
      ELSE LET t == alloc_tpa(e.s, r.ttload, r.big, r.needed)
           IN  [s |-> t.s, pd |-> t.addr, env |-> e.addr]

set_owners(s, l, own) == set_owner(set_owner(s, l.pd, own), l.env, own)

(* Mutant: the environment stays allocated if there is no TPA. *)
NotLoadedKeepsEnv(b) ==
  IF b.pd = NULL THEN b.s ELSE xmfree(xmfree(b.s, b.env).s, b.pd).s

(* No room for the basepage, or a program that cannot be loaded: whatever  *)
(* has been allocated is freed.                                            *)
NotLoaded(b) ==
  IF b.env = NULL THEN b.s
  ELSE IF b.pd = NULL THEN xmfree(b.s, b.env).s
  ELSE xmfree(xmfree(b.s, b.env).s, b.pd).s

PexecFails(s) == mem' = s /\ rc' = FALSE /\ UNCHANGED <<stack, loaded>>

(* PE_LOADGO: the program owns its blocks, and runs.                       *)
PexecLoadGo == \E b \in {NewBasepage(mem, r) : r \in Requests} :
  /\ Len(stack) <= MaxDepth
  /\ \/ PexecFails(NotLoaded(b))
     \/ /\ b.pd # NULL
        /\ mem' = set_owners(b.s, b, b.pd)
        /\ stack' = <<b.pd>> \o stack
        /\ rc' = TRUE
        /\ UNCHANGED loaded
  /\ UNCHANGED <<added, resident>>

(* PE_LOAD, and PE_BASEPAGE, which loads nothing: the caller owns the      *)
(* blocks, to run them later.                                              *)
PexecLoad == \E b \in {NewBasepage(mem, r) : r \in Requests} :
  /\ \/ PexecFails(NotLoaded(b))
     \/ /\ b.pd # NULL
        /\ mem' = set_owners(b.s, b, run)
        /\ loaded' = loaded \cup {[pd |-> b.pd, env |-> b.env]}
        /\ rc' = TRUE
        /\ UNCHANGED stack
  /\ UNCHANGED <<added, resident>>

(* PE_GO, and PE_GOTHENFREE, which makes the program own its blocks first. *)
PexecGo == \E l \in loaded, thenfree \in BOOLEAN :
  /\ Len(stack) <= MaxDepth
  /\ l.pd \notin ToSet(stack)
  /\ BlockAt(mem, l.pd).own = run /\ BlockAt(mem, l.env).own = run
  /\ mem' = IF thenfree THEN set_owners(mem, l, l.pd) ELSE mem
  /\ stack' = <<l.pd>> \o stack
  /\ rc' = TRUE
  /\ UNCHANGED <<loaded, added, resident>>

(* free_all_owned(): each block of pd; freed in another order they end up  *)
(* as the same free blocks.                                                *)
OwnedBy(pd, blocks) == {m \in blocks : m.own = pd}
free_all_owned(s, pool, pd) ==
  FoldSet(LAMBDA m, s1 : freeit(s1, pool, m.start), s, OwnedBy(pd, s.mal[pool]))

(* Mutant: the blocks in Alt-RAM are forgotten. *)
ixtermStOnly(s, pd) == free_all_owned(s, "st", pd)

(* ixterm(), of which only what becomes of the memory. *)
ixterm(s, pd) == free_all_owned(free_all_owned(s, "st", pd), "alt", pd)

(* Mutant: the descriptors of the reserved blocks are not freed. *)
reserve_blocksKeepsMDs(s, pool, pd, low) ==
  [s EXCEPT !.mal[pool] = @ \ OwnedBy(pd, @)]

(* reserve_blocks(): off the allocated list, and on no other. The block at *)
(* StStart is the one themd describes; 'low' says what follows themd.      *)
reserve_blocks(s, pool, pd, low) ==
  [s EXCEPT !.mal[pool] = @ \ OwnedBy(pd, @),
            !.osm = FoldSet(LAMBDA m, o : IF m.start = StStart /\ ~low THEN o
                                          ELSE xmfremd(o, m.md),
                            @, OwnedBy(pd, s.mal[pool]))]

(* Mutant: 'run' is the parent before the memory is freed. *)
TerminateParent(s) ==
  /\ mem' = ixterm(s, stack[2])
  /\ stack' = Tail(stack)
  /\ loaded' = StillThere(mem', loaded)
  /\ rc' = TRUE
  /\ UNCHANGED added

(* Pterm(): back to the program that started this one. *)
Terminate(s) ==
  /\ mem' = ixterm(s, run)
  /\ stack' = Tail(stack)
  /\ loaded' = StillThere(mem', loaded)
  /\ rc' = TRUE
  /\ UNCHANGED added

Pterm == Len(stack) > 1 /\ Terminate(mem) /\ UNCHANGED resident

(* Ptermres(): the program's own block is cut to what it wants to keep, if *)
(* that can be, and what it owns is kept for good.                         *)
Ptermres == \E n \in Amounts, low \in BOOLEAN :
  LET s == xsetblk(mem, run, n).s
      mine == OwnedBy(run, s.mal["st"] \cup s.mal["alt"])
  IN  /\ Len(stack) > 1
      /\ resident' = resident \cup UNION {Bytes(m) : m \in mine}
      /\ Terminate(reserve_blocks(reserve_blocks(s, "st", run, low), "alt", run, low))

(***************************************************************************)
(* Maddalt(): at boot, or by a program that drives a memory board.         *)
(***************************************************************************)
WithAlt(fl, osm) == [mem EXCEPT !.mfl["alt"] = fl, !.osm = osm]

xmaddalt(start, size) ==
  LET fl == mem.mfl["alt"]
      i == FirstOf(fl, LAMBDA p : p.start + p.length = start \/ start + size = p.start)
      q == fl[i]
      got == xmgetmd(mem.osm)
  IN  IF size <= 0 \/ start < StStart + StSize THEN Found(mem, NULL)
      ELSE IF i # 0
        THEN Found(WithAlt([fl EXCEPT ![i] = [q EXCEPT !.start = Min({@, start}),
                                                       !.length = @ + size]],
                           mem.osm), start)
      ELSE IF got.md = NoMD THEN Found(mem, NULL)
      ELSE Found(WithAlt(<<[md |-> got.md, start |-> start, length |-> size,
                            own |-> NULL]>> \o fl, got.osm), start)

Maddalt == \E b \in Boards \ added :
  LET size == b.size - (b.size % 4)
      r == xmaddalt(b.start, size)
  IN  /\ Result(r)
      /\ added' = IF r.addr # NULL THEN added \cup {b} ELSE added
      /\ UNCHANGED <<stack, loaded, resident>>

(* A DMD, DND or OFD takes a block of the OS pool, or gives it back. With  *)
(* none left, GEMDOS frees directory nodes, or halts.                      *)
OsPool(taken) ==
  /\ mem' = [mem EXCEPT !.osm.taken = taken]
  /\ UNCHANGED <<stack, loaded, added, resident, rc>>

xmgetblk == FreeBlocks(mem.osm) # {} /\ OsPool(mem.osm.taken \cup {Min(FreeBlocks(mem.osm))})
xmfreblk == \E b \in mem.osm.taken : OsPool(mem.osm.taken \ {b})

Init ==
  /\ mem = [mfl |-> [st |-> <<[md |-> themd, start |-> StStart, length |-> StSize,
                              own |-> NULL]>>,
                     alt |-> <<>>],
            mal |-> [p \in Pools |-> {}],
            osm |-> [used |-> [b \in Blocks \cup {0} |-> IF b = 0 THEN MDS_PER_BLOCK ELSE 0],
                     mdbroot |-> <<>>, taken |-> {}]]
  /\ stack = <<initial_basepage>>
  /\ loaded = {} /\ added = {} /\ resident = {}
  /\ rc = TRUE

Next ==
  \/ Malloc \/ Mfree \/ Mshrink
  \/ PexecLoadGo \/ PexecLoad \/ PexecGo
  \/ Pterm \/ Ptermres
  \/ Maddalt
  \/ xmgetblk \/ xmfreblk

Spec == Init /\ [][Next]_vars

(***************************************************************************)
(* Properties.                                                             *)
(***************************************************************************)
Allocated == mem.mal["st"] \cup mem.mal["alt"]
OnFreeList == ToSet(mem.mfl["st"] \o mem.mfl["alt"])
AllBlocks == OnFreeList \cup Allocated
BoardBytes(b) == b.start .. (b.start + (b.size - (b.size % 4)) - 1)
StRam == StStart .. StStart + StSize - 1
Memory == StRam \cup UNION {BoardBytes(b) : b \in added}

Block == [md : Blocks \cup {themd}, start : Nat, length : Nat \ {0}, own : Nat]
TypeOK ==
  /\ \A p \in Pools : ToSet(mem.mfl[p]) \cup mem.mal[p] \subseteq Block
  /\ mem.osm.used \in [Blocks \cup {themd} -> 0 .. MDS_PER_BLOCK]
  /\ ToSet(mem.osm.mdbroot) \subseteq Blocks \cup {0}
  /\ mem.osm.taken \subseteq Blocks
  /\ stack # <<>> /\ Last(stack) = initial_basepage
  /\ added \subseteq Boards
  /\ resident \subseteq Memory
  /\ rc \in BOOLEAN

(* Every address of the partitions is in one block of one list, or kept by *)
(* a resident program: no byte is handed out twice and none is lost.       *)
Partition ==
  /\ \A m, n \in AllBlocks : m # n => Bytes(m) \cap Bytes(n) = {}
  /\ OnFreeList \cap Allocated = {}
  /\ Cardinality(OnFreeList) = Len(mem.mfl["st"]) + Len(mem.mfl["alt"])
  /\ UNION {Bytes(m) : m \in AllBlocks} = Memory \ resident

(* The free list of ST-RAM is in ascending order and no free block touches *)
(* the next: what is freed can be had again as one block. freeit() looks   *)
(* at the two neighbours in the list only, and so depends on the order.    *)
StCoalesced ==
  LET fl == mem.mfl["st"]
  IN  \A i \in 1 .. Len(fl) - 1 : fl[i].start + fl[i].length < fl[i + 1].start

(* The same of Alt-RAM: free blocks that touch are one block. xmaddalt()   *)
(* puts memory at the head of the list whatever its address.               *)
AltCoalesced ==
  LET fl == mem.mfl["alt"]
  IN  \A i, j \in DOMAIN fl : ~Touches(fl[i], fl[j])

(* Each memory descriptor in use describes one block, none is leaked, and  *)
(* exactly the MDBLOCKs with a free slot are on the chain, once; themd is  *)
(* that of the first block and freed with it at most.                      *)
MDsAccounted ==
  LET o == mem.osm
      In(b) == Cardinality({m \in AllBlocks : m.md = b})
  IN  /\ \A b \in Blocks : o.used[b] = In(b) /\ (b \in o.taken => In(b) = 0)
      /\ In(themd) <= 1 /\ (In(themd) = 1 => o.used[themd] = MDS_PER_BLOCK)
      /\ ToSet(o.mdbroot) = {b \in Blocks \cup {themd} : o.used[b] \notin {0, MDS_PER_BLOCK}}
      /\ Cardinality(ToSet(o.mdbroot)) = Len(o.mdbroot)
      /\ StStart \notin resident =>
           \A m \in AllBlocks : m.start = StStart <=> m.md = themd

(* A block belongs to a program that has not ended, and a program that has *)
(* not ended is still in an allocated block of memory: its basepage.       *)
OwnersLive ==
  /\ \A m \in Allocated : m.own \in ToSet(stack)
  /\ \A i \in 1 .. Len(stack) - 1 : \E m \in Allocated : m.start = stack[i]

(* Who has what: the view of module MemoryMap. *)
OwnerOf(a) ==
  LET at == {m \in Allocated : m.start <= a /\ a < m.start + m.length}
  IN  IF at # {} THEN (CHOOSE m \in at : TRUE).own
      ELSE IF a \in resident THEN -1 ELSE NULL
owner == [a \in Memory |-> OwnerOf(a)]

(* A call that fails has not taken, given back or lost any memory.         *)
FailsClean == [][rc' = FALSE => owner' = owner]_vars

(* The lists keep the promise of module MemoryMap: only free memory is     *)
(* handed out, only what the program has is given back, all that a program *)
(* has is free once it has ended, and what is resident stays so.           *)
Map == INSTANCE MemoryMap WITH Memory0 <- StRam, System <- initial_basepage
MemoryMapSpec == Map!Spec

=============================================================================
