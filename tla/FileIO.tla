-------------------------------- MODULE FileIO --------------------------------
(*****************************************************************************)
(* Reading, writing and seeking in the files of one GEMDOS drive:            *)
(* src/bdos/fsio.c (xrw, xrw_recs, ixlseek, addit) and src/bdos/fsfat.c      *)
(* (nextcl, findfree, clfix).                                                *)
(*                                                                           *)
(* An open file has its position four times over: the byte in the file, the  *)
(* cluster, the first record of the cluster and the byte in the cluster.     *)
(* At the end of a cluster they stay on that cluster, and the code that      *)
(* transfers bytes, records and whole clusters each decides by itself when   *)
(* to go to the next one.  The contents are left out: a transfer is the      *)
(* sequence of disk addresses that it moves bytes to or from, and the        *)
(* abstract file (ByteFile) has no clusters.  Buffers are in BufferCache,    *)
(* handles and the sharing of descriptors in OpenFiles.                      *)
(*****************************************************************************)
EXTENDS Integers, Sequences, FiniteSets, SequencesExt

CONSTANTS
    Files,      \* the files of the drive
    Ofds,       \* the open file descriptors (OFD)
    FileOf,     \* FileOf[o]: the file that o is open on
    m_recsiz,   \* bytes in a record (logical sector)
    m_clsiz,    \* records in a cluster
    m_numcl,    \* clusters on the drive
    CNTMAX,     \* most records of one transfer
    MaxRequest  \* bound: the bytes of one read or write

ASSUME FileAssumption ==
    /\ IsFiniteSet(Files)
    /\ FileOf \in [Ofds -> Files]
    /\ {m_recsiz, m_clsiz, m_numcl, CNTMAX} \subseteq Nat \ {0}
    /\ m_numcl <= 65524              \* MAX_FAT16_CLUSTERS
    /\ MaxRequest \in Nat

m_clsizb == m_recsiz * m_clsiz
Clusters == 2 .. m_numcl + 1     \* the numbers of the clusters
FREECLUSTER == 0
ENDOFCHAIN == 65535

VARIABLES
    fat,        \* fat[c]: free, the end of a chain, or the next cluster
    dfd,        \* dfd[f]: first cluster (0: none) and length of f
    ofd         \* ofd[o]: the position of o

filevars == <<fat, dfd, ofd>>

Dfd == [o_strtcl : Clusters \union {0}, o_fileln : 0 .. m_numcl * m_clsizb]
Ofd == [o_bytnum : 0 .. m_numcl * m_clsizb, o_curcl : Clusters \union {0},
        o_currec : 0 .. m_numcl * m_clsiz, o_curbyt : 0 .. m_clsizb]
AtStart == [o_bytnum |-> 0, o_curcl |-> 0, o_currec |-> 0, o_curbyt |-> 0]

-------------------------------------------------------------------------------
(* The file allocation table.                                                *)

\* The marks that end a chain: (c & 0xfff8) = 0xfff8.
endofchain(c) == c >= 65528
cl2rec(c) == (c - 2) * m_clsiz

\* The clusters in the order findfree() looks at them: from cl (or 2) on,
\* each once.
SearchOrder(cl) ==
    LET first == IF cl < 2 THEN 2 ELSE cl IN
    [i \in 1 .. m_numcl |-> 2 + ((first + i - 3) % m_numcl)]

findfree(cl, table) ==
    LET free == {i \in 1 .. m_numcl : table[SearchOrder(cl)[i]] = FREECLUSTER}
    IN  IF free = {} THEN 0 ELSE SearchOrder(cl)[Min(free)]

\* The clusters of the chain that starts at c, in order.  Chains have no
\* more clusters than the drive.
ChainFrom(c, table) ==
    LET next(chain) ==
          IF chain = <<>> \/ endofchain(table[Last(chain)]) THEN chain
          ELSE Append(chain, table[Last(chain)])
    IN  FoldLeft(LAMBDA chain, i : next(chain),
                 IF c \in Clusters THEN <<c>> ELSE <<>>,
                 [i \in 1 .. m_numcl - 1 |-> i])

Chain(f) == ChainFrom(dfd[f].o_strtcl, fat)

-------------------------------------------------------------------------------
(* A transfer in progress: the table, the descriptor of the file, the open   *)
(* file's position, the bytes left to do, the disk addresses moved so far,   *)
(* and whether the chain has ended.                                          *)

Transfer(o, len) == [fat |-> fat, d |-> dfd[FileOf[o]], p |-> ofd[o],
                  left |-> len, moved |-> <<>>, ended |-> FALSE]

\* nextcl(): p goes to the next cluster; a write at the end of the chain
\* takes a free one.
Link(x) ==
    IF x.p.o_curcl # 0 THEN x.fat[x.p.o_curcl]
    ELSE IF x.d.o_strtcl # 0 THEN x.d.o_strtcl ELSE ENDOFCHAIN

Enter(x, cl) ==
    IF endofchain(cl) \/ cl < 2 THEN [x EXCEPT !.ended = TRUE]
    ELSE [x EXCEPT !.p.o_curcl = cl, !.p.o_currec = cl2rec(cl), !.p.o_curbyt = 0]

Grow(x, new) ==
    IF new = 0 THEN [x EXCEPT !.ended = TRUE]
    ELSE IF x.p.o_curcl = 0
    THEN Enter([x EXCEPT !.fat[new] = ENDOFCHAIN, !.d.o_strtcl = new], new)
    ELSE Enter([x EXCEPT !.fat[new] = ENDOFCHAIN, !.fat[x.p.o_curcl] = new], new)

nextcl(x, writing) ==
    IF writing /\ endofchain(Link(x))
    THEN Grow(x, findfree(x.p.o_curcl, x.fat))
    ELSE Enter(x, Link(x))

\* Mutant of addit(): the byte in the cluster also counts whole clusters.
additAlways(x, siz) ==
    [x EXCEPT !.p.o_curbyt = @ + siz, !.p.o_bytnum = @ + siz,
              !.d.o_fileln = IF x.p.o_bytnum + siz > @ THEN x.p.o_bytnum + siz ELSE @]

\* Mutant of addit(): the length only follows transfers below a cluster.
additShort(x, siz) ==
    [x EXCEPT !.p.o_curbyt = IF siz < m_clsizb THEN @ + siz ELSE @,
              !.p.o_bytnum = @ + siz,
              !.d.o_fileln = IF x.p.o_bytnum + siz > @ /\ siz < m_clsizb
                             THEN x.p.o_bytnum + siz ELSE @]

\* addit(): siz bytes have been moved.
addit(x, siz) ==
    [x EXCEPT !.p.o_curbyt = IF siz < m_clsizb THEN @ + siz ELSE @,
              !.p.o_bytnum = @ + siz,
              !.d.o_fileln = IF x.p.o_bytnum + siz > @ THEN x.p.o_bytnum + siz ELSE @]

\* n bytes at byte off of record rec are moved, then addit().
Move(x, rec, off, n) ==
    addit([x EXCEPT !.moved = @ \o [i \in 1 .. n |-> rec * m_recsiz + off + i - 1],
                    !.left = @ - n], n)

\* usrio() of n records, then addit().
MoveRecords(x, rec, n) == IF n = 0 THEN x ELSE Move(x, rec, 0, n * m_recsiz)

\* The record that the position is in, or at the end of.
Record(x) == (x.p.o_curbyt \div m_recsiz) + x.p.o_currec
RecordsLeft(x) == x.left \div m_recsiz

\* xrw_recs() first does the rest of the cluster.
Header(x) == IF Record(x) % m_clsiz = 0 THEN 0
             ELSE Min({RecordsLeft(x), m_clsiz - (Record(x) % m_clsiz)})

\* Mutant of Join: every cluster is taken to follow the one before.
JoinBlind(s, y) ==
    IF y.ended THEN [x |-> MoveRecords(y, s.run.at, s.run.n), run |-> [at |-> 0, n |-> 0]]
    ELSE [x |-> y, run |-> [s.run EXCEPT !.n = @ + m_clsiz]]

\* Mutant of Join: when a run is as long as it may be, a new one is begun
\* and the pending one is not moved.
JoinForgets(s, y) ==
    IF y.ended \/ y.p.o_currec # s.run.at + s.run.n
    THEN [x |-> MoveRecords(y, s.run.at, s.run.n),
          run |-> [at |-> y.p.o_currec, n |-> IF y.ended THEN 0 ELSE m_clsiz]]
    ELSE [x |-> y, run |-> IF s.run.n + m_clsiz > CNTMAX
                           THEN [at |-> y.p.o_currec, n |-> m_clsiz]
                           ELSE [s.run EXCEPT !.n = @ + m_clsiz]]

\* Its loop over whole clusters.  run is the transfer that is pending: n
\* records from record at on.  One pass goes to the next cluster, moves what
\* is pending if the new one does not follow it, and adds the new one.
Join(s, y) ==
    IF y.ended \/ y.p.o_currec # s.run.at + s.run.n \/ s.run.n + m_clsiz > CNTMAX
    THEN [x |-> MoveRecords(y, s.run.at, s.run.n),
          run |-> [at |-> y.p.o_currec, n |-> IF y.ended THEN 0 ELSE m_clsiz]]
    ELSE [x |-> y, run |-> [s.run EXCEPT !.n = @ + m_clsiz]]

First(y) == [x |-> y, run |-> [at |-> y.p.o_currec, n |-> IF y.ended THEN 0 ELSE m_clsiz]]

ClusterPass(s, writing) ==
    IF s.x.ended THEN s
    ELSE IF s.run.n = 0 THEN First(nextcl(s.x, writing))
    ELSE Join(s, nextcl(s.x, writing))

WholeClusters(x, writing) ==
    FoldLeft(LAMBDA s, i : ClusterPass(s, writing),
             [x |-> x, run |-> [at |-> 0, n |-> 0]],
             [i \in 1 .. RecordsLeft(x) \div m_clsiz |-> i])

Pending(s) == MoveRecords(s.x, s.run.at, s.run.n)

\* Then the records of the last cluster.
LastRecords(x, y, n) == IF y.ended THEN y ELSE MoveRecords(y, y.p.o_currec, n)

TailRecords(x, writing) ==
    IF x.ended \/ RecordsLeft(x) = 0 THEN x
    ELSE LastRecords(x, nextcl(x, writing), RecordsLeft(x))

xrw_recs(x, writing) ==
    IF RecordsLeft(x) = 0 THEN x
    ELSE TailRecords(
            Pending(WholeClusters(MoveRecords(x, Record(x), Header(x)), writing)), writing)

\* xrw(): bytes up to the next record, records, and the bytes left over.
FirstBytes(x) ==
    IF x.p.o_curbyt % m_recsiz = 0 THEN x
    ELSE Move(x, Record(x), x.p.o_curbyt % m_recsiz,
              Min({x.left, m_recsiz - (x.p.o_curbyt % m_recsiz)}))

BytesAt(x, rec) == IF x.ended THEN x ELSE Move(x, rec, 0, x.left)
BytesOf(x) == BytesAt(x, x.p.o_currec)

LastBytes(x, writing) ==
    IF x.ended \/ x.left = 0 THEN x
    ELSE IF x.p.o_curbyt \div m_recsiz \in {0, m_clsiz} THEN BytesOf(nextcl(x, writing))
    ELSE BytesAt(x, Record(x))

xrw(x, writing) == LastBytes(xrw_recs(FirstBytes(x), writing), writing)

-------------------------------------------------------------------------------
(* ixlseek(): the position for byte n, from here on or from the start.       *)

\* The cluster i links after c; 0 when the chain ends before.
Follow(c, i) ==
    FoldLeft(LAMBDA cl, k : IF cl = 0 \/ endofchain(fat[cl]) THEN 0 ELSE fat[cl],
             c, [k \in 1 .. i |-> k])

AtEnd(p) == p.o_curbyt \in {0, m_clsizb} /\ p.o_bytnum # 0

\* The cluster that byte n is in, counted from the file's first (0), or at
\* the end of: xrw() goes to the next one itself.
Cluster(n) == (n \div m_clsizb) - (IF n % m_clsizb = 0 THEN 1 ELSE 0)

Here(p) == (p.o_bytnum \div m_clsizb) - (IF AtEnd(p) THEN 1 ELSE 0)

Target(o, n) ==
    IF ofd[o].o_curcl # 0 /\ n >= ofd[o].o_bytnum
    THEN Follow(ofd[o].o_curcl, Cluster(n) - Here(ofd[o]))
    ELSE Follow(dfd[FileOf[o]].o_strtcl, Cluster(n))

Position(p, n, cl) ==
    IF cl = 0 THEN p                        \* EINTRN
    ELSE [o_bytnum |-> n, o_curcl |-> cl, o_currec |-> cl2rec(cl), o_curbyt |-> n % m_clsizb]

ixlseek(o, n) == IF n = 0 THEN AtStart ELSE Position(ofd[o], n, Target(o, n))

-------------------------------------------------------------------------------
(* The calls.                                                                *)

Commit(o, x) == /\ fat' = x.fat
                /\ dfd' = [dfd EXCEPT ![FileOf[o]] = x.d]
                /\ ofd' = [ofd EXCEPT ![o] = x.p]

\* What a read of len bytes is cut down to.
Readable(o, len) ==
    LET rest == dfd[FileOf[o]].o_fileln - ofd[o].o_bytnum IN
    IF len > rest THEN rest ELSE len

ixread(o, len) ==
    /\ Readable(o, len) > 0
    /\ \E x \in {xrw(Transfer(o, Readable(o, len)), FALSE)} : Commit(o, x)

ixwrite(o, len) == \E x \in {xrw(Transfer(o, len), TRUE)} : Commit(o, x)

\* Fseek(): ERANGE outside of the file.
xlseek(o, n) ==
    /\ n \in 0 .. dfd[FileOf[o]].o_fileln
    /\ ofd' = [ofd EXCEPT ![o] = ixlseek(o, n)]
    /\ UNCHANGED <<fat, dfd>>

\* Mutant of FreeChain: the last cluster of a chain is not freed.
FreeChainButLast(f) ==
    [c \in Clusters |-> IF c \in Range(Chain(f)) /\ ~endofchain(fat[c])
                        THEN FREECLUSTER ELSE fat[c]]

\* The file's chain is freed link by link.
FreeChain(f) ==
    [c \in Clusters |-> IF c \in Range(Chain(f)) THEN FREECLUSTER ELSE fat[c]]

\* All descriptors of f are closed, Fcreate() deletes f (ixdel) and creates
\* it anew, and it is opened again.
recreate(f) ==
    /\ fat' = FreeChain(f)
    /\ dfd' = [dfd EXCEPT ![f] = [o_strtcl |-> 0, o_fileln |-> 0]]
    /\ ofd' = [o \in Ofds |-> IF FileOf[o] = f THEN AtStart ELSE ofd[o]]

FileInit ==
    /\ fat = [c \in Clusters |-> FREECLUSTER]
    /\ dfd = [f \in Files |-> [o_strtcl |-> 0, o_fileln |-> 0]]
    /\ ofd = [o \in Ofds |-> AtStart]

FileNext ==
    \/ \E o \in Ofds, len \in 1 .. MaxRequest : ixread(o, len) \/ ixwrite(o, len)
    \/ \E o \in Ofds, n \in 0 .. m_numcl * m_clsizb : xlseek(o, n)
    \/ \E f \in Files : recreate(f)

FileSpec == FileInit /\ [][FileNext]_filevars

-------------------------------------------------------------------------------
(* Properties.                                                               *)

\* Descriptors and positions are in their ranges.
FileTypes ==
    /\ fat \in [Clusters -> Clusters \union {FREECLUSTER, ENDOFCHAIN}]
    /\ dfd \in [Files -> Dfd]
    /\ ofd \in [Ofds -> Ofd]

\* The clusters of the files are chains that do not meet, each as long as
\* its file needs, and every other cluster is free: a write that finds the
\* disk full takes no cluster that it does not use (nextcl(), xrw_recs()).
ClustersFor(len) == (len + m_clsizb - 1) \div m_clsizb

ChainsFit ==
    /\ \A f \in Files :
          /\ Len(Chain(f)) = ClustersFor(dfd[f].o_fileln)
          /\ IsInjective(Chain(f))
          /\ Chain(f) # <<>> => fat[Last(Chain(f))] = ENDOFCHAIN
    /\ \A f, g \in Files : f # g => Range(Chain(f)) \intersect Range(Chain(g)) = {}
    /\ \A c \in Clusters :
          fat[c] # FREECLUSTER => \E f \in Files : c \in Range(Chain(f))

\* Where byte pos (from 0) of file f is, by its chain in a table.
AddressOf(chain, pos) == cl2rec(chain[(pos \div m_clsizb) + 1]) * m_recsiz + (pos % m_clsizb)

\* In every state the next transfer of any open file moves the bytes of that
\* file that follow its position, in order, all it was asked for: a read to
\* the end of the file, a write until no cluster is free (xrw() with its
\* header, whole clusters in runs, and tails).
MovesRight(o, x, len, writing) ==
    LET chain == ChainFrom(x.d.o_strtcl, x.fat) IN
    /\ x.moved = [i \in 1 .. Len(x.moved) |-> AddressOf(chain, ofd[o].o_bytnum + i - 1)]
    /\ x.p.o_bytnum = ofd[o].o_bytnum + Len(x.moved)
    /\ \/ Len(x.moved) = len
       \/ writing /\ \A c \in Clusters : x.fat[c] # FREECLUSTER

TransfersRight ==
    \A o \in Ofds, len \in 1 .. MaxRequest, writing \in BOOLEAN :
        LET n == IF writing THEN len ELSE Readable(o, len) IN
        n > 0 => \E x \in {xrw(Transfer(o, n), writing)} : MovesRight(o, x, n, writing)

\* FileIO implements files without clusters (ByteFile).
File == INSTANCE ByteFile WITH
    Handles <- Ofds,
    Capacity <- m_numcl, Block <- m_clsizb, MaxMove <- MaxRequest,
    length <- [f \in Files |-> dfd[f].o_fileln],
    position <- [o \in Ofds |-> ofd[o].o_bytnum]
ByteFileSpec == File!Spec

===============================================================================
