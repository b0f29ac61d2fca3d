-------------------------- MODULE OpenFiles_proofs --------------------------
(***************************************************************************)
(* Proofs about handles and open files, for any number of programs,        *)
(* handles, descriptors, directory entries and names: what a program has   *)
(* open stays what it was opened on, descriptors are counted and given     *)
(* back by the last user only, and directory entries follow the DFDs.      *)
(*                                                                         *)
(* A call of the BDOS changes the tables (x, a record of sft, ofd, d_files *)
(* and dir) in small steps, each a lemma; what programs hold is related to *)
(* the tables by counting references.                                      *)
(***************************************************************************)
EXTENDS OpenFiles, SequenceTheorems, FiniteSetTheorems, TLAPS

Entries == [f_ofd : Ofds \cup {None, CON}, f_own : PDs \cup {None}, f_use : Nat]

Tables == [sft : [Handles -> Entries], ofd : [Ofds -> OFD \cup {None}],
           d_files : Seq(Ofds), dir : [Slots -> FCB \cup {None}]]

Used(x) == {o \in Ofds : sftofdsrch(x, o)}
Users(x, d) == {o \in Used(x) : x.ofd[o].o_dfd = d}

(* Entries of the sft are free or in use; OFDs in use are there, with      *)
(* their DFD, which is in an OFD that is there too.                        *)
EntryOK(e) == (e.f_use > 0 <=> e.f_own # None) /\ (e.f_ofd # None <=> e.f_own # None)

OfdOK(x, o) ==
  /\ x.ofd[x.ofd[o].o_dfd] # None
  /\ x.ofd[x.ofd[o].o_dfd].o_dfd = x.ofd[o].o_dfd
  /\ x.ofd[x.ofd[o].o_dfd].id = x.ofd[o].id
  /\ x.ofd[x.ofd[o].o_dfd].o_dirbyt = x.ofd[o].o_dirbyt
  /\ x.ofd[o].o_dfd # o => o \in Used(x)

Counted(x, d) ==
  /\ x.ofd[d].o_usecnt = Cardinality(Users(x, d))
  /\ Users(x, d) # {}

Sound(x) ==
  /\ x \in Tables
  /\ \A h \in Handles : EntryOK(x.sft[h])
  /\ \A o \in Used(x) : x.ofd[o] # None
  /\ \A o \in Ofds : x.ofd[o] # None => OfdOK(x, o)
  /\ \A d \in Ofds : x.ofd[d] # None /\ x.ofd[d].o_dfd = d => Counted(x, d)

(* The directory lists OFDs in use, of files that are there.               *)
Listed(x) ==
  /\ IsInjective(x.d_files)
  /\ \A o \in Range(x.d_files) :
       /\ o \in Used(x)
       /\ x.dir[x.ofd[o].o_dirbyt] # None
       /\ x.dir[x.ofd[o].o_dirbyt].id = x.ofd[o].id
  /\ \A o, p \in Range(x.d_files) :
       x.ofd[o].o_dirbyt = x.ofd[p].o_dirbyt => x.ofd[o].o_dfd = x.ofd[p].o_dfd

(* S are the entries with strays, where two DFDs of a file may be about.   *)
Saves(x, o) == x.dir[x.ofd[o].o_dirbyt].ver = Dfd(x, o).ver \/ Dfd(x, o).dirty

Follows(x, S) ==
  /\ \A o, p \in Used(x) : x.ofd[o].o_dirbyt = x.ofd[p].o_dirbyt =>
       x.ofd[o].o_dfd = x.ofd[p].o_dfd \/ x.ofd[o].o_dirbyt \in S
  /\ \A o \in Range(x.d_files) : Saves(x, o) \/ x.ofd[o].o_dirbyt \in S

Good(x, S) == Sound(x) /\ Listed(x) /\ Follows(x, S)

-----------------------------------------------------------------------------
(* Tables. *)
LEMMA Parts ==
  ASSUME NEW x \in Tables
  PROVE  /\ x.sft \in [Handles -> Entries] /\ x.ofd \in [Ofds -> OFD \cup {None}]
         /\ x.d_files \in Seq(Ofds) /\ x.dir \in [Slots -> FCB \cup {None}]
BY DEF Tables

LEMMA WithSft ==
  ASSUME NEW x \in Tables, NEW f \in [Handles -> Entries],
         NEW y, y = [x EXCEPT !.sft = f]
  PROVE  /\ y \in Tables /\ y.sft = f
         /\ y.ofd = x.ofd /\ y.d_files = x.d_files /\ y.dir = x.dir
BY DEF Tables

LEMMA WithOfd ==
  ASSUME NEW x \in Tables, NEW f \in [Ofds -> OFD \cup {None}],
         NEW y, y = [x EXCEPT !.ofd = f]
  PROVE  /\ y \in Tables /\ y.ofd = f
         /\ y.sft = x.sft /\ y.d_files = x.d_files /\ y.dir = x.dir
BY DEF Tables

LEMMA WithFiles ==
  ASSUME NEW x \in Tables, NEW f \in Seq(Ofds),
         NEW y, y = [x EXCEPT !.d_files = f]
  PROVE  /\ y \in Tables /\ y.d_files = f
         /\ y.sft = x.sft /\ y.ofd = x.ofd /\ y.dir = x.dir
BY DEF Tables

LEMMA WithDir ==
  ASSUME NEW x \in Tables, NEW f \in [Slots -> FCB \cup {None}],
         NEW y, y = [x EXCEPT !.dir = f]
  PROVE  /\ y \in Tables /\ y.dir = f
         /\ y.sft = x.sft /\ y.ofd = x.ofd /\ y.d_files = x.d_files
BY DEF Tables

LEMMA OfdFields ==
  ASSUME NEW e \in OFD
  PROVE  /\ e # None /\ e.o_dirbyt \in Slots /\ e.o_dfd \in Ofds /\ e.o_usecnt \in Nat
         /\ e.dirty \in BOOLEAN /\ e.ver \in Ids /\ e.id \in Ids
BY OpenFilesAssumption DEF OFD

LEMMA EntryFields ==
  ASSUME NEW e \in Entries
  PROVE  /\ e.f_ofd \in Ofds \cup {None, CON} /\ e.f_own \in PDs \cup {None}
         /\ e.f_use \in Nat
BY DEF Entries

LEMMA Distinct ==
  /\ None \notin Ofds /\ None \notin PDs /\ CON \notin Ofds /\ None # CON
  /\ None \notin Nat /\ CON \notin Handles /\ CON \notin Std
  /\ Handles \subseteq Nat /\ Std \subseteq Nat /\ Handles \cap Std = {}
<1>1. None \notin Int /\ CON \in Int /\ CON \notin Nat /\ Nat \subseteq Int
  BY OpenFilesAssumption DEF CON
<1>2. NUMSTD \in Nat /\ OPNFILES \in Nat
  BY OpenFilesAssumption
<1>3. Handles \subseteq Nat /\ Std \subseteq Nat /\ Handles \cap Std = {}
  BY <1>2 DEF Handles, Std
<1> QED
  BY <1>1, <1>3, OpenFilesAssumption

LEMMA HandlesFinite == IsFiniteSet(Handles) /\ IsFiniteSet(Std)
<1>1. NUMSTD \in Int /\ NUMSTD + OPNFILES - 1 \in Int /\ 0 \in Int /\ NUMSTD - 1 \in Int
  BY OpenFilesAssumption
<1> QED
  BY <1>1, FS_Interval DEF Handles, Std

(* Only finitely many OFDs are in use. *)
LEMMA UsedFinite ==
  ASSUME NEW x
  PROVE  /\ IsFiniteSet(Used(x))
         /\ \A d : IsFiniteSet(Users(x, d)) /\ Cardinality(Users(x, d)) \in Nat
<1> DEFINE I == {x.sft[h].f_ofd : h \in Handles}
<1>1. IsFiniteSet(I)
  <2> DEFINE f == [h \in Handles |-> x.sft[h].f_ofd]
  <2>1. f \in Surjection(Handles, I)
    BY DEF Surjection
  <2> HIDE DEF f, I
  <2> QED
    BY <2>1, HandlesFinite, FS_Surjection
<1>2. Used(x) \subseteq I
  BY DEF Used, sftofdsrch
<1>3. IsFiniteSet(Used(x))
  BY <1>1, <1>2, FS_Subset
<1>4. \A d : Users(x, d) \subseteq Used(x)
  BY DEF Users
<1>5. \A d : IsFiniteSet(Users(x, d))
  BY <1>3, <1>4, FS_Subset
<1> QED
  BY <1>3, <1>5, FS_CardinalityType

(* What only saving, writing or sharing changes leaves the tables sound.   *)
Alike(e, g) ==
  /\ e.o_dirbyt = g.o_dirbyt /\ e.o_dfd = g.o_dfd /\ e.o_usecnt = g.o_usecnt
  /\ e.id = g.id

AlikeOfds(x, y) ==
  \A o \in Ofds : /\ y.ofd[o] = None <=> x.ofd[o] = None
                  /\ x.ofd[o] # None => Alike(x.ofd[o], y.ofd[o])

LEMMA SoundSame ==
  ASSUME NEW x, Sound(x), NEW y \in Tables, Used(y) = Used(x),
         \A h \in Handles : EntryOK(y.sft[h]), AlikeOfds(x, y)
  PROVE  Sound(y)
<1>1. /\ x \in Tables /\ \A o \in Used(x) : x.ofd[o] # None
      /\ \A o \in Ofds : x.ofd[o] # None => OfdOK(x, o)
      /\ \A d \in Ofds : x.ofd[d] # None /\ x.ofd[d].o_dfd = d => Counted(x, d)
  BY DEF Sound
<1>2. \A o \in Ofds : x.ofd[o] # None => x.ofd[o].o_dfd \in Ofds
  BY <1>1, Parts, OfdFields
<1>3. \A o \in Used(x) : o \in Ofds
  BY DEF Used
<1>4. \A d \in Ofds : Users(y, d) = Users(x, d)
  <2> TAKE d \in Ofds
  <2>1. \A o \in Used(x) : y.ofd[o].o_dfd = x.ofd[o].o_dfd
    BY <1>1, <1>3 DEF AlikeOfds, Alike
  <2> QED
    BY <2>1 DEF Users
<1>5. ASSUME NEW o \in Ofds, y.ofd[o] # None
      PROVE  OfdOK(y, o)
  <2>1. x.ofd[o] # None /\ OfdOK(x, o) /\ x.ofd[o].o_dfd \in Ofds
    BY <1>1, <1>2, <1>5 DEF AlikeOfds
  <2>2. /\ Alike(x.ofd[o], y.ofd[o])
        /\ y.ofd[x.ofd[o].o_dfd] # None
        /\ Alike(x.ofd[x.ofd[o].o_dfd], y.ofd[x.ofd[o].o_dfd])
    BY <2>1 DEF OfdOK, AlikeOfds
  <2> QED
    BY <2>1, <2>2 DEF OfdOK, Alike
<1>6. ASSUME NEW d \in Ofds, y.ofd[d] # None, y.ofd[d].o_dfd = d
      PROVE  Counted(y, d)
  <2>1. x.ofd[d] # None /\ Alike(x.ofd[d], y.ofd[d])
    BY <1>6 DEF AlikeOfds
  <2>2. Counted(x, d)
    BY <2>1, <1>1, <1>6 DEF Alike
  <2> QED
    BY <2>1, <2>2, <1>4 DEF Counted, Alike
<1>7. \A o \in Used(y) : y.ofd[o] # None
  BY <1>1, <1>3 DEF AlikeOfds
<1> QED
  BY <1>5, <1>6, <1>7 DEF Sound

(* A DFD that is saved: the entry at its place, if it is still there, has  *)
(* what the DFD has.                                                       *)
SavedAs(x, y, o) ==
  /\ y \in Tables /\ y.sft = x.sft /\ y.d_files = x.d_files /\ AlikeOfds(x, y)
  /\ \A p \in Ofds : x.ofd[p] # None => y.ofd[p].ver = x.ofd[p].ver
  /\ \A p \in Ofds : p # Base(x, o) => y.ofd[p] = x.ofd[p]
  /\ \A s \in Slots : /\ y.dir[s] = None <=> x.dir[s] = None
                      /\ x.dir[s] # None => y.dir[s].id = x.dir[s].id
                      /\ s # x.ofd[o].o_dirbyt => y.dir[s] = x.dir[s]
  /\ LET s == x.ofd[o].o_dirbyt
     IN IF Dfd(x, o).dirty THEN x.dir[s] # None => y.dir[s].ver = Dfd(x, o).ver
        ELSE y = x

LEMMA SavedFacts ==
  ASSUME NEW x, Sound(x), NEW o \in Used(x), NEW y, y = Saved(x, o)
  PROVE  SavedAs(x, y, o)
<1> DEFINE s == x.ofd[o].o_dirbyt
           b == x.ofd[o].o_dfd
           e == x.ofd[b]
<1>1. x \in Tables /\ o \in Ofds /\ x.ofd[o] \in OFD
  BY Parts DEF Sound, Used
<1>2. /\ s \in Slots /\ b \in Ofds /\ OfdOK(x, o) /\ e # None
  BY <1>1, OfdFields DEF Sound, OfdOK
<1>3. /\ x.sft \in [Handles -> Entries] /\ x.ofd \in [Ofds -> OFD \cup {None}]
      /\ x.d_files \in Seq(Ofds) /\ x.dir \in [Slots -> FCB \cup {None}]
  BY <1>1, Parts
<1>4. e \in OFD /\ e.ver \in Ids /\ e.dirty \in BOOLEAN
  BY <1>2, <1>3, OfdFields
<1>5. CASE ~e.dirty
  <2>1. y = x
    BY <1>5 DEF Saved, Dfd, Base
  <2> QED
    BY <2>1, <1>1, <1>5 DEF SavedAs, AlikeOfds, Alike, Dfd, Base
<1>6. CASE e.dirty
  <2> DEFINE g == [e EXCEPT !.dirty = FALSE]
             f == [x.ofd EXCEPT ![b] = g]
             c == IF x.dir[s] = None THEN None ELSE [x.dir[s] EXCEPT !.ver = e.ver]
             d == [x.dir EXCEPT ![s] = c]
             z == [x EXCEPT !.dir = d]
  <2>1. y = [z EXCEPT !.ofd = f]
    BY <1>1, <1>6 DEF Saved, Dfd, Base, Tables
  <2>2. /\ g \in OFD /\ g # None /\ Alike(e, g) /\ g.ver = e.ver
    <3>1. g \in OFD /\ Alike(e, g) /\ g.ver = e.ver
      BY <1>4 DEF OFD, Alike
    <3> QED
      BY <3>1, OfdFields
  <2>3. c \in FCB \cup {None} /\ (c = None <=> x.dir[s] = None)
        /\ (x.dir[s] # None => c.id = x.dir[s].id /\ c.ver = e.ver)
    <3>1. CASE x.dir[s] = None
      BY <3>1
    <3>2. CASE x.dir[s] # None
      <4>1. x.dir[s] \in FCB
        BY <3>2, <1>2, <1>3
      <4>2. c = [x.dir[s] EXCEPT !.ver = e.ver]
        BY <3>2
      <4>3. c \in FCB /\ c.id = x.dir[s].id /\ c.ver = e.ver
        BY <4>1, <4>2, <1>4 DEF FCB
      <4>4. c # None
        BY <4>3, OpenFilesAssumption
      <4> QED
        BY <4>3, <4>4
    <3> QED
      BY <3>1, <3>2
  <2> HIDE DEF g, c
  <2>4. f \in [Ofds -> OFD \cup {None}] /\ d \in [Slots -> FCB \cup {None}]
    BY <1>2, <1>3, <2>2, <2>3
  <2>5. f[b] = g /\ \A p \in Ofds : p # b => f[p] = x.ofd[p]
    BY <1>2, <1>3
  <2>6. d[s] = c /\ \A t \in Slots : t # s => d[t] = x.dir[t]
    BY <1>2, <1>3
  <2> HIDE DEF f, d
  <2>7. /\ z \in Tables /\ z.dir = d /\ z.sft = x.sft /\ z.ofd = x.ofd
        /\ z.d_files = x.d_files
    BY <1>1, <2>4, WithDir
  <2> HIDE DEF z
  <2>8. /\ y \in Tables /\ y.ofd = f /\ y.sft = x.sft /\ y.d_files = x.d_files
        /\ y.dir = d
    BY <2>1, <2>4, <2>7, WithOfd
  <2>9. AlikeOfds(x, y)
    <3> SUFFICES ASSUME NEW p \in Ofds
                 PROVE  /\ y.ofd[p] = None <=> x.ofd[p] = None
                        /\ x.ofd[p] # None => Alike(x.ofd[p], y.ofd[p])
      BY DEF AlikeOfds
    <3>1. CASE p = b
      BY <3>1, <1>2, <2>2, <2>5, <2>8
    <3>2. CASE p # b
      BY <3>2, <2>5, <2>8 DEF Alike
    <3> QED
      BY <3>1, <3>2
  <2>10. \A p \in Ofds : x.ofd[p] # None => y.ofd[p].ver = x.ofd[p].ver
    BY <2>2, <2>5, <2>8
  <2>11. \A p \in Ofds : p # b => y.ofd[p] = x.ofd[p]
    BY <2>5, <2>8
  <2>12. \A t \in Slots : /\ y.dir[t] = None <=> x.dir[t] = None
                          /\ x.dir[t] # None => y.dir[t].id = x.dir[t].id
                          /\ t # s => y.dir[t] = x.dir[t]
    BY <2>3, <2>6, <2>8
  <2>13. x.dir[s] # None => y.dir[s].ver = e.ver
    BY <2>3, <2>6, <2>8
  <2> QED
    BY <1>6, <2>8, <2>9, <2>10, <2>11, <2>12, <2>13 DEF SavedAs, Dfd, Base
<1> QED
  BY <1>4, <1>5, <1>6

-----------------------------------------------------------------------------
(* The list of the OFDs of a directory. *)
Lists == {s \in Seq(Ofds) : IsInjective(s)}

LEMMA ListFacts ==
  ASSUME NEW s \in Lists
  PROVE  /\ s \in Seq(Ofds) /\ Len(s) \in Nat /\ DOMAIN s = 1 .. Len(s)
         /\ \A i \in 1 .. Len(s) : s[i] \in Ofds
         /\ \A i, j \in 1 .. Len(s) : s[i] = s[j] => i = j
         /\ \A o : o \in Range(s) <=> \E i \in 1 .. Len(s) : o = s[i]
         /\ Range(s) \subseteq Ofds
<1>1. s \in Seq(Ofds) /\ IsInjective(s)
  BY DEF Lists
<1>2. /\ Len(s) \in Nat /\ DOMAIN s = 1 .. Len(s)
      /\ \A i \in 1 .. Len(s) : s[i] \in Ofds
  BY <1>1
<1>3. \A i, j \in 1 .. Len(s) : s[i] = s[j] => i = j
  BY <1>1, <1>2 DEF IsInjective
<1>4. \A o : o \in Range(s) <=> \E i \in 1 .. Len(s) : o = s[i]
  BY <1>2 DEF Range
<1> QED
  BY <1>1, <1>2, <1>3, <1>4

LEMMA PutFirst ==
  ASSUME NEW s \in Lists, NEW o \in Ofds \ Range(s)
  PROVE  <<o>> \o s \in Lists /\ Range(<<o>> \o s) = Range(s) \cup {o}
<1> DEFINE n == Len(s)
           u == <<o>> \o s
<1>1. /\ s \in Seq(Ofds) /\ n \in Nat /\ DOMAIN s = 1 .. n
      /\ \A i, j \in 1 .. n : s[i] = s[j] => i = j
      /\ \A p : p \in Range(s) <=> \E i \in 1 .. n : p = s[i]
  BY ListFacts
<1>2. /\ u \in Seq(Ofds) /\ Len(u) = n + 1 /\ u[1] = o /\ DOMAIN u = 1 .. n + 1
      /\ \A i \in 1 .. n : u[1 + i] = s[i]
  <2>1. /\ <<o>> \in Seq(Ofds) /\ Len(<<o>>) = 1 /\ <<o>>[1] = o
    OBVIOUS
  <2>2. /\ u \in Seq(Ofds) /\ Len(u) = 1 + n /\ u[1] = o
        /\ \A i \in 1 .. n : u[1 + i] = s[i]
    BY <2>1, <1>1
  <2> HIDE DEF u, n
  <2>3. Len(u) = n + 1 /\ Len(u) \in Nat
    BY <2>2, <1>1
  <2>4. DOMAIN u = 1 .. Len(u)
    BY <2>2
  <2> QED
    BY <2>2, <2>3, <2>4
<1>3. \A i \in 1 .. n : s[i] # o
  BY <1>1
<1> HIDE DEF u, n
<1>4. \A i \in 1 .. n + 1 : i = 1 \/ (i - 1 \in 1 .. n /\ u[i] = s[i - 1])
  <2> TAKE i \in 1 .. n + 1
  <2>1. CASE i # 1
    <3>1. i - 1 \in 1 .. n /\ 1 + (i - 1) = i
      BY <2>1, <1>1
    <3> QED
      BY <3>1, <1>2
  <2> QED
    BY <2>1
<1>5. ASSUME NEW i \in 1 .. n + 1, NEW j \in 1 .. n + 1, u[i] = u[j]
      PROVE  i = j
  <2>1. i \in Int /\ j \in Int
    OBVIOUS
  <2>2. CASE i = 1 \/ j = 1
    BY <2>2, <1>2, <1>3, <1>4, <1>5
  <2>3. CASE i # 1 /\ j # 1
    <3>1. i - 1 = j - 1
      BY <2>3, <1>1, <1>4, <1>5
    <3> QED
      BY <3>1, <2>1
  <2> QED
    BY <2>2, <2>3
<1>6. u \in Lists
  BY <1>2, <1>5 DEF Lists, IsInjective
<1>7. ASSUME NEW p
      PROVE  p \in Range(u) <=> p \in Range(s) \/ p = o
  <2>1. p \in Range(u) <=> \E i \in 1 .. n + 1 : p = u[i]
    BY <1>2 DEF Range
  <2>2. ASSUME p \in Range(s)
        PROVE  p \in Range(u)
    <3>1. PICK i \in 1 .. n : p = s[i]
      BY <2>2, <1>1
    <3>2. 1 + i \in 1 .. n + 1
      BY <1>1
    <3> QED
      BY <3>1, <3>2, <2>1, <1>2
  <2>3. ASSUME p \in Range(u), p # o
        PROVE  p \in Range(s)
    <3>1. PICK i \in 1 .. n + 1 : p = u[i]
      BY <2>1, <2>3
    <3> QED
      BY <3>1, <2>3, <1>1, <1>2, <1>4
  <2>4. o \in Range(u)
    <3>1. 1 \in 1 .. n + 1
      BY <1>1
    <3> QED
      BY <3>1, <1>2 DEF Range
  <2> QED
    BY <2>2, <2>3, <2>4
<1> QED
  BY <1>6, <1>7 DEF u

LEMMA WithoutFacts ==
  ASSUME NEW s \in Lists, NEW o
  PROVE  Without(s, o) \in Lists /\ Range(Without(s, o)) = Range(s) \ {o}
<1>0. CASE o \notin Range(s)
  <2>1. Without(s, o) = s
    BY <1>0 DEF Without
  <2> QED
    BY <2>1, <1>0
<1>00. CASE o \in Range(s)
  <2> DEFINE n == Len(s)
             k == CHOOSE i \in DOMAIN s : s[i] = o
             a == SubSeq(s, 1, k - 1)
             b == SubSeq(s, k + 1, n)
             u == Without(s, o)
  <2>1. /\ s \in Seq(Ofds) /\ n \in Nat /\ DOMAIN s = 1 .. n
        /\ \A i, j \in 1 .. n : s[i] = s[j] => i = j
        /\ \A p : p \in Range(s) <=> \E i \in 1 .. n : p = s[i]
    BY ListFacts
  <2>2. k \in 1 .. n /\ s[k] = o
    BY <1>00, <2>1
  <2>11. u = RemoveAt(s, k)
    BY <1>00 DEF Without
  <2> HIDE DEF k
  <2>3. u = a \o b
    BY <2>11 DEF RemoveAt
  <2>4. /\ a \in Seq(Ofds) /\ Len(a) = k - 1 /\ \A i \in 1 .. k - 1 : a[i] = s[i]
        /\ b \in Seq(Ofds) /\ Len(b) = n - k /\ \A i \in 1 .. n - k : b[i] = s[k + i]
    <3>1. s \in Seq(Ofds) /\ n \in Nat /\ k \in 1 .. n
      BY <2>1, <2>2
    <3>2. a \in Seq(Ofds) /\ Len(a) = k - 1 /\ \A i \in 1 .. k - 1 : a[i] = s[i]
      BY <3>1
    <3>3. b \in Seq(Ofds) /\ Len(b) = n - k /\ \A i \in 1 .. n - k : b[i] = s[k + i]
      BY <3>1
    <3> QED
      BY <3>2, <3>3
  <2> HIDE DEF a, b, u
  <2>5. /\ u \in Seq(Ofds) /\ Len(u) = n - 1
        /\ \A i \in 1 .. k - 1 : u[i] = s[i]
        /\ \A i \in 1 .. n - k : u[(k - 1) + i] = s[k + i]
    <3>1. /\ a \o b \in Seq(Ofds) /\ Len(a \o b) = Len(a) + Len(b)
          /\ \A i \in 1 .. Len(a) : (a \o b)[i] = a[i]
          /\ \A i \in 1 .. Len(b) : (a \o b)[Len(a) + i] = b[i]
      <4>1. a \in Seq(Ofds) /\ b \in Seq(Ofds)
        BY <2>4
      <4> QED
        BY <4>1
    <3>2. (k - 1) + (n - k) = n - 1
      BY <2>1, <2>2
    <3> HIDE DEF n
    <3>3. u \in Seq(Ofds) /\ Len(u) = n - 1
      BY <3>1, <3>2, <2>3, <2>4
    <3>4. \A i \in 1 .. k - 1 : u[i] = s[i]
      BY <3>1, <2>3, <2>4
    <3>5. \A i \in 1 .. n - k : u[(k - 1) + i] = s[k + i]
      BY <3>1, <2>3, <2>4
    <3> QED
      BY <3>3, <3>4, <3>5
  <2> HIDE DEF n
  <2>6. DOMAIN u = 1 .. n - 1
    BY <2>5
  <2>7. ASSUME NEW i \in 1 .. n - 1
        PROVE  \/ i < k /\ i \in 1 .. n /\ u[i] = s[i]
               \/ i >= k /\ i + 1 \in 1 .. n /\ u[i] = s[i + 1]
    <3>1. CASE i < k
      <4>1. i \in 1 .. k - 1 /\ i \in 1 .. n
        BY <3>1, <2>1, <2>2
      <4> QED
        BY <4>1, <3>1, <2>5
    <3>2. CASE i >= k
      <4>1. /\ i - (k - 1) \in 1 .. n - k /\ i + 1 \in 1 .. n
            /\ (k - 1) + (i - (k - 1)) = i /\ k + (i - (k - 1)) = i + 1
        BY <3>2, <2>1, <2>2
      <4> QED
        BY <4>1, <3>2, <2>5
    <3> QED
      BY <3>1, <3>2, <2>2
  <2>8. ASSUME NEW i \in 1 .. n - 1, NEW j \in 1 .. n - 1, u[i] = u[j]
        PROVE  i = j
    <3>1. /\ i \in Int /\ j \in Int /\ k \in Int
          /\ \/ i < k /\ i \in 1 .. n /\ u[i] = s[i]
             \/ i >= k /\ i + 1 \in 1 .. n /\ u[i] = s[i + 1]
          /\ \/ j < k /\ j \in 1 .. n /\ u[j] = s[j]
             \/ j >= k /\ j + 1 \in 1 .. n /\ u[j] = s[j + 1]
      BY <2>2, <2>7
    <3> QED
      BY <3>1, <2>1, <2>8
  <2>9. u \in Lists
    BY <2>5, <2>6, <2>8 DEF Lists, IsInjective
  <2>10. ASSUME NEW x
         PROVE  x \in Range(u) <=> x \in Range(s) /\ x # o
    <3>1. x \in Range(u) <=> \E i \in 1 .. n - 1 : x = u[i]
      BY <2>6 DEF Range
    <3>2. ASSUME NEW i \in 1 .. n - 1, x = u[i]
          PROVE  x \in Range(s) /\ x # o
      <4>1. CASE i < k /\ i \in 1 .. n /\ u[i] = s[i]
        <5>1. i # k
          BY <4>1, <2>2
        <5> QED
          BY <4>1, <5>1, <3>2, <2>1, <2>2
      <4>2. CASE i >= k /\ i + 1 \in 1 .. n /\ u[i] = s[i + 1]
        <5>1. i + 1 # k
          BY <4>2, <2>2
        <5> QED
          BY <4>2, <5>1, <3>2, <2>1, <2>2
      <4> QED
        BY <4>1, <4>2, <2>7
    <3>3. ASSUME NEW i \in 1 .. n, x = s[i], x # o
          PROVE  \E j \in 1 .. n - 1 : x = u[j]
      <4>1. CASE i < k
        <5>1. i \in 1 .. n - 1 /\ i \in 1 .. k - 1
          BY <4>1, <2>1, <2>2
        <5> QED
          BY <5>1, <3>3, <2>5
      <4>2. CASE i > k
        <5>1. i - 1 \in 1 .. n - 1 /\ i - k \in 1 .. n - k
              /\ (k - 1) + (i - k) = i - 1 /\ k + (i - k) = i
          BY <4>2, <2>1, <2>2
        <5> QED
          BY <5>1, <3>3, <2>5
      <4>3. i # k /\ i \in Int /\ k \in Int
        BY <3>3, <2>2
      <4> QED
        BY <4>1, <4>2, <4>3
    <3> QED
      BY <3>1, <3>2, <3>3, <2>1
  <2> QED
    BY <2>9, <2>10 DEF u
<1> QED
  BY <1>0, <1>00

-----------------------------------------------------------------------------
(* Closing an OFD: it is saved, and off the list.                          *)

LEMMA GoodParts ==
  ASSUME NEW x, NEW S, Good(x, S)
  PROVE  /\ x \in Tables /\ Sound(x) /\ Listed(x) /\ Follows(x, S) /\ x.d_files \in Lists
         /\ x.sft \in [Handles -> Entries] /\ x.ofd \in [Ofds -> OFD \cup {None}]
         /\ x.dir \in [Slots -> FCB \cup {None}]
BY Parts DEF Good, Sound, Listed, Lists

(* An OFD that is there, and its DFD. *)
LEMMA OfdParts ==
  ASSUME NEW x, Sound(x), NEW o \in Ofds, x.ofd[o] # None
  PROVE  /\ x.ofd[o] \in OFD /\ x.ofd[o].o_dirbyt \in Slots /\ x.ofd[o].o_dfd \in Ofds
         /\ OfdOK(x, o)
         /\ x.ofd[x.ofd[o].o_dfd] \in OFD
<1>1. x.ofd \in [Ofds -> OFD \cup {None}] /\ OfdOK(x, o)
  BY Parts DEF Sound
<1>2. x.ofd[o] \in OFD
  BY <1>1
<1>3. x.ofd[o].o_dirbyt \in Slots /\ x.ofd[o].o_dfd \in Ofds
  BY <1>2, OfdFields
<1>4. x.ofd[x.ofd[o].o_dfd] # None
  BY <1>1 DEF OfdOK
<1> QED
  BY <1>1, <1>2, <1>3, <1>4

LEMMA UsedParts ==
  ASSUME NEW x, Sound(x), NEW o \in Used(x)
  PROVE  o \in Ofds /\ x.ofd[o] # None
BY DEF Sound, Used

OfdClosed(x, y, o) ==
  /\ y \in Tables /\ y.sft = x.sft /\ AlikeOfds(x, y)
  /\ y.d_files \in Lists /\ Range(y.d_files) = Range(x.d_files) \ {o}
  /\ \A s \in Slots : /\ y.dir[s] = None <=> x.dir[s] = None
                      /\ x.dir[s] # None => y.dir[s].id = x.dir[s].id

LEMMA SavesKept ==
  ASSUME NEW x, NEW S, Good(x, S), NEW o \in Used(x), NEW y, SavedAs(x, y, o),
         NEW q \in Range(x.d_files)
  PROVE  Saves(y, q) \/ x.ofd[q].o_dirbyt \in S
<1> DEFINE s == x.ofd[o].o_dirbyt
           t == x.ofd[q].o_dirbyt
           b == x.ofd[o].o_dfd
           c == x.ofd[q].o_dfd
<1>1. q \in Used(x) /\ x.dir[t] # None
  BY DEF Good, Listed
<1>2. Saves(x, q) \/ t \in S
  BY DEF Good, Follows
<1>3. /\ q \in Ofds /\ x.ofd[q] # None /\ t \in Slots /\ c \in Ofds /\ OfdOK(x, q)
      /\ o \in Ofds /\ x.ofd[o] # None /\ s \in Slots /\ b \in Ofds /\ OfdOK(x, o)
  BY <1>1, UsedParts, OfdParts DEF Good
<1>4. /\ y.ofd[q].o_dirbyt = t /\ y.ofd[q].o_dfd = c
  BY <1>3 DEF SavedAs, AlikeOfds, Alike
<1>5. CASE ~x.ofd[b].dirty
  BY <1>5, <1>2 DEF SavedAs, Dfd, Base
<1>6. CASE x.ofd[b].dirty /\ s = t /\ t \notin S
  <2>1. b = c
    BY <1>1, <1>6 DEF Good, Follows
  <2>2. y.dir[t].ver = x.ofd[b].ver
    BY <1>1, <1>6 DEF SavedAs, Dfd, Base
  <2>3. y.ofd[b].ver = x.ofd[b].ver
    BY <1>3 DEF SavedAs, OfdOK
  <2> QED
    BY <2>1, <2>2, <2>3, <1>4 DEF Saves, Dfd, Base
<1>7. CASE s # t /\ t \notin S
  <2>1. b # c
    BY <1>3, <1>7 DEF OfdOK
  <2>2. y.ofd[c] = x.ofd[c] /\ y.dir[t] = x.dir[t]
    BY <2>1, <1>3, <1>7 DEF SavedAs, Base
  <2> QED
    BY <2>2, <1>2, <1>4, <1>7 DEF Saves, Dfd, Base
<1> QED
  BY <1>5, <1>6, <1>7

LEMMA OfdCloseGood ==
  ASSUME NEW x, NEW S, Good(x, S), NEW o \in Used(x), NEW y, y = ixclose(x, o)
  PROVE  Good(y, S) /\ OfdClosed(x, y, o)
<1> DEFINE z == Saved(x, o)
           l == Without(x.d_files, o)
<1>1. SavedAs(x, z, o)
  BY SavedFacts DEF Good
<1>2. /\ z \in Tables /\ z.sft = x.sft /\ z.d_files = x.d_files /\ AlikeOfds(x, z)
      /\ \A s \in Slots : /\ z.dir[s] = None <=> x.dir[s] = None
                          /\ x.dir[s] # None => z.dir[s].id = x.dir[s].id
  BY <1>1 DEF SavedAs
<1>3. x.d_files \in Lists
  BY GoodParts
<1>4. l \in Lists /\ Range(l) = Range(x.d_files) \ {o}
  BY <1>3, WithoutFacts
<1>5. y = [z EXCEPT !.d_files = l]
  BY <1>2 DEF ixclose, Tables
<1>6. l \in Seq(Ofds)
  BY <1>4 DEF Lists
<1> HIDE DEF z, l
<1>7. /\ y \in Tables /\ y.d_files = l /\ y.sft = z.sft /\ y.ofd = z.ofd /\ y.dir = z.dir
  BY <1>2, <1>5, <1>6, WithFiles
<1>8. AlikeOfds(x, y)
  BY <1>2, <1>7 DEF AlikeOfds
<1>9. OfdClosed(x, y, o)
  BY <1>2, <1>4, <1>7, <1>8 DEF OfdClosed
<1>10. Used(y) = Used(x)
  BY <1>2, <1>7 DEF Used, sftofdsrch
<1>11. Sound(y)
  <2>1. \A h \in Handles : EntryOK(y.sft[h])
    BY <1>2, <1>7 DEF Good, Sound
  <2> QED
    BY <2>1, <1>7, <1>8, <1>10, SoundSame DEF Good
<1>12. \A q \in Used(x) : /\ q \in Ofds /\ x.ofd[q].o_dirbyt \in Slots
                          /\ y.ofd[q].o_dirbyt = x.ofd[q].o_dirbyt
                          /\ y.ofd[q].o_dfd = x.ofd[q].o_dfd /\ y.ofd[q].id = x.ofd[q].id
  <2> TAKE q \in Used(x)
  <2>1. q \in Ofds /\ x.ofd[q] # None /\ x.ofd[q].o_dirbyt \in Slots
    BY UsedParts, OfdParts DEF Good
  <2> QED
    BY <2>1, <1>8 DEF AlikeOfds, Alike
<1>13. \A q \in Range(y.d_files) : q \in Range(x.d_files) /\ q \in Used(x)
  BY <1>4, <1>7 DEF Good, Listed
<1>14. Listed(y)
  <2>1. IsInjective(y.d_files)
    BY <1>4, <1>7 DEF Lists
  <2>2. ASSUME NEW q \in Range(y.d_files)
        PROVE  /\ q \in Used(y) /\ y.dir[y.ofd[q].o_dirbyt] # None
               /\ y.dir[y.ofd[q].o_dirbyt].id = y.ofd[q].id
    <3>1. q \in Range(x.d_files) /\ q \in Used(x)
      BY <1>13
    <3>2. x.dir[x.ofd[q].o_dirbyt] # None /\ x.dir[x.ofd[q].o_dirbyt].id = x.ofd[q].id
      BY <3>1 DEF Good, Listed
    <3> QED
      BY <3>1, <3>2, <1>2, <1>7, <1>10, <1>12
  <2>3. ASSUME NEW q \in Range(y.d_files), NEW p \in Range(y.d_files),
               y.ofd[q].o_dirbyt = y.ofd[p].o_dirbyt
        PROVE  y.ofd[q].o_dfd = y.ofd[p].o_dfd
    <3>1. /\ q \in Range(x.d_files) /\ q \in Used(x)
          /\ p \in Range(x.d_files) /\ p \in Used(x)
      BY <1>13
    <3> QED
      BY <3>1, <2>3, <1>12 DEF Good, Listed
  <2> QED
    BY <2>1, <2>2, <2>3 DEF Listed
<1>15. Follows(y, S)
  <2>1. ASSUME NEW q \in Used(y), NEW p \in Used(y), y.ofd[q].o_dirbyt = y.ofd[p].o_dirbyt
        PROVE  y.ofd[q].o_dfd = y.ofd[p].o_dfd \/ y.ofd[q].o_dirbyt \in S
    BY <2>1, <1>10, <1>12 DEF Good, Follows
  <2>2. ASSUME NEW q \in Range(y.d_files)
        PROVE  Saves(y, q) \/ y.ofd[q].o_dirbyt \in S
    <3>1. q \in Range(x.d_files) /\ q \in Used(x)
      BY <1>13
    <3>2. Saves(z, q) \/ x.ofd[q].o_dirbyt \in S
      BY <3>1, <1>1, SavesKept
    <3> QED
      BY <3>1, <3>2, <1>7, <1>12 DEF Saves, Dfd, Base
  <2> QED
    BY <2>1, <2>2 DEF Follows
<1> QED
  BY <1>9, <1>11, <1>14, <1>15 DEF Good

-----------------------------------------------------------------------------
(* Clearing an entry of the sft. *)

(* The OFDs that are there are those that were, or some of them. *)
SameFiles(x, y) ==
  \A o \in Used(y) : o \in Used(x) /\ y.ofd[o].id = x.ofd[o].id

EntryCleared(x, y, h) ==
  /\ y.sft = [x.sft EXCEPT ![h] = NoEntry]
  /\ y.d_files = x.d_files /\ y.dir = x.dir
  /\ SameFiles(x, y)

LEMMA NoEntryFacts ==
  NoEntry \in Entries /\ EntryOK(NoEntry) /\ NoEntry.f_ofd = None
BY DEF NoEntry, Entries, EntryOK

LEMMA ClearFacts ==
  ASSUME NEW x \in Tables, NEW h \in Handles, NEW z, z = Clear(x, h)
  PROVE  /\ z \in Tables /\ z.sft = [x.sft EXCEPT ![h] = NoEntry]
         /\ z.ofd = x.ofd /\ z.d_files = x.d_files /\ z.dir = x.dir
         /\ z.sft[h] = NoEntry /\ \A g \in Handles : g # h => z.sft[g] = x.sft[g]
         /\ Used(z) = {o \in Used(x) : \E g \in Handles \ {h} : x.sft[g].f_ofd = o}
<1> DEFINE f == [x.sft EXCEPT ![h] = NoEntry]
<1>1. x.sft \in [Handles -> Entries]
  BY Parts
<1>2. f \in [Handles -> Entries]
  BY <1>1, NoEntryFacts
<1>3. z = [x EXCEPT !.sft = f]
  BY DEF Clear, Tables
<1>4. f[h] = NoEntry /\ \A g \in Handles : g # h => f[g] = x.sft[g]
  BY <1>1
<1> HIDE DEF f
<1>5. /\ z \in Tables /\ z.sft = f
      /\ z.ofd = x.ofd /\ z.d_files = x.d_files /\ z.dir = x.dir
  BY <1>2, <1>3, WithSft
<1>6. Used(z) = {o \in Used(x) : \E g \in Handles \ {h} : x.sft[g].f_ofd = o}
  <2>1. ASSUME NEW o \in Ofds, NEW g \in Handles, f[g].f_ofd = o
        PROVE  g # h /\ x.sft[g].f_ofd = o
    <3>1. o # None
      BY Distinct
    <3> QED
      BY <3>1, <2>1, <1>4, NoEntryFacts
  <2> QED
    BY <2>1, <1>4, <1>5 DEF Used, sftofdsrch
<1> QED
  BY <1>4, <1>5, <1>6 DEF f

(* Another entry has the OFD. *)
LEMMA ClearShared ==
  ASSUME NEW x, NEW S, Good(x, S), NEW h \in Handles, NEW z, z = Clear(x, h),
         Used(z) = Used(x)
  PROVE  Good(z, S) /\ EntryCleared(x, z, h)
<1>1. x \in Tables /\ Sound(x)
  BY GoodParts
<1>2. /\ z \in Tables /\ z.sft = [x.sft EXCEPT ![h] = NoEntry]
      /\ z.ofd = x.ofd /\ z.d_files = x.d_files /\ z.dir = x.dir
      /\ z.sft[h] = NoEntry /\ \A g \in Handles : g # h => z.sft[g] = x.sft[g]
  BY <1>1, ClearFacts
<1>3. \A g \in Handles : EntryOK(z.sft[g])
  BY <1>1, <1>2, NoEntryFacts DEF Sound
<1>4. AlikeOfds(x, z)
  BY <1>2 DEF AlikeOfds, Alike
<1>5. Sound(z)
  BY <1>1, <1>2, <1>3, <1>4, SoundSame
<1>6. Listed(z) /\ Follows(z, S)
  BY <1>2 DEF Good, Listed, Follows, Saves, Dfd, Base
<1>7. EntryCleared(x, z, h)
  BY <1>2 DEF EntryCleared, SameFiles
<1> QED
  BY <1>5, <1>6, <1>7 DEF Good

(* What is left of an OFD when its DFD has one user less. *)
LEMMA FreedFacts ==
  ASSUME NEW x, Sound(x), NEW o \in Used(x), NEW z \in Tables, z.ofd = x.ofd,
         NEW d, d = x.ofd[o].o_dfd, NEW y, y = Freed(Unused(z, o), o, Base(z, o))
  PROVE  /\ y \in Tables /\ y.sft = z.sft /\ y.d_files = z.d_files /\ y.dir = z.dir
         /\ \A p \in Ofds : p # o /\ p # d => y.ofd[p] = x.ofd[p]
         /\ o # d => y.ofd[o] = None
         /\ Cardinality(Users(x, d)) = 1 => y.ofd[d] = None
         /\ Cardinality(Users(x, d)) # 1 =>
              /\ y.ofd[d] # None /\ y.ofd[d].o_usecnt = Cardinality(Users(x, d)) - 1
              /\ y.ofd[d].o_dfd = d
              /\ \A e \in {"o_dirbyt", "id", "ver", "dirty"} : y.ofd[d][e] = x.ofd[d][e]
<1> DEFINE n == Cardinality(Users(x, d))
           v == x.ofd[d]
           w == [v EXCEPT !.o_usecnt = n - 1]
           f == [x.ofd EXCEPT ![d] = w]
           u == Unused(z, o)
           g == [p \in Ofds |-> IF (p = o /\ o # d) \/ (p = d /\ u.ofd[d].o_usecnt = 0)
                                THEN None ELSE u.ofd[p]]
<1>1. o \in Ofds /\ x.ofd[o] # None /\ OfdOK(x, o) /\ d \in Ofds
  BY UsedParts, OfdParts
<1>2. v \in OFD /\ v # None /\ v.o_dfd = d
  BY <1>1, OfdParts DEF OfdOK
<1>3. v.o_usecnt = n /\ n \in Nat /\ n # 0
  <2>1. Counted(x, d)
    BY <1>1, <1>2 DEF Sound
  <2>2. IsFiniteSet(Users(x, d)) /\ n \in Nat
    BY UsedFinite
  <2>3. n # 0
    BY <2>1, <2>2, FS_EmptySet DEF Counted
  <2> QED
    BY <2>1, <2>2, <2>3 DEF Counted
<1>4. w \in OFD /\ w # None
  <2>1. w \in OFD
    BY <1>2, <1>3 DEF OFD
  <2> QED
    BY <2>1, OfdFields
<1>5. /\ w.o_usecnt = n - 1 /\ w.o_dfd = d
      /\ \A e \in {"o_dirbyt", "id", "ver", "dirty"} : w[e] = v[e]
  BY <1>2, <1>3 DEF OFD
<1> HIDE DEF w, n
<1>6. /\ x.ofd \in [Ofds -> OFD \cup {None}] /\ f \in [Ofds -> OFD \cup {None}]
      /\ f[d] = w /\ \A p \in Ofds : p # d => f[p] = x.ofd[p]
  BY <1>1, <1>4, Parts DEF Sound
<1>7. u = [z EXCEPT !.ofd = f]
  <2>1. (IF v.o_usecnt > 0 THEN v.o_usecnt - 1 ELSE 0) = n - 1
    BY <1>3
  <2>2. u = [z EXCEPT !.ofd[d] = [v EXCEPT !.o_usecnt = n - 1]]
    BY <2>1, <1>1, <1>2, <1>6 DEF Unused, Base, OFD, Tables
  <2> QED
    BY <2>2 DEF w, n, Tables
<1> HIDE DEF u, f
<1>8. u \in Tables /\ u.ofd = f /\ u.sft = z.sft /\ u.d_files = z.d_files /\ u.dir = z.dir
  BY <1>6, <1>7, WithOfd
<1>9. y = [u EXCEPT !.ofd = g]
  <2>1. Base(z, o) = d
    BY DEF Base
  <2> QED
    BY <2>1 DEF Freed, u
<1>10. /\ g \in [Ofds -> OFD \cup {None}]
       /\ \A p \in Ofds : p # o /\ p # d => g[p] = f[p]
       /\ o # d => g[o] = None
       /\ n = 1 => g[d] = None
       /\ n # 1 => g[d] = w
  <2>1. u.ofd[d].o_usecnt = n - 1
    BY <1>5, <1>6, <1>8
  <2>2. n - 1 = 0 <=> n = 1
    BY <1>3
  <2> QED
    BY <2>1, <2>2, <1>1, <1>6, <1>8
<1> HIDE DEF g
<1>11. y \in Tables /\ y.ofd = g /\ y.sft = u.sft /\ y.d_files = u.d_files /\ y.dir = u.dir
  BY <1>8, <1>9, <1>10, WithOfd
<1>12. /\ y.sft = z.sft /\ y.d_files = z.d_files /\ y.dir = z.dir
       /\ \A p \in Ofds : p # o /\ p # d => y.ofd[p] = x.ofd[p]
       /\ o # d => y.ofd[o] = None
       /\ n = 1 => y.ofd[d] = None
       /\ n # 1 => y.ofd[d] = w
  BY <1>6, <1>8, <1>10, <1>11
<1> QED
  BY <1>4, <1>5, <1>11, <1>12 DEF n

LEMMA DropGood ==
  ASSUME NEW x, NEW S, Good(x, S), NEW h \in Handles, NEW o \in Used(x) \ Range(x.d_files),
         NEW z, z = Clear(x, h), Used(z) = Used(x) \ {o},
         NEW y, y = Freed(Unused(z, o), o, Base(z, o))
  PROVE  Good(y, S) /\ EntryCleared(x, y, h)
<1> DEFINE d == x.ofd[o].o_dfd
           n == Cardinality(Users(x, d))
<1>1. x \in Tables /\ Sound(x) /\ Listed(x) /\ Follows(x, S)
  BY GoodParts
<1>2. /\ z \in Tables /\ z.sft = [x.sft EXCEPT ![h] = NoEntry]
      /\ z.ofd = x.ofd /\ z.d_files = x.d_files /\ z.dir = x.dir
      /\ z.sft[h] = NoEntry /\ \A g \in Handles : g # h => z.sft[g] = x.sft[g]
  BY <1>1, ClearFacts
<1>3. /\ y \in Tables /\ y.sft = z.sft /\ y.d_files = z.d_files /\ y.dir = z.dir
      /\ \A p \in Ofds : p # o /\ p # d => y.ofd[p] = x.ofd[p]
      /\ o # d => y.ofd[o] = None
      /\ n = 1 => y.ofd[d] = None
      /\ n # 1 => /\ y.ofd[d] # None /\ y.ofd[d].o_usecnt = n - 1 /\ y.ofd[d].o_dfd = d
                  /\ \A e \in {"o_dirbyt", "id", "ver", "dirty"} : y.ofd[d][e] = x.ofd[d][e]
  BY <1>1, <1>2, FreedFacts
<1>4. /\ o \in Ofds /\ x.ofd[o] # None /\ OfdOK(x, o) /\ d \in Ofds
      /\ x.ofd[d] # None /\ x.ofd[d].o_dfd = d
  BY <1>1, UsedParts, OfdParts DEF OfdOK
<1>5. Used(y) = Used(x) \ {o}
  BY <1>3 DEF Used, sftofdsrch
<1>6. o \in Users(x, d) /\ IsFiniteSet(Users(x, d)) /\ n \in Nat
  BY UsedFinite DEF Users
<1>7. n = 1 => Users(x, d) = {o}
  BY <1>6, FS_Singleton
<1> HIDE DEF n, d
<1>8. ASSUME NEW p \in Ofds, y.ofd[p] # None
      PROVE  /\ x.ofd[p] # None
             /\ y.ofd[p].o_dfd = x.ofd[p].o_dfd /\ y.ofd[p].o_dirbyt = x.ofd[p].o_dirbyt
             /\ y.ofd[p].id = x.ofd[p].id /\ y.ofd[p].ver = x.ofd[p].ver
             /\ y.ofd[p].dirty = x.ofd[p].dirty
             /\ p = o => o = d
             /\ p = d => n # 1
  <2>1. CASE p # o /\ p # d
    BY <2>1, <1>3, <1>8
  <2>2. CASE p = d
    <3>1. n # 1
      BY <2>2, <1>3, <1>8
    <3>2. \A e \in {"o_dirbyt", "id", "ver", "dirty"} : y.ofd[d][e] = x.ofd[d][e]
      BY <3>1, <1>3
    <3>3. /\ y.ofd[d].o_dirbyt = x.ofd[d].o_dirbyt /\ y.ofd[d].id = x.ofd[d].id
          /\ y.ofd[d].ver = x.ofd[d].ver /\ y.ofd[d].dirty = x.ofd[d].dirty
      BY <3>2
    <3> QED
      BY <2>2, <3>1, <3>3, <1>3, <1>4
  <2>3. CASE p = o /\ p # d
    BY <2>3, <1>3, <1>8
  <2> QED
    BY <2>1, <2>2, <2>3
<1>9. ASSUME NEW p \in Used(y)
      PROVE  p \in Ofds /\ p \in Used(x) /\ p # o /\ y.ofd[p] # None
  <2>1. p \in Used(x) /\ p # o /\ p \in Ofds /\ x.ofd[p] # None
    BY <1>1, <1>5, UsedParts
  <2>2. CASE p = d
    <3>1. d \in Users(x, d)
      BY <2>1, <2>2, <1>4 DEF Users
    <3>2. n # 1
      BY <3>1, <2>1, <2>2, <1>7
    <3> QED
      BY <3>2, <2>1, <2>2, <1>3
  <2>3. CASE p # d
    BY <2>1, <2>3, <1>3
  <2> QED
    BY <2>1, <2>2, <2>3
<1>10. ASSUME NEW p \in Ofds, y.ofd[p] # None
       PROVE  OfdOK(y, p)
  <2> DEFINE b == x.ofd[p].o_dfd
  <2>1. /\ x.ofd[p] # None /\ y.ofd[p].o_dfd = b
        /\ y.ofd[p].o_dirbyt = x.ofd[p].o_dirbyt /\ y.ofd[p].id = x.ofd[p].id
        /\ p = o => o = d
        /\ p = d => n # 1
    BY <1>8, <1>10
  <2>2. OfdOK(x, p) /\ b \in Ofds
    BY <1>1, <2>1, OfdParts
  <2>3. /\ x.ofd[b] # None /\ x.ofd[b].o_dfd = b /\ x.ofd[b].id = x.ofd[p].id
        /\ x.ofd[b].o_dirbyt = x.ofd[p].o_dirbyt
        /\ b # p => p \in Used(x)
    BY <2>2 DEF OfdOK
  <2> HIDE DEF b
  <2>4. y.ofd[b] # None
    <3>1. CASE b = d
      <4>1. n # 1
        <5> SUFFICES ASSUME n = 1
                     PROVE  FALSE
          OBVIOUS
        <5>1. p # d /\ p \in Used(x)
          BY <2>1, <2>3, <3>1
        <5>2. p \in Users(x, d)
          BY <5>1, <3>1 DEF Users, b
        <5>3. p = o
          BY <5>2, <1>7
        <5> QED
          BY <5>1, <5>3, <2>1
      <4> QED
        BY <4>1, <3>1, <1>3
    <3>2. CASE b # d
      <4>1. b # o
        BY <3>2, <2>3 DEF d
      <4> QED
        BY <4>1, <3>2, <2>2, <2>3, <1>3
    <3> QED
      BY <3>1, <3>2
  <2>5. /\ y.ofd[b].o_dfd = b /\ y.ofd[b].id = x.ofd[p].id
        /\ y.ofd[b].o_dirbyt = x.ofd[p].o_dirbyt
    BY <2>2, <2>3, <2>4, <1>8
  <2>6. b # p => p \in Used(y)
    <3> SUFFICES ASSUME b # p
                 PROVE  p \in Used(y)
      OBVIOUS
    <3>1. p \in Used(x)
      BY <2>3
    <3>2. p # o
      BY <2>1 DEF b, d
    <3> QED
      BY <3>1, <3>2, <1>5
  <2> QED
    BY <2>1, <2>4, <2>5, <2>6 DEF OfdOK
<1>11. ASSUME NEW e \in Ofds, y.ofd[e] # None, y.ofd[e].o_dfd = e
       PROVE  Counted(y, e)
  <2>1. /\ x.ofd[e] # None /\ x.ofd[e].o_dfd = e /\ (e = o => o = d) /\ (e = d => n # 1)
    BY <1>8, <1>11
  <2>2. Counted(x, e)
    BY <1>1, <2>1 DEF Sound
  <2>3. \A p \in Used(y) : p \in Used(x) /\ p # o /\ y.ofd[p].o_dfd = x.ofd[p].o_dfd
    BY <1>8, <1>9
  <2>4. CASE e # d
    <3>1. y.ofd[e] = x.ofd[e]
      BY <2>1, <2>4, <1>3
    <3>2. Users(y, e) = Users(x, e)
      BY <2>3, <2>4, <1>5 DEF Users, d
    <3> QED
      BY <3>1, <3>2, <2>2 DEF Counted
  <2>5. CASE e = d
    <3>1. Users(y, e) = Users(x, d) \ {o}
      BY <2>3, <2>5, <1>5 DEF Users
    <3>2. Cardinality(Users(y, e)) = n - 1
      BY <3>1, <1>6, FS_RemoveElement DEF n
    <3>3. Users(y, e) # {}
      <4>1. n # 1
        BY <2>1, <2>5
      <4>2. n - 1 # 0
        BY <4>1, <1>6
      <4> QED
        BY <4>2, <3>2, FS_EmptySet
    <3> QED
      BY <3>2, <3>3, <2>1, <2>5, <1>3 DEF Counted
  <2> QED
    BY <2>4, <2>5
<1>12. Sound(y)
  <2>1. \A g \in Handles : EntryOK(y.sft[g])
    BY <1>1, <1>2, <1>3, NoEntryFacts DEF Sound
  <2> QED
    BY <2>1, <1>3, <1>9, <1>10, <1>11 DEF Sound
<1>13. ASSUME NEW q \in Range(y.d_files)
       PROVE  q \in Range(x.d_files) /\ q \in Used(y)
  BY <1>1, <1>2, <1>3, <1>5, <1>13 DEF Listed
<1>14. Listed(y)
  <2>1. IsInjective(y.d_files)
    BY <1>1, <1>2, <1>3 DEF Listed
  <2>2. ASSUME NEW q \in Range(y.d_files)
        PROVE  /\ q \in Used(y) /\ y.dir[y.ofd[q].o_dirbyt] # None
               /\ y.dir[y.ofd[q].o_dirbyt].id = y.ofd[q].id
    <3>1. q \in Range(x.d_files) /\ q \in Used(y) /\ q \in Ofds /\ y.ofd[q] # None
      BY <1>9, <1>13
    <3>2. x.dir[x.ofd[q].o_dirbyt] # None /\ x.dir[x.ofd[q].o_dirbyt].id = x.ofd[q].id
      BY <3>1, <1>1 DEF Listed
    <3> QED
      BY <3>1, <3>2, <1>2, <1>3, <1>8
  <2>3. ASSUME NEW q \in Range(y.d_files), NEW p \in Range(y.d_files),
               y.ofd[q].o_dirbyt = y.ofd[p].o_dirbyt
        PROVE  y.ofd[q].o_dfd = y.ofd[p].o_dfd
    <3>1. /\ q \in Range(x.d_files) /\ q \in Ofds /\ y.ofd[q] # None
          /\ p \in Range(x.d_files) /\ p \in Ofds /\ y.ofd[p] # None
      BY <1>9, <1>13
    <3> QED
      BY <3>1, <2>3, <1>1, <1>8 DEF Listed
  <2> QED
    BY <2>1, <2>2, <2>3 DEF Listed
<1>15. Follows(y, S)
  <2>1. ASSUME NEW q \in Used(y), NEW p \in Used(y), y.ofd[q].o_dirbyt = y.ofd[p].o_dirbyt
        PROVE  y.ofd[q].o_dfd = y.ofd[p].o_dfd \/ y.ofd[q].o_dirbyt \in S
    BY <2>1, <1>1, <1>8, <1>9 DEF Follows
  <2>2. ASSUME NEW q \in Range(y.d_files)
        PROVE  Saves(y, q) \/ y.ofd[q].o_dirbyt \in S
    <3>1. /\ q \in Range(x.d_files) /\ q \in Used(y) /\ q \in Ofds /\ y.ofd[q] # None
      BY <1>9, <1>13
    <3>2. y.ofd[q].o_dirbyt = x.ofd[q].o_dirbyt /\ y.ofd[q].o_dfd = x.ofd[q].o_dfd
      BY <3>1, <1>8
    <3>3. x.ofd[q].o_dfd \in Ofds /\ y.ofd[x.ofd[q].o_dfd] # None
      <4>1. OfdOK(y, q)
        BY <3>1, <1>10
      <4>2. y.ofd[q].o_dfd \in Ofds
        BY <3>1, <1>12, OfdParts
      <4> QED
        BY <4>1, <4>2, <3>2 DEF OfdOK
    <3>4. /\ y.ofd[x.ofd[q].o_dfd].ver = x.ofd[x.ofd[q].o_dfd].ver
          /\ y.ofd[x.ofd[q].o_dfd].dirty = x.ofd[x.ofd[q].o_dfd].dirty
      BY <3>3, <1>8
    <3>5. Saves(x, q) \/ x.ofd[q].o_dirbyt \in S
      BY <3>1, <1>1 DEF Follows
    <3>6. y.dir = x.dir
      BY <1>2, <1>3
    <3>7. ASSUME Saves(x, q) PROVE Saves(y, q)
      <4>1. Base(y, q) = Base(x, q)
        BY <3>2 DEF Base
      <4>2. Dfd(y, q).ver = Dfd(x, q).ver /\ Dfd(y, q).dirty = Dfd(x, q).dirty
        BY <4>1, <3>4 DEF Dfd, Base
      <4>3. y.dir[y.ofd[q].o_dirbyt] = x.dir[x.ofd[q].o_dirbyt]
        BY <3>2, <3>6
      <4> QED
        BY <3>7, <4>2, <4>3 DEF Saves
    <3> QED
      BY <3>2, <3>5, <3>7
  <2> QED
    BY <2>1, <2>2 DEF Follows
<1>16. EntryCleared(x, y, h)
  <2>1. SameFiles(x, y)
    BY <1>8, <1>9 DEF SameFiles
  <2> QED
    BY <2>1, <1>2, <1>3 DEF EntryCleared
<1> QED
  BY <1>12, <1>14, <1>15, <1>16 DEF Good

(* sftdel() of an entry whose OFD has been taken off the list. *)
LEMMA SftdelGood ==
  ASSUME NEW x, NEW S, Good(x, S), NEW h \in Handles,
         x.sft[h].f_ofd \in Ofds \ Range(x.d_files), NEW y, y = sftdel(x, h)
  PROVE  Good(y, S) /\ EntryCleared(x, y, h)
<1> DEFINE o == x.sft[h].f_ofd
           z == Clear(x, h)
<1>1. x \in Tables
  BY GoodParts
<1>2. o \in Used(x)
  BY DEF Used, sftofdsrch
<1>3. Used(z) = {p \in Used(x) : \E g \in Handles \ {h} : x.sft[g].f_ofd = p}
  BY <1>1, ClearFacts
<1>4. \A p \in Used(x) : p # o => p \in Used(z)
  BY <1>3 DEF Used, sftofdsrch
<1>5. CASE o \in Used(z)
  <2>1. Used(z) = Used(x)
    BY <1>3, <1>4, <1>5
  <2>2. y = z
    BY <1>5 DEF sftdel, DropOfd, Used
  <2> QED
    BY <2>1, <2>2, ClearShared
<1>6. CASE o \notin Used(z)
  <2>1. Used(z) = Used(x) \ {o}
    BY <1>3, <1>4, <1>6
  <2>2. y = Freed(Unused(z, o), o, Base(z, o))
    BY <1>2, <1>6 DEF sftdel, DropOfd, Used
  <2> HIDE DEF z, o
  <2>3. o \in Used(x) \ Range(x.d_files)
    BY <1>2 DEF o
  <2> QED
    BY <2>1, <2>2, <2>3, DropGood DEF z
<1> QED
  BY <1>5, <1>6

-----------------------------------------------------------------------------
(* Closing a handle. *)

(* Entries may change their owners, and be used more or less. *)
LEMMA UsesChanged ==
  ASSUME NEW x, NEW S, Good(x, S), NEW f \in [Handles -> Entries],
         \A h \in Handles : EntryOK(f[h]),
         {o \in Ofds : \E h \in Handles : f[h].f_ofd = o} = Used(x),
         NEW y, y = [x EXCEPT !.sft = f]
  PROVE  Good(y, S) /\ y.sft = f /\ SameFiles(x, y)
<1>1. x \in Tables /\ Sound(x)
  BY GoodParts
<1>2. /\ y \in Tables /\ y.sft = f
      /\ y.ofd = x.ofd /\ y.d_files = x.d_files /\ y.dir = x.dir
  BY <1>1, WithSft
<1>3. Used(y) = Used(x)
  BY <1>2 DEF Used, sftofdsrch
<1>4. AlikeOfds(x, y)
  BY <1>2 DEF AlikeOfds, Alike
<1>5. Sound(y)
  BY <1>1, <1>2, <1>3, <1>4, SoundSame
<1>6. Listed(y) /\ Follows(y, S)
  BY <1>2, <1>3 DEF Good, Listed, Follows, Saves, Dfd, Base
<1>7. SameFiles(x, y)
  BY <1>2, <1>3 DEF SameFiles
<1> QED
  BY <1>2, <1>5, <1>6, <1>7 DEF Good

LEMMA SameFilesTwice ==
  ASSUME NEW x, NEW y, NEW z, SameFiles(x, y), SameFiles(y, z)
  PROVE  SameFiles(x, z)
BY DEF SameFiles

(* One use less. *)
Less(e) ==
  IF e.f_ofd = None THEN e
  ELSE IF e.f_use = 1 THEN NoEntry ELSE [e EXCEPT !.f_use = @ - 1]

Closed(x, y, h) ==
  /\ y.sft = [x.sft EXCEPT ![h] = Less(x.sft[h])]
  /\ SameFiles(x, y)

LEMMA LessFacts ==
  ASSUME NEW e \in Entries, EntryOK(e), e.f_ofd # None, e.f_use # 1,
         NEW g, g = [e EXCEPT !.f_use = @ - 1]
  PROVE  /\ g \in Entries /\ EntryOK(g) /\ g.f_ofd = e.f_ofd /\ g.f_own = e.f_own
         /\ g.f_use = e.f_use - 1 /\ g.f_use > 0 /\ Less(e) = g
<1>1. e.f_use \in Nat /\ e.f_use > 1
  <2>1. e.f_use \in Nat
    BY EntryFields
  <2>2. e.f_use > 0
    BY DEF EntryOK
  <2> QED
    BY <2>1, <2>2
<1>2. e.f_use - 1 \in Nat /\ e.f_use - 1 > 0
  BY <1>1
<1>3. /\ g \in Entries /\ g.f_ofd = e.f_ofd /\ g.f_own = e.f_own
      /\ g.f_use = e.f_use - 1
  BY <1>2 DEF Entries
<1>4. EntryOK(g)
  BY <1>1, <1>2, <1>3 DEF EntryOK
<1> QED
  BY <1>2, <1>3, <1>4 DEF Less

LEMMA UseLess ==
  ASSUME NEW x, NEW S, Good(x, S), NEW h \in Handles,
         x.sft[h].f_ofd # None, x.sft[h].f_use # 1,
         NEW y, y = [x EXCEPT !.sft[h].f_use = @ - 1]
  PROVE  Good(y, S) /\ Closed(x, y, h)
<1> DEFINE e == x.sft[h]
           g == [e EXCEPT !.f_use = @ - 1]
           f == [x.sft EXCEPT ![h] = g]
<1>1. x \in Tables /\ Sound(x) /\ x.sft \in [Handles -> Entries]
  BY GoodParts
<1>2. e \in Entries /\ \A k \in Handles : EntryOK(x.sft[k])
  BY <1>1 DEF Sound
<1>3. /\ g \in Entries /\ EntryOK(g) /\ g.f_ofd = e.f_ofd /\ Less(e) = g
  BY <1>2, LessFacts
<1>4. y = [x EXCEPT !.sft = f]
  BY <1>1, <1>2 DEF Tables, Entries
<1> HIDE DEF g
<1>5. /\ f \in [Handles -> Entries]
      /\ f[h] = g /\ \A k \in Handles : k # h => f[k] = x.sft[k]
  BY <1>1, <1>3
<1> HIDE DEF f
<1>6. \A k \in Handles : EntryOK(f[k]) /\ f[k].f_ofd = x.sft[k].f_ofd
  BY <1>2, <1>3, <1>5
<1>7. {o \in Ofds : \E k \in Handles : f[k].f_ofd = o} = Used(x)
  BY <1>6 DEF Used, sftofdsrch
<1>8. Good(y, S) /\ y.sft = f /\ SameFiles(x, y)
  BY <1>4, <1>5, <1>6, <1>7, UsesChanged
<1> QED
  BY <1>3, <1>8 DEF Closed, f

LEMMA UseGone ==
  ASSUME NEW x, NEW y, NEW h \in Handles, x.sft[h].f_ofd # None, x.sft[h].f_use = 1,
         EntryCleared(x, y, h)
  PROVE  Closed(x, y, h)
BY DEF Closed, EntryCleared, Less

LEMMA UnrefGood ==
  ASSUME NEW x, NEW S, Good(x, S), NEW h \in Handles,
         x.sft[h].f_ofd \in Ofds \ Range(x.d_files), NEW y, y = Unref(x, h)
  PROVE  Good(y, S) /\ Closed(x, y, h)
<1>1. x.sft[h].f_ofd # None
  BY Distinct
<1>2. CASE x.sft[h].f_use = 1
  <2>1. y = sftdel(x, h)
    BY <1>2 DEF Unref
  <2> QED
    BY <2>1, <1>1, <1>2, SftdelGood, UseGone
<1>3. CASE x.sft[h].f_use # 1
  <2>1. y = [x EXCEPT !.sft[h].f_use = @ - 1]
    BY <1>3 DEF Unref
  <2> QED
    BY <2>1, <1>1, <1>3, UseLess
<1> QED
  BY <1>2, <1>3

LEMMA CloseGood ==
  ASSUME NEW x, NEW S, Good(x, S), NEW h \in Handles, NEW y, y = xclose(x, h)
  PROVE  Good(y, S) /\ Closed(x, y, h)
<1> DEFINE e == x.sft[h]
           o == x.sft[h].f_ofd
<1>1. x \in Tables /\ Sound(x) /\ x.sft \in [Handles -> Entries]
  BY GoodParts
<1>2. o \in Ofds \cup {None, CON}
  BY <1>1, EntryFields
<1>3. CASE o = None
  <2>1. y = x
    BY <1>3, Distinct DEF xclose
  <2>2. y.sft = [x.sft EXCEPT ![h] = Less(x.sft[h])]
    BY <2>1, <1>1, <1>3 DEF Less
  <2> QED
    BY <2>1, <2>2 DEF Closed, SameFiles
<1>4. CASE o = CON /\ e.f_use = 1
  <2>1. y = Clear(x, h)
    <3>1. x.sft[h].f_ofd # None /\ x.sft[h].f_ofd = CON /\ x.sft[h].f_use = 1
      BY <1>4, Distinct
    <3> HIDE DEF e, o
    <3> QED
      BY <3>1 DEF xclose
  <2>2. Used(Clear(x, h)) = {p \in Used(x) : \E g \in Handles \ {h} : x.sft[g].f_ofd = p}
    <3>1. x \in Tables
      BY <1>1
    <3> HIDE DEF e, o
    <3> QED
      BY <3>1, ClearFacts
  <2>3. Used(Clear(x, h)) = Used(x)
    BY <2>2, <1>4, Distinct DEF Used, sftofdsrch
  <2>4. Good(y, S) /\ EntryCleared(x, y, h)
    BY <2>1, <2>3, ClearShared
  <2> QED
    BY <2>4, <1>4, UseGone, Distinct
<1>5. CASE o = CON /\ e.f_use # 1
  <2>1. y = [x EXCEPT !.sft[h].f_use = @ - 1]
    BY <1>5, Distinct DEF xclose
  <2> QED
    BY <2>1, <1>5, UseLess, Distinct
<1>6. CASE o \in Ofds
  <2> DEFINE w == ixclose(x, o)
  <2>1. o # None /\ o # CON
    BY <1>6, Distinct
  <2>2. y = Unref(w, h)
    BY <2>1 DEF xclose
  <2>3. o \in Used(x)
    BY <1>6 DEF Used, sftofdsrch
  <2>4. Good(w, S) /\ OfdClosed(x, w, o)
    BY <2>3, OfdCloseGood
  <2> HIDE DEF w
  <2>5. w.sft = x.sft /\ o \notin Range(w.d_files) /\ AlikeOfds(x, w)
    BY <2>4 DEF OfdClosed
  <2>6. SameFiles(x, w)
    <3>1. Used(w) = Used(x)
      BY <2>5 DEF Used, sftofdsrch
    <3>2. \A p \in Used(x) : p \in Ofds /\ x.ofd[p] # None
      BY <1>1, UsedParts
    <3> QED
      BY <3>1, <3>2, <2>5 DEF SameFiles, AlikeOfds, Alike
  <2>7. w.sft[h].f_ofd \in Ofds \ Range(w.d_files)
    BY <2>5, <1>6
  <2>8. Good(y, S) /\ Closed(w, y, h)
    BY <2>2, <2>4, <2>7, UnrefGood
  <2> QED
    BY <2>5, <2>6, <2>8, SameFilesTwice DEF Closed
<1> QED
  BY <1>2, <1>3, <1>4, <1>5, <1>6

-----------------------------------------------------------------------------
(***************************************************************************)
(* Folds. FoldLeft() chooses a function g of the sets of indices; there is *)
(* one, and g[1 .. i] is what the first i steps make of the base. The kind *)
(* k says which of the folds it is.                                        *)
(***************************************************************************)
LEMMA MinFacts ==
  ASSUME NEW I \in SUBSET Nat, I # {}
  PROVE  \E i \in I : \A j \in I : i <= j
<1>1. PICK i \in I : \A j \in I : ~(<<j, i>> \in OpToRel(<, Nat))
  BY NatLessThanWellFounded, WFMin, Zenon
<1>2. ASSUME NEW j \in I
      PROVE  i <= j
  <2> SUFFICES ASSUME j < i
               PROVE  FALSE
    OBVIOUS
  <2>1. <<j, i>> \in OpToRel(<, Nat)
    BY Zenon DEF OpToRel
  <2> QED
    BY <2>1, <1>1
<1> QED
  BY <1>2

LEMMA UpTo ==
  ASSUME NEW n \in Nat, NEW i \in 1 .. n
  PROVE  /\ i \in Nat /\ 1 .. i \in SUBSET (1 .. n) /\ 1 .. i \in SUBSET (1 .. i)
         /\ 1 .. i # {} /\ i \in 1 .. i /\ (1 .. i) \ {i} = 1 .. i - 1
<1>1. i \in 1 .. i
  OBVIOUS
<1> QED
  BY <1>1

LEMMA MaxFacts ==
  ASSUME NEW n \in Nat, NEW u \in SUBSET (1 .. n), u # {}
  PROVE  Max(u) \in u /\ \A j \in u : j <= Max(u)
<1> DEFINE I == {n - j : j \in u}
<1>1. I \in SUBSET Nat /\ I # {}
  <2>1. \A j \in u : n - j \in Nat
    OBVIOUS
  <2> QED
    BY <2>1
<1> HIDE DEF I
<1>2. PICK i \in I : \A j \in I : i <= j
  BY <1>1, MinFacts
<1>3. PICK m \in u : i = n - m
  BY DEF I
<1>4. ASSUME NEW j \in u
      PROVE  j <= m
  <2>1. n - j \in I
    BY DEF I
  <2>2. n - m <= n - j
    BY <2>1, <1>2, <1>3
  <2> QED
    BY <2>2
<1> QED
  BY <1>4 DEF Max

Step(k, x, j) ==
  IF k.kind = "listed" THEN IF j \in k.places THEN ixclose(x, d_files[j]) ELSE x
  ELSE IF k.kind = "mapped" THEN CloseMapped(x, j)
  ELSE CloseOwned(x, j)

RunStep(k, base, seq, g, u) ==
  IF u = {} THEN base ELSE Step(k, g[u \ {Max(u)}], seq[Max(u)])

Ran(k, base, seq, D, g) == g = [u \in D |-> RunStep(k, base, seq, g, u)]

Runs(k, base, seq, r) ==
  \E g : Ran(k, base, seq, SUBSET (1 .. Len(seq)), g) /\ r = g[1 .. Len(seq)]

LEMMA RunExists ==
  ASSUME NEW k, NEW base, NEW seq, NEW n \in Nat
  PROVE  \E g : Ran(k, base, seq, SUBSET (1 .. n), g)
<1> DEFINE Bad == {m \in Nat : ~ \E g : Ran(k, base, seq, SUBSET (1 .. m), g)}
<1> SUFFICES ASSUME n \in Bad
             PROVE  FALSE
  OBVIOUS
<1>1. PICK m \in Bad : \A j \in Bad : m <= j
  <2>1. Bad \in SUBSET Nat /\ Bad # {}
    OBVIOUS
  <2> HIDE DEF Bad
  <2> QED
    BY <2>1, MinFacts
<1>2. m \in Nat /\ ~ \E g : Ran(k, base, seq, SUBSET (1 .. m), g)
  OBVIOUS
<1>3. CASE m = 0
  <2> DEFINE g == [u \in SUBSET (1 .. 0) |-> base]
  <2>1. \A u \in SUBSET (1 .. 0) : u = {}
    OBVIOUS
  <2>2. \A u \in SUBSET (1 .. 0) : RunStep(k, base, seq, g, u) = base
    BY <2>1 DEF RunStep
  <2>3. g = [u \in SUBSET (1 .. 0) |-> RunStep(k, base, seq, g, u)]
    BY <2>2
  <2> HIDE DEF g
  <2>4. Ran(k, base, seq, SUBSET (1 .. 0), g)
    BY <2>3 DEF Ran
  <2> QED
    BY <2>4, <1>2, <1>3
<1>4. CASE m # 0
  <2>1. m - 1 \in Nat /\ m - 1 < m
    BY <1>2, <1>4
  <2>2. m - 1 \notin Bad
    <3> HIDE DEF Bad
    <3>1. m - 1 \in Bad => m <= m - 1
      BY <1>1
    <3> QED
      BY <3>1, <2>1, <1>2
  <2>3. PICK g : Ran(k, base, seq, SUBSET (1 .. m - 1), g)
    BY <2>1, <2>2
  <2> HIDE DEF Bad
  <2> DEFINE D == SUBSET (1 .. m)
             E == SUBSET (1 .. m - 1)
             h == [u \in D |-> RunStep(k, base, seq, g, u)]
  <2>4. ASSUME NEW u \in D
        PROVE  RunStep(k, base, seq, h, u) = RunStep(k, base, seq, g, u)
    <3>1. CASE u = {}
      BY <3>1 DEF RunStep
    <3>2. CASE u # {}
      <4> DEFINE v == u \ {Max(u)}
      <4>1. Max(u) \in u /\ \A j \in u : j <= Max(u)
        BY <3>2, <1>2, MaxFacts
      <4>2. v \in E /\ v \in D
        <5>1. \A j \in v : j \in 1 .. m - 1
          <6> TAKE j \in v
          <6>1. j \in u /\ j # Max(u) /\ j \in 1 .. m /\ Max(u) \in 1 .. m
            BY <4>1
          <6>2. j <= Max(u)
            BY <4>1
          <6> QED
            BY <6>1, <6>2, <1>2
        <5> QED
          BY <5>1
      <4> HIDE DEF v, D, E
      <4>3. g[v] = RunStep(k, base, seq, g, v)
        <5>1. g = [w \in E |-> RunStep(k, base, seq, g, w)]
          BY <2>3 DEF Ran, E
        <5> QED
          BY <4>2, <5>1
      <4>4. h[v] = RunStep(k, base, seq, g, v)
        BY <4>2
      <4> HIDE DEF h
      <4>5. h[v] = g[v]
        BY <4>3, <4>4
      <4> QED
        BY <4>5, <3>2 DEF RunStep, v
    <3> QED
      BY <3>1, <3>2
  <2> HIDE DEF D
  <2>5. h = [u \in D |-> RunStep(k, base, seq, h, u)]
    BY <2>4, Zenon
  <2> HIDE DEF h
  <2>6. Ran(k, base, seq, SUBSET (1 .. m), h)
    BY <2>5 DEF Ran, D
  <2> QED
    BY <2>6, <1>2
<1> QED
  BY <1>3, <1>4

(* What each step keeps holds in the end; R is a set of pairs: the number  *)
(* of steps, and what they have made.                                      *)
LEMMA RunReach ==
  ASSUME NEW k, NEW base, NEW seq, Len(seq) \in Nat, NEW r, Runs(k, base, seq, r),
         NEW R, <<0, base>> \in R,
         ASSUME NEW i \in 1 .. Len(seq), NEW y, <<i - 1, y>> \in R
         PROVE  <<i, Step(k, y, seq[i])>> \in R
  PROVE  <<Len(seq), r>> \in R
<1> DEFINE n == Len(seq)
<1>1. PICK g : Ran(k, base, seq, SUBSET (1 .. n), g) /\ r = g[1 .. n]
  BY DEF Runs
<1>2. \A u \in SUBSET (1 .. n) : g[u] = RunStep(k, base, seq, g, u)
  <2> HIDE DEF n
  <2>1. g = [u \in SUBSET (1 .. n) |-> RunStep(k, base, seq, g, u)]
    BY <1>1 DEF Ran
  <2> QED
    BY <2>1
<1> DEFINE Bad == {i \in 0 .. n : <<i, g[1 .. i]>> \notin R}
<1> SUFFICES ASSUME n \in Bad
             PROVE  FALSE
  BY <1>1
<1>3. PICK i \in Bad : \A j \in Bad : i <= j
  <2>1. Bad \in SUBSET Nat /\ Bad # {}
    OBVIOUS
  <2> HIDE DEF Bad
  <2> QED
    BY <2>1, MinFacts
<1>4. i \in 0 .. n /\ <<i, g[1 .. i]>> \notin R
  OBVIOUS
<1>5. CASE i = 0
  <2>1. 1 .. i = {} /\ {} \in SUBSET (1 .. n)
    BY <1>5
  <2>2. g[{}] = base
    BY <2>1, <1>2 DEF RunStep
  <2> QED
    BY <2>1, <2>2, <1>4, <1>5
<1>6. CASE i # 0
  <2>1. i \in 1 .. n /\ i - 1 \in 0 .. n /\ i - 1 < i
    BY <1>4, <1>6
  <2>2. i - 1 \notin Bad
    <3> HIDE DEF Bad
    <3>1. i - 1 \in Bad => i <= i - 1
      BY <1>3
    <3> QED
      BY <3>1, <2>1
  <2>3. <<i - 1, g[1 .. i - 1]>> \in R
    BY <2>1, <2>2
  <2> HIDE DEF Bad, n
  <2>4. Max(1 .. i) = i
    <3>1. i \in Nat /\ 1 .. i \in SUBSET (1 .. i) /\ 1 .. i # {} /\ i \in 1 .. i
      BY <2>1, UpTo DEF n
    <3>2. Max(1 .. i) \in 1 .. i /\ \A j \in 1 .. i : j <= Max(1 .. i)
      BY <3>1, MaxFacts
    <3>3. i <= Max(1 .. i)
      BY <3>1, <3>2
    <3> QED
      BY <3>1, <3>2, <3>3
  <2>5. (1 .. i) \ {i} = 1 .. i - 1 /\ 1 .. i # {} /\ 1 .. i \in SUBSET (1 .. n)
    BY <2>1, UpTo DEF n
  <2>6. g[1 .. i] = Step(k, g[1 .. i - 1], seq[i])
    <3>1. g[1 .. i] = RunStep(k, base, seq, g, 1 .. i)
      BY <2>5, <1>2
    <3> QED
      BY <3>1, <2>4, <2>5 DEF RunStep
  <2>7. <<i, Step(k, g[1 .. i - 1], seq[i])>> \in R
    BY <2>1, <2>3 DEF n
  <2> QED
    BY <2>6, <2>7, <1>4
<1> QED
  BY <1>5, <1>6

(* The standard handles that a program has mapped, closed. *)
MappedClosed == FoldLeft(CloseMapped, Now, [i \in 1 .. NUMSTD |-> i - 1])

LEMMA ListedRuns ==
  ASSUME NEW x, NEW places, Len(d_files) \in Nat
  PROVE  Runs([kind |-> "listed", places |-> places], x, [i \in 1 .. Len(d_files) |-> i], CloseListed(x, places))
<1> DEFINE q == [i \in 1 .. Len(d_files) |-> i]
           n == Len(q)
           k == [kind |-> "listed", places |-> places]
           E(g) == [u \in SUBSET (DOMAIN q) |->
                      IF u = {} THEN x
                      ELSE IF q[Max(u)] \in places THEN ixclose(g[u \ {Max(u)}], d_files[q[Max(u)]])
                           ELSE g[u \ {Max(u)}]]
           it == CHOOSE g : g = E(g)
<1>0. n \in Nat /\ DOMAIN q = 1 .. n
  OBVIOUS
<1>1. PICK g : Ran(k, x, q, SUBSET (1 .. n), g)
  BY <1>0, RunExists
<1>2. ASSUME NEW h
      PROVE  [u \in SUBSET (1 .. n) |-> RunStep(k, x, q, h, u)] = E(h)
  BY <1>0 DEF RunStep, Step
<1>3. g = E(g)
  BY <1>1, <1>2 DEF Ran
<1>4. CloseListed(x, places) = it[DOMAIN q]
  BY DEF CloseListed, FoldLeft, MapThenFoldSet
<1> HIDE DEF E
<1>5. it = E(it)
  BY <1>3
<1> HIDE DEF it, n, q, k
<1>6. Ran(k, x, q, SUBSET (1 .. n), it)
  BY <1>2, <1>5 DEF Ran
<1>7. Runs(k, x, q, it[1 .. n])
  BY <1>6 DEF Runs, n
<1> QED
  BY <1>0, <1>4, <1>7 DEF q, k

LEMMA MappedRuns ==
  Runs([kind |-> "mapped"], Now, [i \in 1 .. NUMSTD |-> i - 1], MappedClosed)
<1> DEFINE q == [i \in 1 .. NUMSTD |-> i - 1]
           n == Len(q)
           k == [kind |-> "mapped"]
           E(g) == [u \in SUBSET (DOMAIN q) |->
                      IF u = {} THEN Now
                      ELSE CloseMapped(g[u \ {Max(u)}], q[Max(u)])]
           it == CHOOSE g : g = E(g)
<1>0. n \in Nat /\ DOMAIN q = 1 .. n
  BY OpenFilesAssumption
<1>1. PICK g : Ran(k, Now, q, SUBSET (1 .. n), g)
  BY <1>0, RunExists
<1>2. ASSUME NEW h
      PROVE  [u \in SUBSET (1 .. n) |-> RunStep(k, Now, q, h, u)] = E(h)
  <2>1. \A y, j : Step(k, y, j) = CloseMapped(y, j)
    BY DEF Step
  <2> HIDE DEF k
  <2> QED
    BY <2>1, <1>0 DEF RunStep
<1>3. g = E(g)
  BY <1>1, <1>2 DEF Ran
<1>4. MappedClosed = it[DOMAIN q]
  BY DEF MappedClosed, FoldLeft, MapThenFoldSet
<1> HIDE DEF E
<1>5. it = E(it)
  BY <1>3
<1> HIDE DEF it, n, q, k
<1>6. Ran(k, Now, q, SUBSET (1 .. n), it)
  BY <1>2, <1>5 DEF Ran
<1>7. Runs(k, Now, q, it[1 .. n])
  BY <1>6 DEF Runs, n
<1> QED
  BY <1>0, <1>4, <1>7 DEF q, k

LEMMA OwnedRuns ==
  Runs([kind |-> "owned"], MappedClosed, [i \in 1 .. OPNFILES |-> NUMSTD + i - 1], ixterm)
<1> DEFINE q == [i \in 1 .. OPNFILES |-> NUMSTD + i - 1]
           n == Len(q)
           k == [kind |-> "owned"]
           E(g) == [u \in SUBSET (DOMAIN q) |->
                      IF u = {} THEN MappedClosed
                      ELSE CloseOwned(g[u \ {Max(u)}], q[Max(u)])]
           it == CHOOSE g : g = E(g)
<1>0. n \in Nat /\ DOMAIN q = 1 .. n
  BY OpenFilesAssumption
<1>1. PICK g : Ran(k, MappedClosed, q, SUBSET (1 .. n), g)
  BY <1>0, RunExists
<1>2. ASSUME NEW h
      PROVE  [u \in SUBSET (1 .. n) |-> RunStep(k, MappedClosed, q, h, u)] = E(h)
  <2>1. \A y, j : Step(k, y, j) = CloseOwned(y, j)
    BY DEF Step
  <2> HIDE DEF k
  <2> QED
    BY <2>1, <1>0 DEF RunStep
<1>3. g = E(g)
  BY <1>1, <1>2 DEF Ran
<1>4. ixterm = it[DOMAIN q]
  BY DEF ixterm, MappedClosed, FoldLeft, MapThenFoldSet
<1> HIDE DEF E
<1>5. it = E(it)
  BY <1>3
<1> HIDE DEF it, n, q, k
<1>6. Ran(k, MappedClosed, q, SUBSET (1 .. n), it)
  BY <1>2, <1>5 DEF Ran
<1>7. Runs(k, MappedClosed, q, it[1 .. n])
  BY <1>6 DEF Runs, n
<1> QED
  BY <1>0, <1>4, <1>7 DEF q, k

(* Some OFDs of the list are closed. *)
ListClosed(x, y, C) ==
  /\ y \in Tables /\ y.sft = x.sft /\ AlikeOfds(x, y)
  /\ y.d_files \in Lists /\ Range(y.d_files) = Range(x.d_files) \ C
  /\ \A s \in Slots : /\ y.dir[s] = None <=> x.dir[s] = None
                      /\ x.dir[s] # None => y.dir[s].id = x.dir[s].id

LEMMA ListClosedTwice ==
  ASSUME NEW x, NEW y, NEW z, NEW C, NEW o, NEW D, D = C \cup {o},
         ListClosed(x, y, C), OfdClosed(y, z, o)
  PROVE  ListClosed(x, z, D)
<1>1. AlikeOfds(x, z)
  BY DEF ListClosed, OfdClosed, AlikeOfds, Alike
<1> QED
  BY <1>1 DEF ListClosed, OfdClosed

LEMMA ListClosedUsed ==
  ASSUME NEW x, NEW y, NEW C, ListClosed(x, y, C)
  PROVE  Used(y) = Used(x)
BY DEF ListClosed, Used, sftofdsrch

LEMMA CloseListedGood ==
  ASSUME NEW S, Good(Now, S), NEW places \in SUBSET (1 .. Len(d_files)),
         NEW y, y = CloseListed(Now, places)
  PROVE  Good(y, S) /\ ListClosed(Now, y, {d_files[j] : j \in places})
<1> DEFINE n == Len(d_files)
           q == [i \in 1 .. n |-> i]
           k == [kind |-> "listed", places |-> places]
           C(i) == {d_files[j] : j \in {j \in places : j <= i}}
           R == {r \in (0 .. n) \X Tables : Good(r[2], S) /\ ListClosed(Now, r[2], C(r[1]))}
<1>0. Now.d_files = d_files
  BY DEF Now
<1>1. d_files \in Lists /\ Now \in Tables
  BY <1>0, GoodParts
<1>2. /\ n \in Nat /\ \A i \in 1 .. n : d_files[i] \in Range(d_files)
  BY <1>1, ListFacts
<1>3. Runs(k, Now, q, y)
  BY <1>2, ListedRuns
<1>4. Len(q) = n /\ \A i \in 1 .. n : q[i] = i
  BY <1>2
<1> HIDE DEF q
<1>5. <<0, Now>> \in R
  <2>1. C(0) = {}
    BY <1>2
  <2>2. AlikeOfds(Now, Now)
    BY DEF AlikeOfds, Alike
  <2>3. ListClosed(Now, Now, {})
    BY <1>0, <1>1, <2>2 DEF ListClosed
  <2>4. 0 \in 0 .. n
    BY <1>2
  <2> HIDE DEF C, n
  <2> QED
    BY <1>1, <2>1, <2>3, <2>4
<1>6. ASSUME NEW i \in 1 .. n, NEW x, <<i - 1, x>> \in R
      PROVE  <<i, Step(k, x, q[i])>> \in R
  <2>1. x \in Tables /\ Good(x, S) /\ ListClosed(Now, x, C(i - 1))
    BY <1>6
  <2>2. i \in 0 .. n /\ i - 1 \in Int
    BY <1>2
  <2>3. Step(k, x, q[i]) = IF i \in places THEN ixclose(x, d_files[i]) ELSE x
    BY <1>4 DEF Step
  <2>4. CASE i \notin places
    <3>1. C(i) = C(i - 1)
      <4>1. \A j \in places : j <= i <=> j <= i - 1
        BY <2>4
      <4> QED
        BY <4>1
    <3> HIDE DEF C
    <3> QED
      BY <2>1, <2>2, <2>3, <2>4, <3>1
  <2>5. CASE i \in places
    <3> DEFINE o == d_files[i]
               z == ixclose(x, o)
    <3>1. o \in Used(Now)
      BY <1>0, <1>2 DEF Good, Listed
    <3>2. o \in Used(x)
      BY <2>1, <3>1, ListClosedUsed
    <3>3. C(i) = C(i - 1) \cup {o}
      <4>1. \A j \in places : j <= i <=> j <= i - 1 \/ j = i
        OBVIOUS
      <4> QED
        BY <4>1, <2>5
    <3> HIDE DEF C, o
    <3>4. Good(z, S) /\ OfdClosed(x, z, o)
      BY <2>1, <3>2, OfdCloseGood
    <3> HIDE DEF z
    <3>5. ListClosed(Now, z, C(i))
      BY <2>1, <3>3, <3>4, ListClosedTwice
    <3>6. z \in Tables
      BY <3>5 DEF ListClosed
    <3> QED
      BY <2>2, <2>3, <2>5, <3>4, <3>5, <3>6 DEF z, o
  <2> QED
    BY <2>4, <2>5
<1> HIDE DEF R, k
<1>7. <<Len(q), y>> \in R
  <2> HIDE DEF n
  <2> QED
    BY <1>2, <1>3, <1>4, <1>5, <1>6, RunReach
<1>8. Good(y, S) /\ ListClosed(Now, y, C(n))
  BY <1>4, <1>7 DEF R
<1>9. C(n) = {d_files[j] : j \in places}
  <2>1. \A j \in places : j <= n
    BY <1>2
  <2>2. {j \in places : j <= n} = places
    BY <2>1
  <2> QED
    BY <2>2
<1> HIDE DEF C
<1> QED
  BY <1>8, <1>9

-----------------------------------------------------------------------------
(* The programs: the running one, and those that wait for it. *)

Stacked(st) ==
  /\ st \in Seq(PDs) /\ Len(st) # 0 /\ st[Len(st)] = Shell
  /\ \A i, j \in 1 .. Len(st) : st[i] = st[j] => i = j

(* A program, the one that has started it, and so on. *)
Older(st, p) ==
  {q \in PDs : \E i, j \in 1 .. Len(st) : i <= j /\ p = st[i] /\ q = st[j]}

LEMMA StackFacts ==
  ASSUME NEW st, Stacked(st)
  PROVE  /\ Len(st) \in Nat \ {0} /\ DOMAIN st = 1 .. Len(st)
         /\ \A i \in 1 .. Len(st) : st[i] \in PDs
         /\ \A p : p \in Range(st) <=> \E i \in 1 .. Len(st) : p = st[i]
         /\ Range(st) \subseteq PDs /\ IsFiniteSet(Range(st))
         /\ Head(st) = st[1] /\ Head(st) \in Range(st)
         /\ \A p \in Range(st) : p \in Older(st, p)
<1>1. st \in Seq(PDs) /\ Len(st) \in Nat \ {0}
  BY DEF Stacked
<1>2. DOMAIN st = 1 .. Len(st) /\ \A i \in 1 .. Len(st) : st[i] \in PDs
  BY <1>1
<1>3. \A p : p \in Range(st) <=> \E i \in 1 .. Len(st) : p = st[i]
  BY <1>2 DEF Range
<1>4. Range(st) \subseteq PDs
  BY <1>2, <1>3
<1>5. Head(st) = st[1] /\ 1 \in 1 .. Len(st)
  BY <1>1
<1>6. IsFiniteSet(Range(st))
  <2>1. st \in Surjection(1 .. Len(st), Range(st))
    BY <1>1, <1>2, <1>3 DEF Surjection
  <2>2. IsFiniteSet(1 .. Len(st))
    BY <1>1, FS_Interval
  <2> QED
    BY <2>1, <2>2, FS_Surjection
<1>7. ASSUME NEW p \in Range(st)
      PROVE  p \in Older(st, p)
  <2>1. PICK i \in 1 .. Len(st) : p = st[i]
    BY <1>3
  <2>2. p \in PDs /\ i <= i
    BY <1>4
  <2> QED
    BY <2>1, <2>2 DEF Older
<1> QED
  BY <1>1, <1>2, <1>3, <1>4, <1>5, <1>6, <1>7

LEMMA PushFacts ==
  ASSUME NEW st, Stacked(st), NEW p \in PDs \ Range(st), NEW u, u = <<p>> \o st
  PROVE  /\ Stacked(u) /\ Range(u) = Range(st) \cup {p}
         /\ \A q \in Range(st) : Older(st, q) \subseteq Older(u, q)
         /\ Older(st, Head(st)) \subseteq Older(u, p)
<1> DEFINE n == Len(st)
<1>1. /\ st \in Seq(PDs) /\ n \in Nat \ {0} /\ st[n] = Shell /\ Head(st) = st[1]
      /\ \A i, j \in 1 .. n : st[i] = st[j] => i = j
      /\ \A q : q \in Range(st) <=> \E i \in 1 .. n : q = st[i]
  BY StackFacts DEF Stacked
<1>2. /\ u \in Seq(PDs) /\ Len(u) = n + 1 /\ u[1] = p
      /\ \A i \in 1 .. n : u[1 + i] = st[i]
  <2>1. /\ <<p>> \in Seq(PDs) /\ Len(<<p>>) = 1 /\ <<p>>[1] = p
    OBVIOUS
  <2>2. /\ u \in Seq(PDs) /\ Len(u) = 1 + n /\ u[1] = p
        /\ \A i \in 1 .. n : u[1 + i] = st[i]
    BY <2>1, <1>1
  <2> QED
    BY <2>2, <1>1
<1>3. DOMAIN u = 1 .. n + 1
  BY <1>2
<1> HIDE DEF n
<1>4. \A i \in 1 .. n : st[i] # p /\ 1 + i \in 1 .. n + 1
  BY <1>1
<1>5. \A i \in 1 .. n + 1 : i = 1 \/ (i - 1 \in 1 .. n /\ u[i] = st[i - 1])
  <2> TAKE i \in 1 .. n + 1
  <2>1. CASE i # 1
    <3>1. i - 1 \in 1 .. n /\ 1 + (i - 1) = i
      BY <2>1, <1>1
    <3> QED
      BY <3>1, <1>2
  <2> QED
    BY <2>1
<1>6. ASSUME NEW i \in 1 .. n + 1, NEW j \in 1 .. n + 1, u[i] = u[j]
      PROVE  i = j
  <2>1. i \in Int /\ j \in Int
    OBVIOUS
  <2>2. CASE i = 1 \/ j = 1
    BY <2>2, <1>2, <1>4, <1>5, <1>6
  <2>3. CASE i # 1 /\ j # 1
    <3>1. i - 1 \in 1 .. n /\ j - 1 \in 1 .. n /\ st[i - 1] = st[j - 1]
      BY <2>3, <1>5, <1>6
    <3>2. \A a, b \in 1 .. n : st[a] = st[b] => a = b
      BY <1>1
    <3>3. i - 1 = j - 1
      BY <3>1, <3>2
    <3> QED
      BY <3>3, <2>1
  <2> QED
    BY <2>2, <2>3
<1>7. Stacked(u)
  <2>1. u[1 + n] = Shell /\ 1 + n = n + 1 /\ n + 1 # 0
    BY <1>1, <1>2
  <2> QED
    BY <2>1, <1>2, <1>6 DEF Stacked
<1>8. ASSUME NEW q
      PROVE  q \in Range(u) <=> q \in Range(st) \/ q = p
  <2>1. q \in Range(u) <=> \E i \in 1 .. n + 1 : q = u[i]
    BY <1>3 DEF Range
  <2>2. ASSUME q \in Range(st)
        PROVE  q \in Range(u)
    <3>1. PICK i \in 1 .. n : q = st[i]
      BY <2>2, <1>1
    <3> QED
      BY <3>1, <2>1, <1>2, <1>4
  <2>3. ASSUME q \in Range(u), q # p
        PROVE  q \in Range(st)
    <3>1. PICK i \in 1 .. n + 1 : q = u[i]
      BY <2>1, <2>3
    <3> QED
      BY <3>1, <2>3, <1>1, <1>2, <1>5
  <2>4. p \in Range(u)
    <3>1. 1 \in 1 .. n + 1
      BY <1>1
    <3> QED
      BY <3>1, <1>2, <1>3 DEF Range
  <2> QED
    BY <2>2, <2>3, <2>4
<1>9. ASSUME NEW q, NEW t \in Older(st, q)
      PROVE  t \in Older(u, q)
  <2>1. PICK i, j \in 1 .. n : i <= j /\ q = st[i] /\ t = st[j]
    BY DEF Older, n
  <2>2. 1 + i <= 1 + j
    BY <2>1
  <2> QED
    BY <2>1, <2>2, <1>2, <1>4 DEF Older
<1>10. ASSUME NEW t \in Older(st, Head(st))
       PROVE  t \in Older(u, p)
  <2>1. PICK j \in 1 .. n : t = st[j]
    BY DEF Older, n
  <2>2. 1 \in 1 .. n + 1 /\ 1 <= 1 + j
    BY <1>1
  <2> QED
    BY <2>1, <2>2, <1>2, <1>4 DEF Older
<1> QED
  BY <1>7, <1>8, <1>9, <1>10

LEMMA PopFacts ==
  ASSUME NEW st, Stacked(st), Head(st) # Shell, NEW u, u = Tail(st)
  PROVE  /\ Stacked(u) /\ Range(u) = Range(st) \ {Head(st)}
         /\ \A q \in Range(u) : Older(st, q) = Older(u, q) /\ Head(st) \notin Older(st, q)
<1> DEFINE n == Len(st)
<1>1. /\ st \in Seq(PDs) /\ n \in Nat \ {0} /\ st[n] = Shell /\ Head(st) = st[1]
      /\ \A i, j \in 1 .. n : st[i] = st[j] => i = j
      /\ \A q : q \in Range(st) <=> \E i \in 1 .. n : q = st[i]
  BY StackFacts DEF Stacked
<1>2. n # 1
  BY <1>1
<1>3. /\ u \in Seq(PDs) /\ Len(u) = n - 1 /\ DOMAIN u = 1 .. n - 1
      /\ \A i \in 1 .. n - 1 : u[i] = st[i + 1]
  BY <1>1, <1>2
<1> HIDE DEF n
<1>4. /\ \A i \in 1 .. n - 1 : i + 1 \in 1 .. n /\ i + 1 # 1
      /\ \A i \in 1 .. n : i # 1 => i - 1 \in 1 .. n - 1 /\ (i - 1) + 1 = i
      /\ 1 \in 1 .. n /\ n - 1 # 0 /\ (n - 1) + 1 = n /\ n - 1 \in 1 .. n - 1
  BY <1>1, <1>2
<1>5. Stacked(u)
  <2>1. \A i, j \in 1 .. n - 1 : u[i] = u[j] => i = j
    <3> TAKE i, j \in 1 .. n - 1
    <3> HAVE u[i] = u[j]
    <3>1. i + 1 = j + 1
      BY <1>1, <1>3, <1>4
    <3>2. i \in Int /\ j \in Int
      OBVIOUS
    <3> QED
      BY <3>1, <3>2
  <2>2. u[n - 1] = Shell
    BY <1>1, <1>3, <1>4
  <2> QED
    BY <2>1, <2>2, <1>3, <1>4 DEF Stacked
<1>6. ASSUME NEW q
      PROVE  q \in Range(u) <=> q \in Range(st) /\ q # Head(st)
  <2>1. q \in Range(u) <=> \E i \in 1 .. n - 1 : q = u[i]
    BY <1>3 DEF Range
  <2>2. ASSUME q \in Range(u)
        PROVE  q \in Range(st) /\ q # Head(st)
    <3>1. PICK i \in 1 .. n - 1 : q = u[i]
      BY <2>1, <2>2
    <3> QED
      BY <3>1, <1>1, <1>3, <1>4
  <2>3. ASSUME q \in Range(st), q # Head(st)
        PROVE  q \in Range(u)
    <3>1. PICK i \in 1 .. n : q = st[i]
      BY <2>3, <1>1
    <3>2. i # 1
      BY <3>1, <2>3, <1>1
    <3> QED
      BY <3>1, <3>2, <2>1, <1>3, <1>4
  <2> QED
    BY <2>2, <2>3
<1>7. ASSUME NEW q \in Range(u), NEW t
      PROVE  (t \in Older(st, q) <=> t \in Older(u, q)) /\ (t \in Older(st, q) => t # Head(st))
  <2>1. ASSUME t \in Older(st, q)
        PROVE  t \in Older(u, q) /\ t # Head(st)
    <3>1. PICK i, j \in 1 .. n : i <= j /\ q = st[i] /\ t = st[j]
      BY <2>1 DEF Older, n
    <3>2. i # 1
      BY <3>1, <1>1, <1>6
    <3>3. j # 1
      BY <3>1, <3>2
    <3>4. t # Head(st)
      BY <3>1, <3>3, <1>1, <1>4
    <3>5. i - 1 <= j - 1 /\ i - 1 \in 1 .. n - 1 /\ j - 1 \in 1 .. n - 1
      BY <3>1, <3>2, <3>3, <1>4
    <3>6. q = u[i - 1] /\ t = u[j - 1]
      BY <3>1, <3>2, <3>3, <3>5, <1>3, <1>4
    <3>7. t \in PDs
      BY <2>1 DEF Older
    <3> QED
      BY <3>4, <3>5, <3>6, <3>7, <1>3 DEF Older
  <2>2. ASSUME t \in Older(u, q)
        PROVE  t \in Older(st, q)
    <3>1. PICK i, j \in 1 .. n - 1 : i <= j /\ q = u[i] /\ t = u[j]
      BY <2>2, <1>3 DEF Older
    <3>2. i + 1 <= j + 1
      BY <3>1
    <3>3. t \in PDs
      BY <2>2 DEF Older
    <3> QED
      BY <3>1, <3>2, <3>3, <1>3, <1>4 DEF Older, n
  <2> QED
    BY <2>1, <2>2
<1> QED
  BY <1>5, <1>6, <1>7

-----------------------------------------------------------------------------
(* What programs have: a key k of the program p is one of its handles that *)
(* it has been given and has not closed, or one of its standard handles.   *)
Keys == Std \cup Handles
Held == [PDs -> [Keys -> Ids \cup {0, None}]]
Mappings == [PDs -> [Std -> Handles \cup {CON}]]

At(pu, p, k) == IF k \in Std THEN pu[p][k] ELSE k

(* The references to the entry h. *)
Points(hd, pu, R, h) ==
  {r \in R \X Keys : hd[r[1]][r[2]] # None /\ At(pu, r[1], r[2]) = h}

FileOf(x, h) == IF x.sft[h].f_ofd = CON THEN 0 ELSE x.ofd[x.sft[h].f_ofd].id

(* A key is for the file that the program got it for; the entry belongs to *)
(* the program, or to one that waits for it.                               *)
PointerOK(x, hd, pu, st, p, k) ==
  IF At(pu, p, k) = CON THEN hd[p][k] = 0
  ELSE /\ FileOf(x, At(pu, p, k)) = hd[p][k]
       /\ x.sft[At(pu, p, k)].f_own \in Older(st, p)
       /\ k \in Handles => x.sft[k].f_own = p

Refs(x, hd, pu, st) ==
  /\ Stacked(st) /\ hd \in Held /\ pu \in Mappings
  /\ \A p \in Range(st), k \in Std : hd[p][k] # None
  /\ \A p \in Range(st), k \in Keys :
       hd[p][k] # None => PointerOK(x, hd, pu, st, p, k)
  /\ \A h \in Handles : x.sft[h].f_use >= Cardinality(Points(hd, pu, Range(st), h))

LEMMA PointsFinite ==
  ASSUME NEW hd, NEW pu, NEW R, IsFiniteSet(R), NEW h
  PROVE  /\ IsFiniteSet(Points(hd, pu, R, h))
         /\ Cardinality(Points(hd, pu, R, h)) \in Nat
<1>1. IsFiniteSet(Keys)
  BY HandlesFinite, FS_Union DEF Keys
<1>2. IsFiniteSet(R \X Keys)
  BY <1>1, FS_Product
<1>3. Points(hd, pu, R, h) \in SUBSET (R \X Keys)
  BY DEF Points
<1>4. IsFiniteSet(Points(hd, pu, R, h))
  BY <1>2, <1>3, FS_Subset
<1> QED
  BY <1>4, FS_CardinalityType

LEMMA CountIs ==
  ASSUME NEW hd, NEW pu, NEW R, IsFiniteSet(R), NEW h \in Handles,
         \A p \in R, k \in Std : hd[p][k] # None
  PROVE  Cardinality(Points(hd, pu, R, h)) =
           Cardinality({p \in R : hd[p][h] # None}) +
           Cardinality({r \in R \X Std : pu[r[1]][r[2]] = h})
<1> DEFINE A == {p \in R : hd[p][h] # None}
           B == {r \in R \X Std : pu[r[1]][r[2]] = h}
           C == {r \in R \X {h} : hd[r[1]][r[2]] # None}
           P == Points(hd, pu, R, h)
<1>1. IsFiniteSet(A) /\ Cardinality(A) \in Nat
  <2>1. A \in SUBSET R
    OBVIOUS
  <2> HIDE DEF A
  <2> QED
    BY <2>1, FS_Subset, FS_CardinalityType
<1>2. IsFiniteSet(B) /\ Cardinality(B) \in Nat
  <2>1. IsFiniteSet(R \X Std)
    BY HandlesFinite, FS_Product
  <2>2. B \in SUBSET (R \X Std)
    OBVIOUS
  <2> HIDE DEF B
  <2> QED
    BY <2>1, <2>2, FS_Subset, FS_CardinalityType
<1>3. IsFiniteSet(C) /\ Cardinality(C) = Cardinality(A)
  <2> DEFINE f == [p \in A |-> <<p, h>>]
  <2>1. \A r \in C : r[1] \in A /\ r = <<r[1], h>>
    OBVIOUS
  <2>2. \A p \in A : <<p, h>> \in C
    OBVIOUS
  <2> HIDE DEF A, C
  <2>3. f \in [A -> C] /\ \A p \in A : f[p] = <<p, h>>
    BY <2>2
  <2>4. \A p, q \in A : f[p] = f[q] => p = q
    OBVIOUS
  <2> HIDE DEF f
  <2>5. \A r \in C : \E p \in A : f[p] = r
    BY <2>1, <2>3
  <2>6. f \in Injection(A, C)
    BY <2>3, <2>4 DEF Injection, IsInjective
  <2>7. f \in Surjection(A, C)
    BY <2>3, <2>5 DEF Surjection
  <2>8. ExistsBijection(A, C)
    BY <2>6, <2>7 DEF ExistsBijection, Bijection
  <2> QED
    BY <2>8, <1>1, FS_Bijection
<1>4. h \notin Std /\ h \in Keys /\ Std \subseteq Keys
  BY Distinct DEF Keys
<1>5. P = B \cup C
  <2>1. \A r \in P : r \in B \cup C
    BY DEF Points, At
  <2>2. \A r \in B \cup C : r \in P
    BY <1>4 DEF Points, At
  <2> QED
    BY <2>1, <2>2
<1>6. B \cap C = {}
  BY <1>4
<1> HIDE DEF A, B, C, P
<1>7. Cardinality(B \cup C) = Cardinality(B) + Cardinality(C) - Cardinality(B \cap C)
  BY <1>2, <1>3, FS_Union
<1>8. Cardinality(B \cap C) = 0
  BY <1>6, FS_EmptySet
<1> QED
  BY <1>1, <1>2, <1>3, <1>5, <1>7, <1>8 DEF A, B, P

-----------------------------------------------------------------------------
(* The invariant, and what follows from it. *)

Apart == \A s \in Slots : Strays(Now, s) # {} => s \in strayed

Inv ==
  /\ Good(Now, strayed) /\ Apart
  /\ Refs(Now, held, p_uft, stack)
  /\ clock \in 0 .. MaxClock

LEMMA NowIs ==
  /\ Now.sft = sft /\ Now.ofd = ofd /\ Now.d_files = d_files /\ Now.dir = dir
BY DEF Now

LEMMA KeyFacts ==
  ASSUME NEW x, Sound(x), NEW hd, NEW pu, NEW st, Refs(x, hd, pu, st),
         NEW p \in Range(st), NEW k \in Keys, hd[p][k] # None,
         NEW h, h = At(pu, p, k), h # CON
  PROVE  /\ h \in Handles
         /\ x.sft[h] \in Entries
         /\ EntryOK(x.sft[h])
         /\ x.sft[h].f_use > 0
         /\ x.sft[h].f_own # None
         /\ x.sft[h].f_ofd # None
         /\ FileOf(x, h) = hd[p][k]
         /\ x.sft[h].f_own \in Older(st, p)
         /\ k \in Handles => x.sft[h].f_own = p
<1>1. Stacked(st) /\ pu \in Mappings /\ PointerOK(x, hd, pu, st, p, k)
  BY DEF Refs
<1>2. p \in PDs /\ IsFiniteSet(Range(st))
  BY <1>1, StackFacts
<1>3. h \in Handles
  <2>1. CASE k \in Std
    BY <2>1, <1>1, <1>2 DEF At, Mappings
  <2>2. CASE k \notin Std
    BY <2>2 DEF At, Keys
  <2> QED
    BY <2>1, <2>2
<1>4. /\ FileOf(x, h) = hd[p][k] /\ x.sft[h].f_own \in Older(st, p)
      /\ k \in Handles => x.sft[h].f_own = p
  <2>1. k \in Handles => h = k
    BY Distinct DEF At
  <2> QED
    BY <2>1, <1>1 DEF PointerOK
<1>5. x.sft[h] \in Entries /\ EntryOK(x.sft[h])
  BY <1>3, Parts DEF Sound
<1>6. x.sft[h].f_own # None
  BY <1>4, Distinct DEF Older
<1>7. x.sft[h].f_use > 0 /\ x.sft[h].f_ofd # None
  BY <1>5, <1>6 DEF EntryOK
<1> QED
  BY <1>3, <1>4, <1>5, <1>6, <1>7

(* A free entry is not referred to. *)
LEMMA FreeEntry ==
  ASSUME NEW x, Sound(x), NEW hd, NEW pu, NEW st, Refs(x, hd, pu, st),
         NEW h \in Handles, x.sft[h].f_own = None
  PROVE  Points(hd, pu, Range(st), h) = {}
<1>1. x.sft[h] \in Entries /\ EntryOK(x.sft[h])
  BY Parts DEF Sound
<1>2. x.sft[h].f_use = 0
  BY <1>1, EntryFields DEF EntryOK
<1>3. IsFiniteSet(Range(st))
  BY StackFacts DEF Refs
<1>4. /\ IsFiniteSet(Points(hd, pu, Range(st), h))
      /\ Cardinality(Points(hd, pu, Range(st), h)) \in Nat
      /\ Cardinality(Points(hd, pu, Range(st), h)) <= 0
  BY <1>2, <1>3, PointsFinite DEF Refs
<1> QED
  BY <1>4, FS_EmptySet

LEMMA FileIs ==
  ASSUME Sound(Now), NEW h \in Handles, sft[h].f_ofd # None
  PROVE  IsFile(h, FileOf(Now, h))
<1> DEFINE o == sft[h].f_ofd
<1>1. o \in Ofds \cup {CON}
  BY NowIs, Parts, EntryFields DEF Sound
<1>2. CASE o = CON
  BY <1>2, NowIs DEF IsFile, FileOf
<1>3. CASE o \in Ofds
  <2>1. o \in Used(Now) /\ o # CON
    BY <1>3, NowIs, Distinct DEF Used, sftofdsrch
  <2>2. /\ ofd[o] # None /\ OfdOK(Now, o) /\ ofd[o] \in OFD
    BY <2>1, <1>3, NowIs, UsedParts, OfdParts
  <2>3. FileOf(Now, h) = ofd[o].id
    BY <2>1, NowIs DEF FileOf
  <2>4. ofd[o].id # 0
    <3>1. ofd[o].id \in Ids /\ 0 \notin Ids
      BY <2>2, OfdFields DEF Ids
    <3> QED
      BY <3>1
  <2>5. ofd[Base(Now, o)] # None /\ Dfd(Now, o).id = ofd[o].id
    BY <2>2, NowIs DEF OfdOK, Base, Dfd
  <2> QED
    BY <1>3, <2>2, <2>3, <2>4, <2>5 DEF IsFile
<1> QED
  BY <1>1, <1>2, <1>3

LEMMA InvLive ==
  ASSUME Inv
  PROVE  HandlesLive
<1>1. /\ Sound(Now) /\ Refs(Now, held, p_uft, stack) /\ Stacked(stack)
      /\ p_uft \in Mappings
  BY DEF Inv, Good, Refs
<1>2. Running = Range(stack) /\ IsFiniteSet(Running) /\ Running \subseteq PDs
  BY <1>1, StackFacts DEF Running
<1>3. ASSUME NEW p \in Running, NEW h \in Handles, held[p][h] # None
      PROVE  IsFile(h, held[p][h])
  <2>1. h \in Keys /\ At(p_uft, p, h) = h /\ h # CON
    BY Distinct DEF Keys, At
  <2>2. FileOf(Now, h) = held[p][h] /\ Now.sft[h].f_ofd # None
    <3>1. p \in Range(stack)
      BY <1>2
    <3>2. Sound(Now) /\ Refs(Now, held, p_uft, stack) /\ h \in Keys /\ held[p][h] # None
      BY <1>1, <1>3, <2>1
    <3>3. h = At(p_uft, p, h) /\ h # CON
      BY <2>1
    <3> QED
      BY <3>1, <3>2, <3>3, KeyFacts
  <2> QED
    BY <2>2, <1>1, NowIs, FileIs
<1>4. ASSUME NEW p \in Running, NEW i \in Std
      PROVE  IF p_uft[p][i] = CON THEN held[p][i] = 0
             ELSE IsFile(p_uft[p][i], held[p][i])
  <2>1. i \in Keys /\ At(p_uft, p, i) = p_uft[p][i] /\ held[p][i] # None
    BY <1>1, <1>2 DEF Keys, At, Refs
  <2>2. CASE p_uft[p][i] = CON
    BY <2>1, <2>2, <1>1, <1>2 DEF Refs, PointerOK
  <2>3. CASE p_uft[p][i] # CON
    <3>1. p \in Range(stack)
      BY <1>2
    <3>2. /\ p_uft[p][i] \in Handles
          /\ FileOf(Now, p_uft[p][i]) = held[p][i] /\ Now.sft[p_uft[p][i]].f_ofd # None
      BY <1>1, <2>1, <2>3, <3>1, KeyFacts
    <3> QED
      BY <3>2, <2>3, <1>1, NowIs, FileIs
  <2> QED
    BY <2>2, <2>3
<1>5. ASSUME NEW h \in Handles
      PROVE  sft[h].f_use >= References(h)
  <2>1. References(h) = Cardinality(Points(held, p_uft, Running, h))
    <3>1. \A p \in Running, k \in Std : held[p][k] # None
      BY <1>1, <1>2 DEF Refs
    <3> QED
      BY <3>1, <1>2, CountIs DEF References
  <2> QED
    BY <2>1, <1>1, <1>2, NowIs DEF Refs
<1>6. ASSUME NEW d \in Ofds, ofd[d] # None, ofd[d].o_dfd = d
      PROVE  ofd[d].o_usecnt = Cardinality({o \in Ofds : sftofdsrch(Now, o) /\ ofd[o].o_dfd = d})
  <2>1. Counted(Now, d)
    BY <1>1, <1>6, NowIs DEF Sound
  <2>2. Users(Now, d) = {o \in Ofds : sftofdsrch(Now, o) /\ ofd[o].o_dfd = d}
    BY NowIs DEF Users, Used
  <2> QED
    BY <2>1, <2>2, NowIs DEF Counted
<1> QED
  BY <1>3, <1>4, <1>5, <1>6 DEF HandlesLive

LEMMA InvTypes ==
  ASSUME Inv
  PROVE  TypeOK
<1>1. /\ Sound(Now) /\ Now \in Tables /\ Now.d_files \in Lists
      /\ Stacked(stack) /\ p_uft \in Mappings /\ clock \in 0 .. MaxClock
  BY GoodParts DEF Inv, Refs
<1>2. /\ sft \in [Handles -> Entries] /\ ofd \in [Ofds -> OFD \cup {None}]
      /\ dir \in [Slots -> FCB \cup {None}] /\ d_files \in Lists
  BY <1>1, NowIs, Parts
<1>3. \A h \in Handles : sft[h].f_use > 0 <=> sft[h].f_own # None
  BY <1>1, NowIs DEF Sound, EntryOK
<1>4. Range(d_files) \subseteq Ofds /\ IsInjective(d_files)
  BY <1>2, ListFacts DEF Lists
<1>5. IsInjective(stack) /\ Range(stack) \subseteq PDs
  BY <1>1, StackFacts DEF IsInjective, Stacked
<1> QED
  BY <1>1, <1>2, <1>3, <1>4, <1>5 DEF TypeOK, Entries, Mappings

LEMMA InvFollows ==
  ASSUME Inv
  PROVE  EntryFollowsDfd
BY NowIs DEF Inv, Good, Follows, Saves, EntryFollowsDfd

-----------------------------------------------------------------------------
(* The end of a call. *)
LEMMA MoreStrays ==
  ASSUME NEW x, NEW S, NEW T, Good(x, S), S \subseteq T
  PROVE  Good(x, T)
BY DEF Good, Follows

LEMMA CommitGood ==
  ASSUME NEW x, Good(x, strayed \cup {s \in Slots : Strays(x, s) # {}}), Commit(x)
  PROVE  Good(Now', strayed') /\ Apart' /\ Now' = x
<1> DEFINE S == strayed \cup {s \in Slots : Strays(x, s) # {}}
           T == {s \in Slots : Strays(x, s) # {} \/ (s \in strayed /\ UsedAt(x, s) # {})}
<1>1. strayed' = T
  BY DEF Commit
<1>2. Now' = x
  <2>1. x \in Tables
    BY GoodParts
  <2>2. Now' = [sft |-> x.sft, ofd |-> x.ofd, d_files |-> x.d_files, dir |-> x.dir]
    BY DEF Commit, Now
  <2> QED
    BY <2>1, <2>2 DEF Tables
<1>3. ASSUME NEW o \in Used(x), x.ofd[o].o_dirbyt \in S
      PROVE  x.ofd[o].o_dirbyt \in T
  <2>1. o \in Ofds /\ x.ofd[o] # None /\ x.ofd[o].o_dirbyt \in Slots
    BY UsedParts, OfdParts DEF Good
  <2>2. o \in UsedAt(x, x.ofd[o].o_dirbyt)
    BY <2>1 DEF UsedAt, Used
  <2> QED
    BY <2>1, <2>2, <1>3
<1>4. Good(x, T)
  <2>1. Good(x, S)
    OBVIOUS
  <2> HIDE DEF S, T
  <2>2. \A o \in Range(x.d_files) : o \in Used(x)
    BY <2>1 DEF Good, Listed
  <2>3. Follows(x, T)
    <3>1. ASSUME NEW o \in Used(x), NEW p \in Used(x), x.ofd[o].o_dirbyt = x.ofd[p].o_dirbyt
          PROVE  x.ofd[o].o_dfd = x.ofd[p].o_dfd \/ x.ofd[o].o_dirbyt \in T
      BY <2>1, <3>1, <1>3 DEF Good, Follows
    <3>2. ASSUME NEW o \in Range(x.d_files)
          PROVE  Saves(x, o) \/ x.ofd[o].o_dirbyt \in T
      BY <2>1, <2>2, <1>3 DEF Good, Follows
    <3> QED
      BY <3>1, <3>2 DEF Follows
  <2> QED
    BY <2>1, <2>3 DEF Good
<1>5. Apart'
  <2>1. \A s \in Slots : Strays(x, s) # {} => s \in T
    OBVIOUS
  <2> HIDE DEF T
  <2> QED
    BY <2>1, <1>1, <1>2 DEF Apart
<1> HIDE DEF T
<1> QED
  BY <1>1, <1>2, <1>4, <1>5

-----------------------------------------------------------------------------
(* A reference less. *)
LEMMA IdSame ==
  ASSUME NEW x, Sound(x), NEW y, Sound(y), SameFiles(x, y), NEW h \in Handles,
         y.sft[h].f_ofd = x.sft[h].f_ofd, x.sft[h].f_ofd # None
  PROVE  FileOf(y, h) = FileOf(x, h)
<1>1. y.sft[h].f_ofd \in Ofds \cup {CON}
  BY Parts, EntryFields DEF Sound
<1>2. CASE y.sft[h].f_ofd = CON
  BY <1>2 DEF FileOf
<1>3. CASE y.sft[h].f_ofd \in Ofds
  <2>1. y.sft[h].f_ofd \in Used(y) /\ y.sft[h].f_ofd # CON
    BY <1>3, Distinct DEF Used, sftofdsrch
  <2> QED
    BY <2>1 DEF FileOf, SameFiles
<1> QED
  BY <1>1, <1>2, <1>3

(* What closing a use leaves of an entry that is referred to twice. *)
LEMMA ClosedFacts ==
  ASSUME NEW x, Sound(x), NEW y, NEW h \in Handles, Closed(x, y, h), x.sft[h].f_use > 0
  PROVE  /\ \A g \in Handles \ {h} : y.sft[g] = x.sft[g]
         /\ y.sft[h].f_use = x.sft[h].f_use - 1
         /\ x.sft[h].f_use # 1 => /\ y.sft[h].f_ofd = x.sft[h].f_ofd
                                  /\ y.sft[h].f_own = x.sft[h].f_own
<1> DEFINE e == x.sft[h]
<1>1. x.sft \in [Handles -> Entries] /\ e \in Entries /\ EntryOK(e)
  BY Parts DEF Sound
<1>2. e.f_use \in Nat /\ e.f_ofd # None
  BY <1>1, EntryFields DEF EntryOK
<1>3. y.sft = [x.sft EXCEPT ![h] = Less(e)]
  BY DEF Closed
<1> HIDE DEF e
<1>4. (\A g \in Handles \ {h} : y.sft[g] = x.sft[g]) /\ y.sft[h] = Less(e)
  BY <1>1, <1>3
<1>5. CASE e.f_use = 1
  <2>1. Less(e) = NoEntry /\ NoEntry.f_use = 0
    BY <1>2, <1>5 DEF Less, NoEntry
  <2> QED
    BY <2>1, <1>4, <1>5 DEF e
<1>6. CASE e.f_use # 1
  <2>1. /\ Less(e).f_use = e.f_use - 1
        /\ Less(e).f_ofd = e.f_ofd
        /\ Less(e).f_own = e.f_own
    BY <1>1, <1>2, <1>6, LessFacts
  <2> QED
    BY <2>1, <1>4 DEF e
<1> QED
  BY <1>5, <1>6

LEMMA RefsLess ==
  ASSUME NEW x, Sound(x), NEW y, Sound(y), NEW h \in Handles, Closed(x, y, h),
         NEW hd, NEW pu, NEW st, Refs(x, hd, pu, st),
         NEW r \in Points(hd, pu, Range(st), h),
         NEW he \in Held, NEW pe \in Mappings,
         \A p \in Range(st), k \in Std : he[p][k] # None,
         \A p \in Range(st), k \in Keys : he[p][k] # None =>
           \/ <<p, k>> # r /\ he[p][k] = hd[p][k] /\ At(pe, p, k) = At(pu, p, k)
           \/ At(pe, p, k) = CON /\ he[p][k] = 0
  PROVE  Refs(y, he, pe, st)
<1> DEFINE R == Range(st)
           P(g) == Points(hd, pu, R, g)
           Q(g) == Points(he, pe, R, g)
<1>1. IsFiniteSet(R) /\ Stacked(st)
  BY StackFacts DEF Refs
<1>2. \A g : /\ IsFiniteSet(P(g)) /\ Cardinality(P(g)) \in Nat
             /\ IsFiniteSet(Q(g)) /\ Cardinality(Q(g)) \in Nat
  BY <1>1, PointsFinite
<1>3. ASSUME NEW g \in Handles
      PROVE  Q(g) \subseteq P(g) \ {r}
  <2> SUFFICES ASSUME NEW s \in Q(g)
               PROVE  s \in P(g) \ {r}
    OBVIOUS
  <2>1. /\ s \in R \X Keys /\ he[s[1]][s[2]] # None /\ At(pe, s[1], s[2]) = g
    BY DEF Points
  <2>2. s = <<s[1], s[2]>> /\ s[1] \in R /\ s[2] \in Keys
    BY <2>1
  <2>3. g # CON
    BY Distinct
  <2>4. s # r /\ he[s[1]][s[2]] = hd[s[1]][s[2]] /\ At(pe, s[1], s[2]) = At(pu, s[1], s[2])
    BY <2>1, <2>2, <2>3
  <2> QED
    BY <2>1, <2>4 DEF Points
<1>4. \A g \in Handles : /\ x.sft[g] \in Entries /\ x.sft[g].f_use \in Nat
                         /\ EntryOK(x.sft[g]) /\ x.sft[g].f_use >= Cardinality(P(g))
  BY Parts, EntryFields DEF Sound, Refs
<1>5. x.sft[h].f_use > 0
  <2>1. Cardinality(P(h)) # 0
    BY <1>2, FS_EmptySet
  <2> HIDE DEF P
  <2> QED
    BY <2>1, <1>2, <1>4
<1>6. /\ \A g \in Handles \ {h} : y.sft[g] = x.sft[g]
      /\ y.sft[h].f_use = x.sft[h].f_use - 1
      /\ x.sft[h].f_use # 1 => /\ y.sft[h].f_ofd = x.sft[h].f_ofd
                               /\ y.sft[h].f_own = x.sft[h].f_own
  BY <1>5, ClosedFacts
<1>7. IsFiniteSet(P(h) \ {r}) /\ Cardinality(P(h) \ {r}) = Cardinality(P(h)) - 1
  BY <1>2, FS_RemoveElement
<1>8. ASSUME NEW g \in Handles
      PROVE  y.sft[g].f_use >= Cardinality(Q(g))
  <2>1. CASE g # h
    <3>1. Q(g) \in SUBSET P(g)
      BY <1>3
    <3> HIDE DEF P, Q
    <3>2. Cardinality(Q(g)) <= Cardinality(P(g))
      BY <3>1, <1>2, FS_Subset
    <3>3. x.sft[g].f_use >= Cardinality(P(g)) /\ x.sft[g].f_use \in Nat
      BY <1>4
    <3>4. y.sft[g] = x.sft[g]
      BY <2>1, <1>6
    <3>5. Cardinality(P(g)) \in Nat /\ Cardinality(Q(g)) \in Nat
      BY <1>2
    <3> QED
      BY <3>2, <3>3, <3>4, <3>5
  <2>2. CASE g = h
    <3>1. Q(h) \in SUBSET (P(h) \ {r})
      BY <1>3
    <3> HIDE DEF P, Q
    <3>2. Cardinality(Q(h)) <= Cardinality(P(h)) - 1
      BY <3>1, <1>7, FS_Subset
    <3>3. x.sft[h].f_use >= Cardinality(P(h)) /\ x.sft[h].f_use \in Nat
      BY <1>4
    <3>4. y.sft[h].f_use = x.sft[h].f_use - 1
      BY <1>6
    <3>5. Cardinality(P(h)) \in Nat /\ Cardinality(Q(h)) \in Nat
      BY <1>2
    <3> QED
      BY <2>2, <3>2, <3>3, <3>4, <3>5
  <2> QED
    BY <2>1, <2>2
<1>9. ASSUME NEW p \in R, NEW k \in Keys, he[p][k] # None
      PROVE  PointerOK(y, he, pe, st, p, k)
  <2> DEFINE g == At(pe, p, k)
  <2>1. CASE g = CON
    <3>1. he[p][k] = 0
      <4>1. CASE he[p][k] = hd[p][k] /\ At(pe, p, k) = At(pu, p, k)
        <5>1. PointerOK(x, hd, pu, st, p, k)
          BY <1>9, <4>1 DEF Refs
        <5> QED
          BY <5>1, <4>1, <2>1 DEF PointerOK
      <4> QED
        BY <4>1, <1>9
    <3> QED
      BY <3>1, <2>1 DEF PointerOK
  <2>2. CASE g # CON
    <3>1. <<p, k>> # r /\ he[p][k] = hd[p][k] /\ g = At(pu, p, k)
      BY <1>9, <2>2
    <3>2. hd[p][k] # None
      BY <3>1, <1>9
    <3> HIDE DEF g
    <3>3. /\ g \in Handles /\ x.sft[g].f_ofd # None
          /\ FileOf(x, g) = hd[p][k] /\ x.sft[g].f_own \in Older(st, p)
          /\ k \in Handles => x.sft[g].f_own = p
      BY <2>2, <3>1, <3>2, KeyFacts
    <3>4. y.sft[g].f_ofd = x.sft[g].f_ofd /\ y.sft[g].f_own = x.sft[g].f_own
      <4>1. CASE g # h
        BY <4>1, <3>3, <1>6
      <4>2. CASE g = h
        <5>1. <<p, k>> \in P(h) \ {r}
          BY <3>1, <3>2, <4>2 DEF Points
        <5> HIDE DEF P
        <5>2. Cardinality(P(h)) - 1 # 0
          BY <5>1, <1>7, FS_EmptySet
        <5>3. Cardinality(P(h)) \in Nat /\ Cardinality(P(h)) # 0
          BY <5>1, <1>2, FS_EmptySet
        <5>4. x.sft[h].f_use \in Nat /\ x.sft[h].f_use >= Cardinality(P(h))
          BY <1>4
        <5>5. x.sft[h].f_use # 1
          BY <5>2, <5>3, <5>4
        <5> QED
          BY <5>5, <4>2, <1>6
      <4> QED
        BY <4>1, <4>2
    <3>5. FileOf(y, g) = FileOf(x, g)
      <4>1. SameFiles(x, y)
        BY DEF Closed
      <4>2. g \in Handles /\ x.sft[g].f_ofd # None /\ y.sft[g].f_ofd = x.sft[g].f_ofd
        BY <3>3, <3>4
      <4> QED
        BY <4>1, <4>2, IdSame
    <3>6. k \in Handles => g = k
      BY Distinct DEF g, At
    <3>7. k \in Handles => y.sft[k].f_own = p
      BY <3>3, <3>4, <3>6
    <3>8. FileOf(y, g) = he[p][k] /\ y.sft[g].f_own \in Older(st, p)
      BY <3>1, <3>3, <3>4, <3>5
    <3> QED
      BY <2>2, <3>7, <3>8 DEF PointerOK, g
  <2> QED
    BY <2>1, <2>2
<1> QED
  BY <1>1, <1>8, <1>9 DEF Refs

-----------------------------------------------------------------------------
(* Closing, as a step. *)
LEMMA InvParts ==
  ASSUME Inv
  PROVE  /\ Good(Now, strayed) /\ Sound(Now) /\ Now \in Tables
         /\ Refs(Now, held, p_uft, stack) /\ Stacked(stack)
         /\ held \in Held /\ p_uft \in Mappings
         /\ run \in Range(stack) /\ run \in PDs /\ Range(stack) \subseteq PDs
         /\ clock \in 0 .. MaxClock
<1>1. Good(Now, strayed) /\ Refs(Now, held, p_uft, stack) /\ clock \in 0 .. MaxClock
  BY DEF Inv
<1>2. Sound(Now) /\ Now \in Tables
  BY <1>1, GoodParts
<1>3. Stacked(stack) /\ held \in Held /\ p_uft \in Mappings
  BY <1>1 DEF Refs
<1>4. run \in Range(stack) /\ run \in PDs /\ Range(stack) \subseteq PDs
  BY <1>3, StackFacts DEF run
<1> QED
  BY <1>1, <1>2, <1>3, <1>4

(* One key changes. *)
KeyHeld(hd, he, p, k, id) ==
  /\ he \in Held
  /\ he[p][k] = id
  /\ \A q \in PDs, j \in Keys : q # p \/ j # k => he[q][j] = hd[q][j]

KeyMapped(pu, pe, p, i, h) ==
  /\ pe \in Mappings
  /\ At(pe, p, i) = h
  /\ \A q \in PDs, j \in Keys : q # p \/ j # i => At(pe, q, j) = At(pu, q, j)

LEMMA HeldWith ==
  ASSUME NEW hd \in Held, NEW p \in PDs, NEW k \in Keys, NEW id \in Ids \cup {0, None},
         NEW he, he = [hd EXCEPT ![p][k] = id]
  PROVE  KeyHeld(hd, he, p, k, id)
<1>1. he \in Held
  BY DEF Held
<1>2. he[p][k] = id
  BY DEF Held
<1>3. \A q \in PDs, j \in Keys : q # p \/ j # k => he[q][j] = hd[q][j]
  BY DEF Held
<1> QED
  BY <1>1, <1>2, <1>3 DEF KeyHeld

LEMMA MappedWith ==
  ASSUME NEW pu \in Mappings, NEW p \in PDs, NEW i \in Std, NEW h \in Handles \cup {CON},
         NEW pe, pe = [pu EXCEPT ![p][i] = h]
  PROVE  KeyMapped(pu, pe, p, i, h)
<1>1. pe \in Mappings
  BY DEF Mappings
<1>2. pe[p][i] = h
  BY DEF Mappings
<1>3. \A q \in PDs, j \in Std : q # p \/ j # i => pe[q][j] = pu[q][j]
  BY DEF Mappings
<1>4. \A q \in PDs, j \in Keys : q # p \/ j # i => At(pe, q, j) = At(pu, q, j)
  BY <1>3 DEF At
<1> QED
  BY <1>1, <1>2, <1>4 DEF KeyMapped, At

LEMMA CommitClosed ==
  ASSUME NEW x, Good(x, strayed), Commit(x)
  PROVE  Good(Now', strayed') /\ Apart' /\ Now' = x
<1>1. strayed \subseteq strayed \cup {s \in Slots : Strays(x, s) # {}}
  OBVIOUS
<1>2. Good(x, strayed \cup {s \in Slots : Strays(x, s) # {}})
  BY <1>1, MoreStrays
<1> QED
  BY <1>2, CommitGood

LEMMA CloseHandleInv ==
  ASSUME Inv, NEW h, CloseHandle(h)
  PROVE  Inv'
<1> DEFINE x == xclose(Now, h)
<1>1. /\ h \in Handles /\ held[run][h] # None /\ Commit(x)
      /\ held' = [held EXCEPT ![run][h] = None]
      /\ UNCHANGED <<p_uft, stack, clock>>
  BY DEF CloseHandle, Hold
<1>2. /\ Good(Now, strayed) /\ Sound(Now) /\ Refs(Now, held, p_uft, stack)
      /\ held \in Held /\ p_uft \in Mappings
      /\ run \in Range(stack) /\ run \in PDs /\ Range(stack) \subseteq PDs
  BY InvParts
<1>3. Good(x, strayed) /\ Closed(Now, x, h) /\ Sound(x)
  BY <1>1, <1>2, CloseGood DEF Good
<1> HIDE DEF x
<1>4. Good(Now', strayed') /\ Apart' /\ Now' = x
  BY <1>1, <1>3, CommitClosed
<1>5. h \in Keys /\ h \notin Std
  BY <1>1, Distinct DEF Keys
<1>11. KeyHeld(held, held', run, h, None)
  BY <1>1, <1>2, <1>5, HeldWith
<1>6. /\ held' \in Held /\ held'[run][h] = None
      /\ \A q \in PDs, j \in Keys : q # run \/ j # h => held'[q][j] = held[q][j]
  BY <1>11 DEF KeyHeld
<1>7. <<run, h>> \in Points(held, p_uft, Range(stack), h)
  BY <1>1, <1>2, <1>5 DEF Points, At
<1>8. \A p \in Range(stack), k \in Std : held'[p][k] # None
  BY <1>2, <1>5, <1>6 DEF Refs, Keys
<1>9. ASSUME NEW p \in Range(stack), NEW k \in Keys, held'[p][k] # None
      PROVE  \/ <<p, k>> # <<run, h>> /\ held'[p][k] = held[p][k]
                /\ At(p_uft, p, k) = At(p_uft, p, k)
             \/ At(p_uft, p, k) = CON /\ held'[p][k] = 0
  BY <1>2, <1>6, <1>9
<1>10. Refs(x, held', p_uft, stack)
  <2> DEFINE pe == p_uft
  <2>1. /\ Sound(Now) /\ Refs(Now, held, p_uft, stack) /\ held' \in Held /\ pe \in Mappings
        /\ Sound(x) /\ Closed(Now, x, h) /\ h \in Handles
    BY <1>1, <1>2, <1>3, <1>6
  <2>2. ASSUME NEW p \in Range(stack), NEW k \in Keys, held'[p][k] # None
        PROVE  \/ <<p, k>> # <<run, h>> /\ held'[p][k] = held[p][k]
                  /\ At(pe, p, k) = At(p_uft, p, k)
               \/ At(pe, p, k) = CON /\ held'[p][k] = 0
    BY <1>9, <2>2
  <2> HIDE DEF pe
  <2>3. Refs(x, held', pe, stack)
    BY <1>7, <1>8, <2>1, <2>2, RefsLess
  <2> QED
    BY <2>3 DEF pe
<1> QED
  BY <1>1, <1>4, <1>10 DEF Inv

(* A standard handle i of p gets its default. *)
LEMMA CloseStdRefs ==
  ASSUME NEW x, NEW S, Good(x, S), NEW hd, NEW pu, NEW st, Refs(x, hd, pu, st),
         NEW p \in Range(st), NEW i \in Std, NEW h, h = pu[p][i],
         NEW he, KeyHeld(hd, he, p, i, 0), NEW pe, KeyMapped(pu, pe, p, i, CON),
         NEW y, y = IF h = CON THEN x ELSE xclose(x, h)
  PROVE  Good(y, S) /\ Refs(y, he, pe, st)
<1>1. /\ Sound(x) /\ Stacked(st) /\ hd \in Held /\ pu \in Mappings
      /\ Range(st) \subseteq PDs /\ p \in PDs /\ i \in Keys
  BY StackFacts DEF Good, Refs, Keys
<1>2. hd[p][i] # None /\ PointerOK(x, hd, pu, st, p, i) /\ At(pu, p, i) = h
  BY <1>1 DEF Refs, At
<1>3. /\ he \in Held /\ he[p][i] = 0
      /\ \A q \in PDs, j \in Keys : q # p \/ j # i => he[q][j] = hd[q][j]
  BY DEF KeyHeld
<1>4. /\ pe \in Mappings /\ At(pe, p, i) = CON
      /\ \A q \in PDs, j \in Keys : q # p \/ j # i => At(pe, q, j) = At(pu, q, j)
  BY DEF KeyMapped
<1>5. h \in Handles \cup {CON}
  BY <1>1 DEF Mappings
<1>6. 0 # None
  BY Distinct
<1>7. \A q \in Range(st), k \in Std : he[q][k] # None
  BY <1>1, <1>3, <1>6 DEF Refs, Keys
<1>8. CASE h = CON
  <2>1. hd[p][i] = 0 /\ y = x
    BY <1>2, <1>8 DEF PointerOK
  <2>2. \A q \in Range(st), j \in Keys : he[q][j] = hd[q][j] /\ At(pe, q, j) = At(pu, q, j)
    BY <2>1, <1>1, <1>2, <1>3, <1>4, <1>8
  <2>3. \A g : Points(he, pe, Range(st), g) = Points(hd, pu, Range(st), g)
    <3> TAKE g
    <3>1. \A r \in Range(st) \X Keys : he[r[1]][r[2]] = hd[r[1]][r[2]]
                                       /\ At(pe, r[1], r[2]) = At(pu, r[1], r[2])
      BY <2>2
    <3> QED
      BY <3>1 DEF Points
  <2>4. ASSUME NEW q \in Range(st), NEW k \in Keys, he[q][k] # None
        PROVE  PointerOK(x, he, pe, st, q, k)
    <3>1. PointerOK(x, hd, pu, st, q, k)
      BY <2>2, <2>4 DEF Refs
    <3> QED
      BY <3>1, <2>2 DEF PointerOK
  <2> QED
    BY <2>1, <2>3, <2>4, <1>1, <1>3, <1>4, <1>7 DEF Refs
<1>9. CASE h \in Handles
  <2>1. h # CON /\ y = xclose(x, h)
    BY <1>9, Distinct
  <2>2. Good(y, S) /\ Closed(x, y, h) /\ Sound(y)
    BY <1>9, <2>1, CloseGood DEF Good
  <2>3. <<p, i>> \in Points(hd, pu, Range(st), h)
    BY <1>1, <1>2 DEF Points
  <2>4. ASSUME NEW q \in Range(st), NEW k \in Keys, he[q][k] # None
        PROVE  \/ <<q, k>> # <<p, i>> /\ he[q][k] = hd[q][k] /\ At(pe, q, k) = At(pu, q, k)
               \/ At(pe, q, k) = CON /\ he[q][k] = 0
    BY <1>1, <1>3, <1>4
  <2>5. Refs(y, he, pe, st)
    BY <1>1, <1>3, <1>4, <1>7, <1>9, <2>2, <2>3, <2>4, RefsLess
  <2> QED
    BY <2>2, <2>5
<1> QED
  BY <1>5, <1>8, <1>9

LEMMA CloseStdInv ==
  ASSUME Inv, NEW i \in Std, CloseStd(i)
  PROVE  Inv'
<1> DEFINE h == p_uft[run][i]
           x == IF h = CON THEN Now ELSE xclose(Now, h)
<1>1. /\ p_uft' = [p_uft EXCEPT ![run][i] = CON]
      /\ held' = [held EXCEPT ![run][i] = 0]
      /\ UNCHANGED <<stack, clock>>
  BY DEF CloseStd, Hold
<1>2. /\ Good(Now, strayed) /\ Refs(Now, held, p_uft, stack)
      /\ held \in Held /\ p_uft \in Mappings /\ run \in Range(stack) /\ run \in PDs
  BY InvParts
<1>3. i \in Keys
  BY DEF Keys
<1>4. KeyHeld(held, held', run, i, 0) /\ KeyMapped(p_uft, p_uft', run, i, CON)
  BY <1>1, <1>2, <1>3, HeldWith, MappedWith
<1> DEFINE z == x
<1>5. Good(z, strayed) /\ Refs(z, held', p_uft', stack)
  BY <1>2, <1>4, CloseStdRefs
<1>6. Good(Now', strayed') /\ Apart' /\ Now' = z
  <2>1. CASE h = CON
    <3>1. UNCHANGED <<sft, ofd, d_files, dir, strayed>>
      BY <2>1 DEF CloseStd
    <3>2. Now' = Now
      BY <3>1 DEF Now
    <3>3. Apart'
      BY <3>1, <3>2 DEF Inv, Apart
    <3> QED
      BY <2>1, <3>1, <3>2, <3>3, <1>2
  <2>2. CASE h # CON
    <3>1. Commit(z)
      BY <2>2 DEF CloseStd
    <3> QED
      BY <3>1, <1>5, CommitClosed
  <2> QED
    BY <2>1, <2>2
<1> QED
  BY <1>1, <1>5, <1>6 DEF Inv

-----------------------------------------------------------------------------
(* Entries that nothing points to any more may change, and programs end.   *)
LEMMA RefsFewer ==
  ASSUME NEW x, NEW hd, NEW pu, NEW st, Refs(x, hd, pu, st),
         NEW y, Sound(y), NEW he \in Held, NEW pe \in Mappings, NEW su, Stacked(su),
         Range(su) \subseteq Range(st),
         \A p \in Range(su) : Older(st, p) \subseteq Older(su, p),
         \A p \in Range(su), k \in Std : he[p][k] # None,
         \A p \in Range(su), k \in Keys : he[p][k] # None =>
           \/ he[p][k] = hd[p][k] /\ At(pe, p, k) = At(pu, p, k)
           \/ At(pe, p, k) = CON /\ he[p][k] = 0,
         \A h \in Handles : Points(he, pe, Range(su), h) # {} =>
           y.sft[h] = x.sft[h] /\ FileOf(y, h) = FileOf(x, h)
  PROVE  Refs(y, he, pe, su)
<1>1. ASSUME NEW h \in Handles
      PROVE  Points(he, pe, Range(su), h) \subseteq Points(hd, pu, Range(st), h)
  <2>1. h # CON
    BY Distinct
  <2> QED
    BY <2>1 DEF Points
<1>2. ASSUME NEW h \in Handles
      PROVE  y.sft[h].f_use >= Cardinality(Points(he, pe, Range(su), h))
  <2> DEFINE P == Points(hd, pu, Range(st), h)
             Q == Points(he, pe, Range(su), h)
  <2>1. IsFiniteSet(Range(st)) /\ IsFiniteSet(Range(su))
    BY StackFacts DEF Refs
  <2>2. IsFiniteSet(P) /\ Cardinality(P) \in Nat /\ IsFiniteSet(Q) /\ Cardinality(Q) \in Nat
    BY <2>1, PointsFinite
  <2>3. Q \subseteq P
    BY <1>1
  <2>4. x.sft[h].f_use >= Cardinality(P)
    BY DEF Refs
  <2>5. y.sft[h].f_use \in Nat
    BY Parts, EntryFields DEF Sound
  <2>6. Q # {} => y.sft[h] = x.sft[h]
    OBVIOUS
  <2> HIDE DEF P, Q
  <2>7. Cardinality(Q) <= Cardinality(P)
    BY <2>2, <2>3, FS_Subset
  <2>8. CASE Q = {}
    BY <2>5, <2>8, FS_EmptySet DEF Q
  <2>9. CASE Q # {}
    BY <2>2, <2>4, <2>5, <2>6, <2>7, <2>9 DEF Q
  <2> QED
    BY <2>8, <2>9
<1>3. ASSUME NEW p \in Range(su), NEW k \in Keys, he[p][k] # None
      PROVE  PointerOK(y, he, pe, su, p, k)
  <2>1. CASE At(pe, p, k) = CON /\ he[p][k] = 0
    BY <2>1 DEF PointerOK
  <2>2. CASE he[p][k] = hd[p][k] /\ At(pe, p, k) = At(pu, p, k)
    <3> DEFINE h == At(pe, p, k)
    <3>1. p \in Range(st)
      OBVIOUS
    <3>2. PointerOK(x, hd, pu, st, p, k)
      BY <1>3, <2>2, <3>1 DEF Refs
    <3>3. CASE h = CON
      BY <2>2, <3>2, <3>3 DEF PointerOK
    <3>4. CASE h # CON
      <4>1. p \in PDs
        BY StackFacts
      <4>2. h \in Handles
        BY <3>4, <4>1 DEF At, Mappings, Keys
      <4>3. <<p, k>> \in Points(he, pe, Range(su), h)
        BY <1>3 DEF Points
      <4>4. y.sft[h] = x.sft[h] /\ FileOf(y, h) = FileOf(x, h)
        BY <4>2, <4>3
      <4>5. /\ FileOf(x, h) = hd[p][k]
            /\ x.sft[h].f_own \in Older(st, p)
            /\ k \in Handles => x.sft[k].f_own = p
        BY <2>2, <3>2, <3>4 DEF PointerOK
      <4>6. k \in Handles => h = k
        BY Distinct DEF At
      <4> QED
        BY <2>2, <3>4, <4>4, <4>5, <4>6 DEF PointerOK
    <3> QED
      BY <3>3, <3>4
  <2> QED
    BY <1>3, <2>1, <2>2
<1> QED
  BY <1>2, <1>3 DEF Refs

(* A key of a program gets the entry g. *)
LEMMA RefsMore ==
  ASSUME NEW x, Sound(x), NEW hd, NEW pu, NEW st, Refs(x, hd, pu, st),
         NEW y, Sound(y), NEW p \in Range(st), NEW k \in Keys, NEW g \in Handles,
         NEW id, id # None, NEW he, KeyHeld(hd, he, p, k, id),
         NEW pe \in Mappings, At(pe, p, k) = g,
         \A q \in PDs, j \in Keys : q # p \/ j # k => At(pe, q, j) = At(pu, q, j),
         \A h \in Handles \ {g} : y.sft[h] = x.sft[h],
         \A h \in Handles \ {g} : x.sft[h].f_ofd # None => FileOf(y, h) = FileOf(x, h),
         y.sft[g].f_use >= Cardinality(Points(hd, pu, Range(st), g)) + 1,
         FileOf(y, g) = id, y.sft[g].f_own \in Older(st, p), k \in Handles => y.sft[g].f_own = p,
         \/ Points(hd, pu, Range(st), g) = {}
         \/ y.sft[g].f_own = x.sft[g].f_own /\ FileOf(y, g) = FileOf(x, g)
  PROVE  Refs(y, he, pe, st)
<1> DEFINE R == Range(st)
           P(h) == Points(hd, pu, R, h)
           Q(h) == Points(he, pe, R, h)
<1>1. /\ Stacked(st) /\ hd \in Held /\ pu \in Mappings /\ R \subseteq PDs /\ p \in PDs
      /\ IsFiniteSet(R)
  BY StackFacts DEF Refs
<1>2. /\ he \in Held /\ he[p][k] = id
      /\ \A q \in PDs, j \in Keys : q # p \/ j # k => he[q][j] = hd[q][j]
  BY DEF KeyHeld
<1>3. \A q \in R, j \in Std : he[q][j] # None
  BY <1>1, <1>2 DEF Refs, Keys
<1>4. \A h \in Handles : h # g => Q(h) \subseteq P(h)
  BY <1>1, <1>2 DEF Points
<1>5. Q(g) \subseteq P(g) \cup {<<p, k>>}
  BY <1>1, <1>2 DEF Points
<1>6. ASSUME NEW h \in Handles
      PROVE  y.sft[h].f_use >= Cardinality(Q(h))
  <2>1. /\ IsFiniteSet(P(h)) /\ Cardinality(P(h)) \in Nat
        /\ IsFiniteSet(Q(h)) /\ Cardinality(Q(h)) \in Nat
    BY <1>1, PointsFinite
  <2>2. x.sft[h].f_use >= Cardinality(P(h))
    BY DEF Refs
  <2>3. y.sft[h].f_use \in Nat /\ x.sft[h].f_use \in Nat
    BY Parts, EntryFields DEF Sound
  <2>4. CASE h # g
    <3>1. Cardinality(Q(h)) <= Cardinality(P(h))
      BY <1>4, <2>1, <2>4, FS_Subset
    <3> QED
      BY <2>1, <2>2, <2>3, <2>4, <3>1
  <2>5. CASE h = g
    <3> DEFINE T == P(h) \cup {<<p, k>>}
    <3>1. IsFiniteSet(T) /\ Cardinality(T) <= Cardinality(P(h)) + 1 /\ Cardinality(T) \in Nat
      <4>1. <<p, k>> \in P(h) => T = P(h)
        OBVIOUS
      <4> HIDE DEF P
      <4>2. /\ IsFiniteSet(T)
            /\ Cardinality(T) = IF <<p, k>> \in P(h) THEN Cardinality(P(h)) ELSE Cardinality(P(h)) + 1
        BY <2>1, FS_AddElement
      <4> QED
        BY <2>1, <4>2
    <3>2. Cardinality(Q(h)) <= Cardinality(T)
      BY <1>5, <2>5, <3>1, FS_Subset
    <3> QED
      BY <2>1, <2>3, <2>5, <3>1, <3>2
  <2> QED
    BY <2>4, <2>5
<1>7. ASSUME NEW q \in R, NEW j \in Keys, he[q][j] # None
      PROVE  PointerOK(y, he, pe, st, q, j)
  <2> DEFINE h == At(pe, q, j)
  <2>1. q \in PDs
    BY <1>1
  <2>2. CASE q = p /\ j = k
    <3>1. k \in Handles => k = g
      BY Distinct DEF At
    <3> QED
      BY <2>2, <3>1, <1>2, Distinct DEF PointerOK
  <2>3. CASE ~(q = p /\ j = k)
    <3>1. he[q][j] = hd[q][j] /\ h = At(pu, q, j)
      BY <1>2, <2>1, <2>3
    <3>2. hd[q][j] # None
      BY <1>7, <3>1
    <3>3. PointerOK(x, hd, pu, st, q, j)
      BY <3>2 DEF Refs
    <3>4. CASE h = CON
      BY <3>1, <3>3, <3>4 DEF PointerOK
    <3>5. CASE h # CON
      <4> DEFINE e == At(pu, q, j)
      <4>1. e # CON
        BY <3>1, <3>5
      <4>2. /\ e \in Handles /\ x.sft[e].f_ofd # None /\ FileOf(x, e) = hd[q][j]
            /\ x.sft[e].f_own \in Older(st, q)
            /\ j \in Handles => x.sft[e].f_own = q
        BY <3>2, <4>1, KeyFacts
      <4>3. <<q, j>> \in P(h)
        BY <3>1, <3>2 DEF Points
      <4>4. y.sft[h].f_own = x.sft[h].f_own /\ FileOf(y, h) = FileOf(x, h)
        BY <3>1, <4>2, <4>3
      <4>5. j \in Handles => j = h
        BY Distinct DEF At
      <4> QED
        BY <3>1, <3>5, <4>2, <4>4, <4>5 DEF PointerOK
    <3> QED
      BY <3>4, <3>5
  <2> QED
    BY <2>2, <2>3
<1> QED
  BY <1>1, <1>2, <1>3, <1>6, <1>7 DEF Refs

-----------------------------------------------------------------------------
(* Pterm: the standard handles below i have their defaults. *)
HeldFrom(i) ==
  [held EXCEPT ![run] = [k \in Keys |-> IF k \in Std /\ k < i THEN 0 ELSE held[run][k]]]

MappedFrom(i) ==
  [p_uft EXCEPT ![run] = [j \in Std |-> IF j < i THEN CON ELSE p_uft[run][j]]]

LEMMA FromFacts ==
  ASSUME held \in Held, p_uft \in Mappings, run \in PDs
  PROVE  /\ HeldFrom(0) = held /\ MappedFrom(0) = p_uft
         /\ \A i \in Nat : HeldFrom(i) \in Held /\ MappedFrom(i) \in Mappings
<1>1. Std \subseteq Nat /\ Handles \subseteq Nat /\ Keys \subseteq Nat
  BY Distinct DEF Keys
<1>2. 0 # None /\ CON # None
  BY Distinct
<1>3. ASSUME NEW i \in Nat
      PROVE  HeldFrom(i) \in Held /\ MappedFrom(i) \in Mappings
  <2>1. HeldFrom(i) \in Held
    BY DEF HeldFrom, Held
  <2>2. MappedFrom(i) \in Mappings
    BY DEF MappedFrom, Mappings
  <2> QED
    BY <2>1, <2>2
<1>4. HeldFrom(0) = held
  <2>1. [k \in Keys |-> IF k \in Std /\ k < 0 THEN 0 ELSE held[run][k]] = held[run]
    <3>1. \A k \in Keys : ~(k \in Std /\ k < 0)
      BY <1>1
    <3> QED
      BY <3>1 DEF Held
  <2> QED
    BY <2>1 DEF HeldFrom, Held
<1>5. MappedFrom(0) = p_uft
  <2>1. [j \in Std |-> IF j < 0 THEN CON ELSE p_uft[run][j]] = p_uft[run]
    <3>1. \A j \in Std : ~(j < 0)
      BY <1>1
    <3> QED
      BY <3>1 DEF Mappings
  <2> QED
    BY <2>1 DEF MappedFrom, Mappings
<1> QED
  BY <1>3, <1>4, <1>5

LEMMA FromStep ==
  ASSUME held \in Held, p_uft \in Mappings, run \in PDs, NEW i \in 1 .. NUMSTD
  PROVE  /\ KeyHeld(HeldFrom(i - 1), HeldFrom(i), run, i - 1, 0)
         /\ KeyMapped(MappedFrom(i - 1), MappedFrom(i), run, i - 1, CON)
         /\ MappedFrom(i - 1)[run][i - 1] = p_uft[run][i - 1]
<1> DEFINE j == i - 1
<1>1. /\ Std \subseteq Nat /\ Keys \subseteq Nat /\ j \in Std /\ j \in Keys
      /\ i \in Nat /\ j \in Nat /\ j < i
  BY Distinct, OpenFilesAssumption DEF Keys, Std
<1>2. /\ HeldFrom(i) \in Held /\ MappedFrom(i) \in Mappings
      /\ HeldFrom(j) \in Held /\ MappedFrom(j) \in Mappings
  BY <1>1, FromFacts
<1>3. \A k \in Nat : k < i <=> k < j \/ k = j
  BY <1>1
<1>4. \A n \in Nat, q \in PDs, k \in Keys :
        HeldFrom(n)[q][k] = IF q = run THEN IF k \in Std /\ k < n THEN 0 ELSE held[run][k]
                            ELSE held[q][k]
  BY DEF HeldFrom, Held
<1>5. \A n \in Nat, q \in PDs, k \in Std :
        MappedFrom(n)[q][k] = IF q = run THEN IF k < n THEN CON ELSE p_uft[run][k]
                              ELSE p_uft[q][k]
  BY DEF MappedFrom, Mappings
<1>6. KeyHeld(HeldFrom(j), HeldFrom(i), run, j, 0)
  <2>1. HeldFrom(i)[run][j] = 0
    BY <1>1, <1>4
  <2>2. \A q \in PDs, k \in Keys : q # run \/ k # j => HeldFrom(i)[q][k] = HeldFrom(j)[q][k]
    BY <1>1, <1>3, <1>4
  <2> QED
    BY <1>2, <2>1, <2>2 DEF KeyHeld
<1>7. KeyMapped(MappedFrom(j), MappedFrom(i), run, j, CON)
  <2>1. MappedFrom(i)[run][j] = CON
    BY <1>1, <1>5
  <2>3. \A q \in PDs, k \in Std : q # run \/ k # j => MappedFrom(i)[q][k] = MappedFrom(j)[q][k]
    <3> SUFFICES ASSUME NEW q \in PDs, NEW k \in Std, q # run \/ k # j
                 PROVE  MappedFrom(i)[q][k] = MappedFrom(j)[q][k]
      OBVIOUS
    <3>1. q = run => (k < i <=> k < j)
      BY <1>1, <1>3
    <3> HIDE DEF j
    <3>2. CASE q = run
      BY <1>1, <1>5, <3>1, <3>2
    <3>3. CASE q # run
      BY <1>1, <1>5, <3>3
    <3> QED
      BY <3>2, <3>3
  <2> HIDE DEF j
  <2>2. \A q \in PDs, k \in Keys : q # run \/ k # j =>
          At(MappedFrom(i), q, k) = At(MappedFrom(j), q, k)
    BY <2>3 DEF At
  <2> QED
    BY <1>1, <1>2, <2>1, <2>2 DEF KeyMapped, At
<1>8. MappedFrom(j)[run][j] = p_uft[run][j]
  BY <1>1, <1>5
<1> QED
  BY <1>6, <1>7, <1>8

LEMMA MappedGood ==
  ASSUME Inv
  PROVE  /\ Good(MappedClosed, strayed)
         /\ Refs(MappedClosed, HeldFrom(NUMSTD), MappedFrom(NUMSTD), stack)
<1> DEFINE n == NUMSTD
           q == [i \in 1 .. NUMSTD |-> i - 1]
           k == [kind |-> "mapped"]
           R == {r \in (0 .. n) \X Tables :
                   /\ Good(r[2], strayed)
                   /\ Refs(r[2], HeldFrom(r[1]), MappedFrom(r[1]), stack)}
<1>1. /\ Good(Now, strayed) /\ Refs(Now, held, p_uft, stack) /\ Now \in Tables
      /\ held \in Held /\ p_uft \in Mappings /\ run \in Range(stack) /\ run \in PDs
  BY InvParts
<1>2. n \in Nat /\ Len(q) = n /\ \A i \in 1 .. n : q[i] = i - 1
  BY OpenFilesAssumption
<1>3. <<0, Now>> \in R
  BY <1>1, <1>2, FromFacts
<1>4. ASSUME NEW i \in 1 .. n, NEW y, <<i - 1, y>> \in R
      PROVE  <<i, Step(k, y, q[i])>> \in R
  <2> DEFINE j == i - 1
             hd == HeldFrom(i - 1)
             he == HeldFrom(i)
             pu == MappedFrom(i - 1)
             pe == MappedFrom(i)
             h == p_uft[run][j]
             z == IF h = CON THEN y ELSE xclose(y, h)
  <2>1. Good(y, strayed) /\ Refs(y, hd, pu, stack)
    BY <1>4
  <2>2. KeyHeld(hd, he, run, j, 0) /\ KeyMapped(pu, pe, run, j, CON) /\ h = pu[run][j]
    BY <1>1, <1>2, FromStep
  <2>3. j \in Std
    BY <1>2 DEF Std
  <2>4. z = Step(k, y, q[i])
    BY <1>2 DEF Step, CloseMapped
  <2>5. Good(z, strayed) /\ Refs(z, he, pe, stack)
    <3> HIDE DEF h, hd, he, pu, pe, j
    <3> QED
      BY <1>1, <2>1, <2>2, <2>3, CloseStdRefs
  <2>6. z \in Tables /\ i \in 0 .. n
    BY <2>5, <1>2, GoodParts
  <2> QED
    BY <2>4, <2>5, <2>6
<1>5. Runs(k, Now, q, MappedClosed)
  BY MappedRuns
<1>6. <<Len(q), MappedClosed>> \in R
  <2>1. Len(q) \in Nat
    BY <1>2
  <2>2. \A i \in 1 .. Len(q) : i \in 1 .. n
    BY <1>2
  <2>3. ASSUME NEW i \in 1 .. Len(q), NEW y, <<i - 1, y>> \in R
        PROVE  <<i, Step(k, y, q[i])>> \in R
    BY <1>4, <2>2, <2>3
  <2> HIDE DEF R, k, n, q
  <2> QED
    BY <1>3, <1>5, <2>1, <2>3, RunReach
<1> QED
  BY <1>2, <1>6

(* The entry h of an ended program is closed once more. *)
LEMMA CloseOwnedRefs ==
  ASSUME NEW x, NEW S, Good(x, S), NEW hd, NEW pu, NEW st, Refs(x, hd, pu, st),
         NEW h \in Handles, \A p \in Range(st) : x.sft[h].f_own \notin Older(st, p),
         NEW y, y = xclose(x, h)
  PROVE  Good(y, S) /\ Refs(y, hd, pu, st)
<1>1. /\ Sound(x) /\ Stacked(st) /\ hd \in Held /\ pu \in Mappings
      /\ x.sft \in [Handles -> Entries]
      /\ \A p \in Range(st), k \in Std : hd[p][k] # None
  BY GoodParts DEF Good, Refs
<1>2. Good(y, S) /\ Closed(x, y, h) /\ Sound(y)
  BY CloseGood DEF Good
<1>3. ASSUME NEW g \in Handles, Points(hd, pu, Range(st), g) # {}
      PROVE  y.sft[g] = x.sft[g] /\ FileOf(y, g) = FileOf(x, g)
  <2>1. PICK r \in Range(st) \X Keys : hd[r[1]][r[2]] # None /\ At(pu, r[1], r[2]) = g
    BY <1>3 DEF Points
  <2> DEFINE p == r[1]
             k == r[2]
  <2>2. p \in Range(st) /\ k \in Keys /\ hd[p][k] # None /\ g = At(pu, p, k) /\ g # CON
    BY <2>1, Distinct
  <2>3. x.sft[g].f_own \in Older(st, p) /\ x.sft[g].f_ofd # None
    <3> HIDE DEF p, k
    <3> QED
      BY <1>1, <2>2, KeyFacts
  <2>4. g # h
    BY <2>2, <2>3
  <2>5. y.sft[g] = x.sft[g] /\ SameFiles(x, y)
    BY <1>1, <1>2, <2>4 DEF Closed
  <2> QED
    BY <1>1, <1>2, <2>3, <2>5, IdSame
<1> QED
  BY <1>1, <1>2, <1>3, RefsFewer

LEMMA PtermInv ==
  ASSUME Inv, Pterm
  PROVE  Inv'
<1> DEFINE n == OPNFILES
           q == [i \in 1 .. OPNFILES |-> NUMSTD + i - 1]
           k == [kind |-> "owned"]
           x == MappedClosed
           su == Tail(stack)
           R == {r \in (0 .. n) \X Tables :
                   Good(r[2], strayed) /\ Refs(r[2], held', p_uft', su)}
<1>1. /\ run # Shell /\ Commit(ixterm)
      /\ p_uft' = [p_uft EXCEPT ![run] = [i \in Std |-> CON]]
      /\ held' = [held EXCEPT ![run] = Unheld]
      /\ stack' = su /\ clock' = clock
  BY DEF Pterm
<1>2. /\ Stacked(stack) /\ held \in Held /\ p_uft \in Mappings /\ run \in PDs
      /\ clock \in 0 .. MaxClock
  BY InvParts
<1>3. /\ Stacked(su) /\ Range(su) = Range(stack) \ {run}
      /\ \A p \in Range(su) : Older(stack, p) = Older(su, p) /\ run \notin Older(stack, p)
  BY <1>1, <1>2, PopFacts DEF run
<1>4. held' \in Held /\ p_uft' \in Mappings
  <2>1. Unheld \in [Keys -> Ids \cup {0, None}]
    BY DEF Unheld, Keys
  <2>2. held' \in Held
    BY <1>1, <1>2, <2>1 DEF Held
  <2>3. p_uft' \in Mappings
    BY <1>1, <1>2 DEF Mappings
  <2> QED
    BY <2>2, <2>3
<1>5. ASSUME NEW p \in Range(su)
      PROVE  /\ \A j \in Keys : held'[p][j] = HeldFrom(NUMSTD)[p][j]
             /\ \A j \in Keys : At(p_uft', p, j) = At(MappedFrom(NUMSTD), p, j)
  <2>1. p \in PDs /\ p # run
    BY <1>3, StackFacts
  <2>2. held'[p] = held[p] /\ HeldFrom(NUMSTD)[p] = held[p]
    BY <1>1, <1>2, <2>1 DEF HeldFrom, Held
  <2>3. p_uft'[p] = p_uft[p] /\ MappedFrom(NUMSTD)[p] = p_uft[p]
    BY <1>1, <1>2, <2>1 DEF MappedFrom, Mappings
  <2> QED
    BY <2>2, <2>3 DEF At
<1>6. Good(x, strayed) /\ Sound(x) /\ Refs(x, HeldFrom(NUMSTD), MappedFrom(NUMSTD), stack)
  BY MappedGood DEF Good
<1>7. Refs(x, held', p_uft', su)
  <2> DEFINE hd == HeldFrom(NUMSTD)
             pu == MappedFrom(NUMSTD)
             he == held'
             pe == p_uft'
             y == x
  <2>1. \A p \in Range(su), j \in Std : he[p][j] # None
    BY <1>3, <1>5, <1>6 DEF Refs, Keys
  <2>2. \A p \in Range(su), j \in Keys : he[p][j] # None =>
          \/ he[p][j] = hd[p][j] /\ At(pe, p, j) = At(pu, p, j)
          \/ At(pe, p, j) = CON /\ he[p][j] = 0
    BY <1>5
  <2>3. \A h \in Handles : Points(he, pe, Range(su), h) # {} =>
          y.sft[h] = x.sft[h] /\ FileOf(y, h) = FileOf(x, h)
    OBVIOUS
  <2>4. /\ Sound(y) /\ he \in Held /\ pe \in Mappings /\ Refs(x, hd, pu, stack)
        /\ Stacked(su) /\ Range(su) \subseteq Range(stack)
        /\ \A p \in Range(su) : Older(stack, p) \subseteq Older(su, p)
    BY <1>3, <1>4, <1>6
  <2> HIDE DEF hd, pu, he, pe, y, x, su
  <2>5. Refs(y, he, pe, su)
    BY <2>1, <2>2, <2>3, <2>4, RefsFewer
  <2> QED
    BY <2>5 DEF y, he, pe
<1>8. n \in Nat /\ Len(q) = n /\ \A i \in 1 .. n : q[i] = NUMSTD + i - 1 /\ q[i] \in Handles
  BY OpenFilesAssumption DEF Handles
<1>9. <<0, x>> \in R
  BY <1>6, <1>7, <1>8, GoodParts
<1>10. ASSUME NEW i \in 1 .. n, NEW y, <<i - 1, y>> \in R
       PROVE  <<i, Step(k, y, q[i])>> \in R
  <2> DEFINE h == q[i]
             z == IF y.sft[h].f_own = run THEN xclose(y, h) ELSE y
  <2>1. Good(y, strayed) /\ Refs(y, held', p_uft', su)
    BY <1>10
  <2>2. z = Step(k, y, h)
    BY DEF Step, CloseOwned
  <2>3. Good(z, strayed) /\ Refs(z, held', p_uft', su)
    <3>1. CASE y.sft[h].f_own = run
      <4> DEFINE hd == held'
                 pu == p_uft'
      <4>1. \A p \in Range(su) : y.sft[h].f_own \notin Older(su, p)
        BY <1>3, <3>1
      <4>2. h \in Handles /\ z = xclose(y, h) /\ Refs(y, hd, pu, su)
        BY <1>8, <2>1, <3>1
      <4> HIDE DEF h, z, hd, pu, su
      <4>3. Good(z, strayed) /\ Refs(z, hd, pu, su)
        BY <2>1, <4>1, <4>2, CloseOwnedRefs
      <4> QED
        BY <4>3 DEF hd, pu
    <3>2. CASE y.sft[h].f_own # run
      BY <2>1, <3>2
    <3> QED
      BY <3>1, <3>2
  <2>4. z \in Tables /\ i \in 0 .. n
    BY <2>3, <1>8, GoodParts
  <2> QED
    BY <2>2, <2>3, <2>4
<1>11. Runs(k, x, q, ixterm)
  BY OwnedRuns
<1>12. <<Len(q), ixterm>> \in R
  <2>1. Len(q) \in Nat
    BY <1>8
  <2>2. \A i \in 1 .. Len(q) : i \in 1 .. n
    BY <1>8
  <2>3. ASSUME NEW i \in 1 .. Len(q), NEW y, <<i - 1, y>> \in R
        PROVE  <<i, Step(k, y, q[i])>> \in R
    BY <1>10, <2>2, <2>3
  <2> HIDE DEF R, k, n, q, x
  <2> QED
    BY <1>9, <1>11, <2>1, <2>3, RunReach
<1>13. Good(ixterm, strayed) /\ Refs(ixterm, held', p_uft', su)
  BY <1>12
<1>14. Good(Now', strayed') /\ Apart' /\ Now' = ixterm
  BY <1>1, <1>13, CommitClosed
<1> QED
  BY <1>1, <1>2, <1>13, <1>14 DEF Inv

-----------------------------------------------------------------------------
(* Writing and renaming. *)
LEMMA RefsKept ==
  ASSUME NEW x, Sound(x), NEW hd, NEW pu, NEW st, Refs(x, hd, pu, st),
         NEW y, Sound(y), y.sft = x.sft,
         \A o \in Used(x) : y.ofd[o].id = x.ofd[o].id
  PROVE  Refs(y, hd, pu, st)
<1>1. /\ Stacked(st) /\ hd \in Held /\ pu \in Mappings
      /\ \A p \in Range(st), k \in Std : hd[p][k] # None
  BY DEF Refs
<1>2. ASSUME NEW g \in Handles, Points(hd, pu, Range(st), g) # {}
      PROVE  y.sft[g] = x.sft[g] /\ FileOf(y, g) = FileOf(x, g)
  <2>1. PICK r \in Range(st) \X Keys : hd[r[1]][r[2]] # None /\ At(pu, r[1], r[2]) = g
    BY <1>2 DEF Points
  <2> DEFINE p == r[1]
             k == r[2]
  <2>2. p \in Range(st) /\ k \in Keys /\ hd[p][k] # None /\ g = At(pu, p, k) /\ g # CON
    BY <2>1, Distinct
  <2>3. x.sft[g].f_ofd # None
    <3> HIDE DEF p, k
    <3> QED
      BY <2>2, KeyFacts
  <2>4. x.sft[g].f_ofd \in Ofds \cup {CON}
    BY <2>3, Parts, EntryFields DEF Sound
  <2>5. x.sft[g].f_ofd # CON => x.sft[g].f_ofd \in Used(x)
    BY <2>4 DEF Used, sftofdsrch
  <2> QED
    BY <2>5 DEF FileOf
<1> QED
  BY <1>1, <1>2, RefsFewer

LEMMA GoodKept ==
  ASSUME NEW x, NEW S, Good(x, S), NEW y \in Tables, y.sft = x.sft, y.d_files = x.d_files,
         AlikeOfds(x, y),
         \A s \in Slots : (y.dir[s] = None <=> x.dir[s] = None)
                          /\ (x.dir[s] # None => y.dir[s].id = x.dir[s].id),
         \A o \in Range(x.d_files) : Saves(y, o) \/ x.ofd[o].o_dirbyt \in S
  PROVE  /\ Good(y, S) /\ Sound(y)
         /\ \A o \in Used(x) : y.ofd[o].id = x.ofd[o].id
         /\ \A s \in Slots : UsedAt(y, s) = UsedAt(x, s)
<1>1. /\ Sound(x) /\ Listed(x) /\ Follows(x, S) /\ x.d_files \in Lists
  BY GoodParts
<1>2. Used(y) = Used(x) /\ \A h \in Handles : EntryOK(y.sft[h])
  BY <1>1 DEF Used, sftofdsrch, Sound
<1>3. Sound(y)
  BY <1>1, <1>2, SoundSame
<1>4. ASSUME NEW o \in Used(x)
      PROVE  /\ o \in Ofds /\ x.ofd[o] # None /\ y.ofd[o] # None
             /\ y.ofd[o].o_dirbyt = x.ofd[o].o_dirbyt
             /\ y.ofd[o].o_dfd = x.ofd[o].o_dfd /\ y.ofd[o].id = x.ofd[o].id
             /\ x.ofd[o].o_dirbyt \in Slots
  BY <1>1, UsedParts, OfdParts DEF AlikeOfds, Alike
<1>5. Range(x.d_files) \subseteq Used(x)
  BY <1>1 DEF Listed
<1>6. Listed(y)
  <2>1. ASSUME NEW o \in Range(x.d_files)
        PROVE  /\ o \in Used(y)
               /\ y.dir[y.ofd[o].o_dirbyt] # None
               /\ y.dir[y.ofd[o].o_dirbyt].id = y.ofd[o].id
    BY <1>1, <1>2, <1>4, <1>5 DEF Listed
  <2>2. ASSUME NEW o \in Range(x.d_files), NEW p \in Range(x.d_files),
               y.ofd[o].o_dirbyt = y.ofd[p].o_dirbyt
        PROVE  y.ofd[o].o_dfd = y.ofd[p].o_dfd
    BY <1>1, <1>4, <1>5, <2>2 DEF Listed
  <2> QED
    BY <1>1, <2>1, <2>2 DEF Listed
<1>7. Follows(y, S)
  <2>1. ASSUME NEW o \in Used(x), NEW p \in Used(x), y.ofd[o].o_dirbyt = y.ofd[p].o_dirbyt
        PROVE  y.ofd[o].o_dfd = y.ofd[p].o_dfd \/ y.ofd[o].o_dirbyt \in S
    BY <1>1, <1>4, <2>1 DEF Follows
  <2>2. \A o \in Range(x.d_files) : Saves(y, o) \/ y.ofd[o].o_dirbyt \in S
    BY <1>4, <1>5
  <2> QED
    BY <1>2, <2>1, <2>2 DEF Follows
<1>8. \A s \in Slots : UsedAt(y, s) = UsedAt(x, s)
  <2> TAKE s \in Slots
  <2>1. ASSUME NEW o \in Ofds
        PROVE  o \in UsedAt(y, s) <=> o \in UsedAt(x, s)
    BY <1>2, <1>4 DEF UsedAt, Used
  <2> QED
    BY <2>1 DEF UsedAt
<1> QED
  BY <1>3, <1>4, <1>6, <1>7 , <1>8 DEF Good

(* What leaves sft, what is held and the strays alone keeps the invariant. *)
LEMMA KeptInv ==
  ASSUME Inv, Now'.sft = Now.sft, Now'.d_files = Now.d_files,
         UNCHANGED <<p_uft, stack, held, strayed>>, clock' \in 0 .. MaxClock,
         Good(Now', strayed), Sound(Now'),
         \A o \in Used(Now) : Now'.ofd[o].id = Now.ofd[o].id,
         \A s \in Slots : UsedAt(Now', s) = UsedAt(Now, s)
  PROVE  Inv'
<1>1. Sound(Now) /\ Refs(Now, held, p_uft, stack)
  BY InvParts
<1>2. Refs(Now', held, p_uft, stack)
  <2> DEFINE y == Now'
  <2>1. Sound(y) /\ y.sft = Now.sft /\ \A o \in Used(Now) : y.ofd[o].id = Now.ofd[o].id
    OBVIOUS
  <2> HIDE DEF y
  <2>2. Refs(y, held, p_uft, stack)
    BY <1>1, <2>1, RefsKept
  <2> QED
    BY <2>2 DEF y
<1>3. \A s \in Slots : Strays(Now', s) # {} => s \in strayed
  BY DEF Inv, Apart, Strays
<1> QED
  BY <1>2, <1>3 DEF Inv, Apart

LEMMA RenameInv ==
  ASSUME Inv, NEW name \in Names, NEW new \in Names, xrename(name, new)
  PROVE  Inv'
<1> DEFINE x == Now
           y == Now'
<1>1. PICK s \in FileAt(name) : dir' = [dir EXCEPT ![s].name = new]
  BY DEF xrename
<1>2. UNCHANGED <<sft, ofd, d_files, p_uft, stack, held, strayed, clock>>
  BY DEF xrename
<1>3. Good(x, strayed) /\ clock \in 0 .. MaxClock
  BY InvParts
<1>4. s \in Slots /\ dir[s] # None /\ dir \in [Slots -> FCB \cup {None}]
  BY <1>1, <1>3, NowIs, GoodParts DEF FileAt
<1>5. [dir[s] EXCEPT !.name = new] \in FCB
  BY <1>4 DEF FCB
<1>6. dir' \in [Slots -> FCB \cup {None}]
  BY <1>1, <1>4, <1>5
<1>7. y = [x EXCEPT !.dir = dir']
  BY <1>2 DEF Now
<1>8. /\ y \in Tables /\ y.dir = dir'
      /\ y.sft = x.sft /\ y.ofd = x.ofd /\ y.d_files = x.d_files
  <2> DEFINE f == dir'
  <2>1. x \in Tables /\ f \in [Slots -> FCB \cup {None}] /\ y = [x EXCEPT !.dir = f]
    BY <1>3, <1>6, <1>7, GoodParts
  <2> HIDE DEF x, y, f
  <2>2. y \in Tables /\ y.dir = f /\ y.sft = x.sft /\ y.ofd = x.ofd /\ y.d_files = x.d_files
    BY <2>1, WithDir
  <2> QED
    BY <2>2 DEF f
<1>9. AlikeOfds(x, y)
  BY <1>8 DEF AlikeOfds, Alike
<1>10. ASSUME NEW t \in Slots
       PROVE  /\ y.dir[t] = None <=> x.dir[t] = None
              /\ x.dir[t] # None => y.dir[t].id = x.dir[t].id /\ y.dir[t].ver = x.dir[t].ver
  <2>1. x.dir = dir /\ y.dir = dir'
    BY <1>8, NowIs
  <2>2. CASE t = s
    <3>1. y.dir[t] = [dir[s] EXCEPT !.name = new]
      BY <1>1, <1>4, <2>1, <2>2
    <3>2. y.dir[t] # None
      BY <1>5, <3>1, OpenFilesAssumption
    <3>3. dir[s] \in FCB
      BY <1>4
    <3> QED
      BY <1>4, <2>1, <2>2, <3>1, <3>2, <3>3 DEF FCB
  <2>3. CASE t # s
    BY <1>1, <1>4, <2>1, <2>3
  <2> QED
    BY <2>2, <2>3
<1>11. \A o \in Range(x.d_files) : Saves(y, o) \/ x.ofd[o].o_dirbyt \in strayed
  <2> TAKE o \in Range(x.d_files)
  <2>1. Saves(x, o) \/ x.ofd[o].o_dirbyt \in strayed
    BY <1>3 DEF Good, Follows
  <2>2. o \in Used(x) /\ x.dir[x.ofd[o].o_dirbyt] # None /\ Sound(x)
    BY <1>3 DEF Good, Listed
  <2>3. x.ofd[o].o_dirbyt \in Slots
    BY <2>2, UsedParts, OfdParts
  <2>4. y.dir[x.ofd[o].o_dirbyt].ver = x.dir[x.ofd[o].o_dirbyt].ver
    BY <1>10, <2>2, <2>3
  <2>5. Dfd(y, o) = Dfd(x, o)
    BY <1>8 DEF Dfd, Base
  <2> QED
    BY <1>8, <2>1, <2>4, <2>5 DEF Saves
<1>12. /\ Good(y, strayed) /\ Sound(y)
       /\ \A o \in Used(x) : y.ofd[o].id = x.ofd[o].id
       /\ \A t \in Slots : UsedAt(y, t) = UsedAt(x, t)
  <2>1. \A t \in Slots : (y.dir[t] = None <=> x.dir[t] = None)
                         /\ (x.dir[t] # None => y.dir[t].id = x.dir[t].id)
    BY <1>10
  <2> HIDE DEF x, y
  <2> QED
    BY <1>3, <1>8, <1>9, <1>11, <2>1, GoodKept
<1> QED
  BY <1>2, <1>3, <1>8, <1>12, KeptInv

(* The handle that a program uses. *)
LEMMA TargetFacts ==
  ASSUME Inv, NEW h \in Keys, held[run][h] # None, NEW g, g = Target(h), g # CON
  PROVE  /\ g \in Handles /\ sft[g] \in Entries /\ EntryOK(sft[g])
         /\ sft[g].f_use > 0 /\ sft[g].f_ofd # None
         /\ FileOf(Now, g) = held[run][h] /\ sft[g].f_own \in Older(stack, run)
<1> DEFINE hd == held
           pu == p_uft
           st == stack
           x == Now
           p == run
<1>1. /\ Sound(x) /\ Refs(x, hd, pu, st) /\ p \in Range(st) /\ hd[p][h] # None
      /\ x.sft = sft
  BY InvParts, NowIs
<1>2. g = At(pu, p, h)
  BY DEF Target, At
<1> HIDE DEF hd, pu, st, x, p
<1>3. /\ g \in Handles /\ x.sft[g] \in Entries /\ EntryOK(x.sft[g])
      /\ x.sft[g].f_use > 0 /\ x.sft[g].f_ofd # None
      /\ FileOf(x, g) = hd[p][h] /\ x.sft[g].f_own \in Older(st, p)
  BY <1>1, <1>2, KeyFacts
<1> QED
  BY <1>1, <1>3 DEF hd, st, x, p

LEMMA WriteInv ==
  ASSUME Inv, NEW h \in Std \cup Handles, xwrite(h)
  PROVE  Inv'
<1> DEFINE x == Now
           y == Now'
           g == Target(h)
           o == sft[g].f_ofd
           b == Base(Now, o)
           v == clock + 1
<1>1. /\ clock < MaxClock /\ held[run][h] # None /\ g # CON
      /\ o \notin {None, CON} /\ ofd[o] # None
      /\ ofd' = [ofd EXCEPT ![b].dirty = TRUE, ![b].ver = v]
      /\ clock' = v
      /\ UNCHANGED <<sft, d_files, dir, p_uft, stack, held, strayed>>
  BY DEF xwrite
<1>2. Good(x, strayed) /\ Sound(x) /\ clock \in 0 .. MaxClock
  BY InvParts
<1>3. g \in Handles /\ sft[g] \in Entries
  <2>1. h \in Keys
    BY DEF Keys
  <2> QED
    BY <1>1, <2>1, TargetFacts
<1>4. o \in Used(x)
  BY <1>1, <1>3, EntryFields, NowIs DEF Used, sftofdsrch
<1>5. /\ b \in Ofds /\ ofd[b] \in OFD /\ ofd \in [Ofds -> OFD \cup {None}]
  <2>1. o \in Ofds /\ x.ofd[o] # None
    BY <1>2, <1>4, UsedParts
  <2>2. x.ofd[o].o_dfd \in Ofds /\ x.ofd[x.ofd[o].o_dfd] \in OFD
    BY <1>2, <2>1, OfdParts
  <2> QED
    BY <1>2, <2>2, NowIs, GoodParts DEF Base
<1> DEFINE e == [ofd[b] EXCEPT !.dirty = TRUE, !.ver = v]
<1>6. /\ v \in Ids /\ v \in 0 .. MaxClock
  BY <1>1, <1>2, OpenFilesAssumption DEF Ids
<1>7. e \in OFD /\ Alike(ofd[b], e) /\ e.dirty = TRUE
  BY <1>5, <1>6 DEF OFD, Alike
<1>8. ofd' = [ofd EXCEPT ![b] = e]
  BY <1>1, <1>5
<1> HIDE DEF e, b, v
<1>9. ofd' \in [Ofds -> OFD \cup {None}] /\ y = [x EXCEPT !.ofd = ofd']
  <2>1. ofd' \in [Ofds -> OFD \cup {None}]
    BY <1>5, <1>7, <1>8
  <2>2. UNCHANGED <<sft, d_files, dir>>
    BY <1>1
  <2>3. y = [x EXCEPT !.ofd = ofd']
    BY <2>2 DEF Now
  <2> QED
    BY <2>1, <2>3
<1>10. /\ y \in Tables /\ y.ofd = ofd'
       /\ y.sft = x.sft /\ y.dir = x.dir /\ y.d_files = x.d_files
  <2> DEFINE f == ofd'
  <2>1. x \in Tables /\ f \in [Ofds -> OFD \cup {None}] /\ y = [x EXCEPT !.ofd = f]
    BY <1>2, <1>9, GoodParts
  <2> HIDE DEF x, y, f
  <2>2. y \in Tables /\ y.ofd = f /\ y.sft = x.sft /\ y.dir = x.dir /\ y.d_files = x.d_files
    BY <2>1, WithOfd
  <2> QED
    BY <2>2 DEF f
<1>11. AlikeOfds(x, y)
  <2> SUFFICES ASSUME NEW p \in Ofds
               PROVE  /\ y.ofd[p] = None <=> x.ofd[p] = None
                      /\ x.ofd[p] # None => Alike(x.ofd[p], y.ofd[p])
    BY DEF AlikeOfds
  <2>1. x.ofd = ofd /\ y.ofd = ofd'
    BY <1>10, NowIs
  <2>2. CASE p = b
    BY <1>5, <1>7, <1>8, <2>1, <2>2, OfdFields
  <2>3. CASE p # b
    BY <1>5, <1>8, <2>1, <2>3 DEF Alike
  <2> QED
    BY <2>2, <2>3
<1>12. \A p \in Range(x.d_files) : Saves(y, p) \/ x.ofd[p].o_dirbyt \in strayed
  <2> TAKE p \in Range(x.d_files)
  <2>1. Saves(x, p) \/ x.ofd[p].o_dirbyt \in strayed
    BY <1>2 DEF Good, Follows
  <2>2. p \in Used(x)
    BY <1>2 DEF Good, Listed
  <2>3. p \in Ofds /\ x.ofd[p] # None
    BY <1>2, <2>2, UsedParts
  <2>4. x.ofd[p].o_dfd \in Ofds
    BY <1>2, <2>3, OfdParts
  <2>5. y.ofd[p].o_dirbyt = x.ofd[p].o_dirbyt /\ y.ofd[p].o_dfd = x.ofd[p].o_dfd
    BY <1>11, <2>3 DEF AlikeOfds, Alike
  <2>6. x.ofd = ofd /\ y.ofd = ofd'
    BY <1>10, NowIs
  <2>7. CASE x.ofd[p].o_dfd = b
    <3>1. Dfd(y, p) = e
      BY <1>5, <1>8, <2>5, <2>6, <2>7 DEF Dfd, Base
    <3> QED
      BY <1>7, <3>1 DEF Saves
  <2>8. CASE x.ofd[p].o_dfd # b
    <3>1. Dfd(y, p) = Dfd(x, p)
      BY <1>5, <1>8, <2>4, <2>5, <2>6, <2>8 DEF Dfd, Base
    <3> QED
      BY <1>10, <2>1, <2>5, <3>1 DEF Saves
  <2> QED
    BY <2>7, <2>8
<1>13. /\ Good(y, strayed) /\ Sound(y)
       /\ \A p \in Used(x) : y.ofd[p].id = x.ofd[p].id
       /\ \A t \in Slots : UsedAt(y, t) = UsedAt(x, t)
  <2>1. \A t \in Slots : (y.dir[t] = None <=> x.dir[t] = None)
                         /\ (x.dir[t] # None => y.dir[t].id = x.dir[t].id)
    BY <1>10
  <2> HIDE DEF x, y
  <2> QED
    BY <1>2, <1>10, <1>11, <1>12, <2>1, GoodKept
<1> QED
  BY <1>1, <1>6, <1>10, <1>13, KeptInv

-----------------------------------------------------------------------------
(* Handles that are given to a program, duplicated or inherited. *)

(* Only the sft changes: the same OFDs are in use. *)
LEMMA SharedGood ==
  ASSUME Inv, NEW f \in [Handles -> Entries], \A h \in Handles : EntryOK(f[h]),
         {o \in Ofds : \E h \in Handles : f[h].f_ofd = o} = Used(Now),
         sft' = f, UNCHANGED <<ofd, d_files, dir, strayed>>
  PROVE  /\ Good(Now', strayed') /\ Sound(Now') /\ Apart' /\ SameFiles(Now, Now')
         /\ Now'.sft = f
<1> DEFINE x == Now
           y == Now'
<1>1. Good(x, strayed) /\ Apart /\ x.sft = sft /\ x.ofd = ofd
  BY NowIs DEF Inv
<1>2. y = [x EXCEPT !.sft = f]
  BY DEF Now
<1>3. Good(y, strayed) /\ y.sft = f /\ SameFiles(x, y)
  <2>1. Good(x, strayed) /\ {o \in Ofds : \E h \in Handles : f[h].f_ofd = o} = Used(x)
    BY <1>1
  <2> HIDE DEF x, y
  <2> QED
    BY <1>2, <2>1, UsesChanged
<1>4. Used(y) = Used(x)
  BY <1>3 DEF Used, sftofdsrch
<1>5. y.ofd = x.ofd /\ y.d_files = x.d_files
  BY DEF Now
<1>6. \A s \in Slots : Strays(y, s) = Strays(x, s)
  <2> TAKE s \in Slots
  <2>1. UsedAt(y, s) = UsedAt(x, s)
    BY <1>4, <1>5 DEF UsedAt, Used
  <2> QED
    BY <1>5, <2>1 DEF Strays
<1>7. Apart'
  BY <1>1, <1>6 DEF Apart
<1>8. strayed' = strayed /\ Sound(y)
  BY <1>3 DEF Good
<1> QED
  BY <1>3, <1>7, <1>8

LEMMA DupInv ==
  ASSUME Inv, NEW i \in Std, xdup(i)
  PROVE  Inv'
<1> DEFINE h == FreeHandle(Now)
           m == p_uft[run][i]
           e == [f_ofd |-> IF m = CON THEN CON ELSE sft[m].f_ofd, f_own |-> run, f_use |-> 1]
           f == [sft EXCEPT ![h] = e]
           x == Now
           y == Now'
<1>1. /\ FreeHandles(Now) # {}
      /\ sft' = f
      /\ held' = [held EXCEPT ![run][h] = held[run][i]]
      /\ UNCHANGED <<ofd, d_files, dir, p_uft, stack, strayed, clock>>
  BY DEF xdup, Hold
<1>2. /\ Good(x, strayed) /\ Sound(x) /\ Refs(x, held, p_uft, stack) /\ Stacked(stack)
      /\ held \in Held /\ p_uft \in Mappings
      /\ run \in Range(stack) /\ run \in PDs /\ clock \in 0 .. MaxClock
      /\ x.sft = sft /\ sft \in [Handles -> Entries] /\ \A g \in Handles : EntryOK(sft[g])
  <2>1. Good(x, strayed) /\ Sound(x) /\ x.sft = sft
    BY InvParts, NowIs
  <2>2. sft \in [Handles -> Entries] /\ \A g \in Handles : EntryOK(sft[g])
    BY <2>1, GoodParts DEF Sound
  <2> QED
    BY <2>1, <2>2, InvParts
<1>3. h \in Handles /\ sft[h].f_own = None /\ sft[h].f_ofd = None
  <2>1. FreeHandles(x) \in SUBSET Nat
    BY Distinct DEF FreeHandles
  <2>2. h \in FreeHandles(x)
    BY <1>1, <2>1, MinFacts DEF FreeHandle, First
  <2>3. h \in Handles /\ sft[h].f_own = None
    BY <1>2, <2>2 DEF FreeHandles
  <2> QED
    BY <1>2, <2>3 DEF EntryOK
<1> HIDE DEF h
<1>4. i \in Keys /\ h \in Keys /\ held[run][i] # None /\ h # i /\ h \notin Std
  BY <1>2, <1>3, Distinct DEF Keys, Refs
<1>5. m \in Handles \cup {CON}
  BY <1>2 DEF Mappings
<1>6. m # CON => /\ m \in Handles /\ sft[m].f_ofd # None
                 /\ sft[m].f_ofd \in Ofds \cup {CON}
                 /\ FileOf(x, m) = held[run][i]
  <2>1. m = Target(i)
    BY DEF Target
  <2> QED
    BY <1>4, <1>5, <1>2, <2>1, TargetFacts, EntryFields
<1>7. m = CON => held[run][i] = 0
  BY <1>2, <1>4 DEF Refs, PointerOK, At
<1>8. /\ e \in Entries /\ EntryOK(e) /\ e.f_ofd # None /\ e.f_own = run /\ e.f_use = 1
      /\ e.f_ofd # CON => m # CON /\ e.f_ofd = sft[m].f_ofd
  BY <1>2, <1>6, Distinct DEF Entries, EntryOK
<1> HIDE DEF e
<1>9. f \in [Handles -> Entries] /\ (\A g \in Handles : EntryOK(f[g])) /\ f[h] = e
  BY <1>2, <1>3, <1>8
<1>10. {o \in Ofds : \E g \in Handles : f[g].f_ofd = o} = Used(x)
  <2>1. ASSUME NEW o \in Ofds, NEW g \in Handles, f[g].f_ofd = o
        PROVE  o \in Used(x)
    <3>1. CASE g = h
      <4>1. sft[m].f_ofd = o /\ m \in Handles
        BY <1>6, <1>8, <1>9, <2>1, <3>1, Distinct
      <4> QED
        BY <1>2, <4>1 DEF Used, sftofdsrch
    <3>2. CASE g # h
      BY <1>2, <2>1, <3>2 DEF Used, sftofdsrch
    <3> QED
      BY <3>1, <3>2
  <2>2. ASSUME NEW o \in Used(x)
        PROVE  o \in Ofds /\ \E g \in Handles : f[g].f_ofd = o
    <3>1. PICK g \in Handles : sft[g].f_ofd = o
      BY <1>2 DEF Used, sftofdsrch
    <3>2. o \in Ofds
      BY DEF Used
    <3>3. g # h
      BY <1>3, <3>1, <3>2, Distinct
    <3>4. f[g] = sft[g]
      BY <1>2, <3>3
    <3> HIDE DEF f
    <3> QED
      BY <3>1, <3>2, <3>4
  <2> QED
    BY <2>1, <2>2
<1>11. Good(y, strayed') /\ Sound(y) /\ Apart' /\ SameFiles(x, y) /\ y.sft = f
  BY <1>1, <1>9, <1>10, SharedGood
<1>12. y.ofd = x.ofd
  BY <1>1 DEF Now
<1>13. FileOf(y, h) = held[run][i]
  <2>1. CASE e.f_ofd = CON
    <3>1. FileOf(y, h) = 0
      BY <1>9, <1>11, <2>1 DEF FileOf
    <3>2. m # CON => sft[m].f_ofd = CON
      BY <2>1 DEF e
    <3>3. m # CON => FileOf(x, m) = 0
      BY <1>2, <3>2 DEF FileOf
    <3> QED
      BY <1>6, <1>7, <3>1, <3>3
  <2>2. CASE e.f_ofd # CON
    <3>1. m # CON /\ e.f_ofd = sft[m].f_ofd
      BY <1>8, <2>2
    <3>2. FileOf(y, h) = x.ofd[sft[m].f_ofd].id
      BY <1>9, <1>11, <1>12, <2>2, <3>1 DEF FileOf
    <3>3. FileOf(x, m) = x.ofd[sft[m].f_ofd].id
      BY <1>2, <2>2, <3>1 DEF FileOf
    <3> QED
      BY <1>6, <3>1, <3>2, <3>3
  <2> QED
    BY <2>1, <2>2
<1>14. held[run][i] \in Ids \cup {0, None}
  BY <1>2, <1>4 DEF Held
<1>15. KeyHeld(held, held', run, h, held[run][i])
  BY <1>1, <1>2, <1>4, <1>14, HeldWith
<1>16. \A g \in Handles \ {h} : /\ y.sft[g] = x.sft[g]
                                /\ x.sft[g].f_ofd # None => FileOf(y, g) = FileOf(x, g)
  <2> TAKE g \in Handles \ {h}
  <2>1. y.sft[g] = x.sft[g]
    BY <1>2, <1>11
  <2> QED
    BY <1>12, <2>1 DEF FileOf
<1>17. Points(held, p_uft, Range(stack), h) = {}
  BY <1>2, <1>3, FreeEntry
<1>18. Refs(y, held', p_uft, stack)
  <2> DEFINE id == held[run][i]
             he == held'
             hd == held
             pu == p_uft
             st == stack
             p == run
  <2>1. /\ Sound(x) /\ Refs(x, hd, pu, st) /\ Sound(y) /\ p \in Range(st) /\ h \in Keys
        /\ h \in Handles /\ id # None /\ KeyHeld(hd, he, p, h, id) /\ pu \in Mappings
    BY <1>2, <1>3, <1>4, <1>11, <1>15
  <2>2. At(pu, p, h) = h
    BY <1>4 DEF At
  <2>3. y.sft[h].f_use >= Cardinality(Points(hd, pu, Range(st), h)) + 1
    BY <1>8, <1>9, <1>11, <1>17, FS_EmptySet
  <2>4. y.sft[h].f_own = p /\ p \in Older(st, p)
    BY <1>2, <1>8, <1>9, <1>11, StackFacts
  <2>5. /\ \A g \in Handles \ {h} : y.sft[g] = x.sft[g]
        /\ \A g \in Handles \ {h} : x.sft[g].f_ofd # None => FileOf(y, g) = FileOf(x, g)
    BY <1>16
  <2>6. FileOf(y, h) = id /\ Points(hd, pu, Range(st), h) = {}
    BY <1>13, <1>17
  <2>7. \A q \in PDs, j \in Keys : q # p \/ j # h => At(pu, q, j) = At(pu, q, j)
    OBVIOUS
  <2> HIDE DEF id, he, hd, pu, st, p, x, y
  <2>a. Sound(x) /\ Refs(x, hd, pu, st) /\ Sound(y)
    BY <2>1
  <2>b. /\ p \in Range(st) /\ h \in Keys /\ h \in Handles /\ id # None
        /\ KeyHeld(hd, he, p, h, id) /\ pu \in Mappings
    BY <2>1
  <2>c. \A g \in Handles \ {h} : y.sft[g] = x.sft[g]
    BY <2>5
  <2>d. \A g \in Handles \ {h} : x.sft[g].f_ofd # None => FileOf(y, g) = FileOf(x, g)
    BY <2>5
  <2>e. FileOf(y, h) = id
    BY <2>6
  <2>f. Points(hd, pu, Range(st), h) = {}
    BY <2>6
  <2>g. y.sft[h].f_own \in Older(st, p) /\ (h \in Handles => y.sft[h].f_own = p)
    BY <2>4
  <2>8. Refs(y, he, pu, st)
    BY <2>a, <2>b, <2>2, <2>3, <2>c, <2>d, <2>e, <2>f, <2>g, <2>7, RefsMore
  <2> QED
    BY <2>8 DEF he, pu, st
<1> QED
  BY <1>1, <1>2, <1>11, <1>18 DEF Inv

LEMMA ForceInv ==
  ASSUME Inv, NEW i \in Std, NEW h \in Handles \cup {CON}, xforce(i, h)
  PROVE  Inv'
<1> DEFINE x == Now
           y == Now'
           id == IF h = CON THEN 0 ELSE held[run][h]
<1>1. /\ h # CON => held[run][h] # None
      /\ held' = [held EXCEPT ![run][i] = id]
      /\ UNCHANGED <<ofd, d_files, dir, stack, strayed, clock>>
  BY DEF xforce, ixforce, Hold
<1>2. /\ Good(x, strayed) /\ Sound(x) /\ Refs(x, held, p_uft, stack) /\ Stacked(stack)
      /\ held \in Held /\ p_uft \in Mappings
      /\ run \in Range(stack) /\ run \in PDs /\ clock \in 0 .. MaxClock
      /\ x.sft = sft /\ sft \in [Handles -> Entries] /\ \A g \in Handles : EntryOK(sft[g])
  <2>1. Good(x, strayed) /\ Sound(x) /\ x.sft = sft
    BY InvParts, NowIs
  <2>2. sft \in [Handles -> Entries] /\ \A g \in Handles : EntryOK(sft[g])
    BY <2>1, GoodParts DEF Sound
  <2> QED
    BY <2>1, <2>2, InvParts
<1>3. i \in Keys /\ i \notin Handles
  BY Distinct DEF Keys
<1>4. h # CON => /\ h \in Handles /\ h \in Keys /\ h = Target(h)
                 /\ sft[h] \in Entries /\ EntryOK(sft[h]) /\ sft[h].f_use > 0
                 /\ FileOf(x, h) = held[run][h] /\ sft[h].f_own \in Older(stack, run)
  <2> SUFFICES ASSUME h # CON
               PROVE  /\ h \in Handles /\ h \in Keys /\ h = Target(h)
                      /\ sft[h] \in Entries /\ EntryOK(sft[h]) /\ sft[h].f_use > 0
                      /\ FileOf(x, h) = held[run][h] /\ sft[h].f_own \in Older(stack, run)
    OBVIOUS
  <2>1. h \in Handles /\ h \in Keys /\ h = Target(h)
    BY Distinct DEF Keys, Target
  <2> QED
    BY <1>1, <2>1, TargetFacts
<1>5. id \in Ids \cup {0, None} /\ id # None
  <2>1. CASE h = CON
    BY <2>1, Distinct
  <2>2. CASE h # CON
    BY <1>1, <1>2, <1>4, <2>2 DEF Held
  <2> QED
    BY <2>1, <2>2
<1> HIDE DEF id
<1>6. KeyHeld(held, held', run, i, id)
  BY <1>1, <1>2, <1>3, <1>5, HeldWith
<1>7. /\ held' \in Held /\ held'[run][i] = id
      /\ \A q \in PDs, j \in Keys : q # run \/ j # i => held'[q][j] = held[q][j]
  BY <1>6 DEF KeyHeld
<1>8. CASE IsDevice(h) /\ p_uft' = [p_uft EXCEPT ![run][i] = CON] /\ UNCHANGED sft
  <2>1. id = 0
    <3>1. h # CON => FileOf(x, h) = 0
      BY <1>2, <1>8 DEF IsDevice, FileOf
    <3> QED
      BY <1>4, <3>1 DEF id
  <2>2. KeyMapped(p_uft, p_uft', run, i, CON)
    BY <1>2, <1>8, MappedWith
  <2>3. /\ p_uft' \in Mappings /\ At(p_uft', run, i) = CON
        /\ \A q \in PDs, j \in Keys : q # run \/ j # i => At(p_uft', q, j) = At(p_uft, q, j)
    BY <2>2 DEF KeyMapped
  <2>4. y = x
    BY <1>1, <1>8 DEF Now
  <2>5. Refs(x, held', p_uft', stack)
    <3> DEFINE hd == held
               he == held'
               pu == p_uft
               pe == p_uft'
               st == stack
               z == x
    <3>1. Range(st) \subseteq PDs
      BY <1>2, StackFacts
    <3>2. \A q \in Range(st), j \in Std : he[q][j] # None
      BY <1>2, <1>5, <1>7, <3>1 DEF Refs, Keys
    <3>3. \A q \in Range(st), j \in Keys : he[q][j] # None =>
            \/ he[q][j] = hd[q][j] /\ At(pe, q, j) = At(pu, q, j)
            \/ At(pe, q, j) = CON /\ he[q][j] = 0
      BY <1>7, <2>1, <2>3, <3>1
    <3>4. \A g \in Handles : Points(he, pe, Range(st), g) # {} =>
            z.sft[g] = x.sft[g] /\ FileOf(z, g) = FileOf(x, g)
      OBVIOUS
    <3>5. /\ Sound(z) /\ he \in Held /\ pe \in Mappings /\ Refs(x, hd, pu, st)
          /\ Stacked(st) /\ Range(st) \subseteq Range(st)
          /\ \A p \in Range(st) : Older(st, p) \subseteq Older(st, p)
      BY <1>2, <1>7, <2>3
    <3> HIDE DEF hd, pu, he, pe, st, z, x
    <3>6. Refs(z, he, pe, st)
      BY <3>2, <3>3, <3>4, <3>5, RefsFewer
    <3> QED
      BY <3>6 DEF he, pe, st, z
  <2>6. Apart'
    BY <1>1, <2>4 DEF Inv, Apart
  <2> QED
    BY <1>1, <1>2, <2>4, <2>5, <2>6 DEF Inv
<1>9. CASE /\ h # CON /\ sft[h].f_ofd \notin {None, CON}
           /\ p_uft' = [p_uft EXCEPT ![run][i] = h] /\ sft' = Uses(sft, h)
  <2> DEFINE e == [sft[h] EXCEPT !.f_use = @ + 1]
             f == [sft EXCEPT ![h] = e]
  <2>1. sft' = f
    BY <1>9 DEF Uses
  <2>2. /\ e \in Entries /\ EntryOK(e) /\ e.f_ofd = sft[h].f_ofd /\ e.f_own = sft[h].f_own
        /\ e.f_use = sft[h].f_use + 1
    BY <1>4, <1>9 DEF Entries, EntryOK
  <2> HIDE DEF e
  <2>3. /\ f \in [Handles -> Entries] /\ (\A g \in Handles : EntryOK(f[g]))
        /\ f[h] = e /\ \A g \in Handles \ {h} : f[g] = sft[g]
    BY <1>2, <1>4, <1>9, <2>2
  <2>4. \A g \in Handles : f[g].f_ofd = sft[g].f_ofd
    BY <2>2, <2>3
  <2> HIDE DEF f
  <2>5. {o \in Ofds : \E g \in Handles : f[g].f_ofd = o} = Used(x)
    BY <1>2, <2>4 DEF Used, sftofdsrch
  <2>6. Good(y, strayed') /\ Sound(y) /\ Apart' /\ y.sft = f
    BY <1>1, <2>1, <2>3, <2>5, SharedGood
  <2>7. y.ofd = x.ofd
    BY <1>1 DEF Now
  <2>8. \A g \in Handles : FileOf(y, g) = FileOf(x, g)
    BY <1>2, <2>4, <2>6, <2>7 DEF FileOf
  <2>9. KeyMapped(p_uft, p_uft', run, i, h)
    BY <1>2, <1>9, MappedWith
  <2>10. Refs(y, held', p_uft', stack)
    <3> DEFINE hd == held
               he == held'
               pu == p_uft
               pe == p_uft'
               st == stack
               p == run
    <3>1. /\ Sound(x) /\ Refs(x, hd, pu, st) /\ Sound(y) /\ p \in Range(st) /\ i \in Keys
          /\ h \in Handles /\ id # None /\ KeyHeld(hd, he, p, i, id)
      BY <1>2, <1>3, <1>4, <1>5, <1>6, <1>9, <2>6
    <3>2. /\ pe \in Mappings /\ At(pe, p, i) = h
          /\ \A q \in PDs, j \in Keys : q # p \/ j # i => At(pe, q, j) = At(pu, q, j)
      BY <2>9 DEF KeyMapped
    <3>3. y.sft[h].f_use >= Cardinality(Points(hd, pu, Range(st), h)) + 1
      <4>1. sft[h].f_use >= Cardinality(Points(hd, pu, Range(st), h))
        BY <1>2, <3>1 DEF Refs
      <4>2. Cardinality(Points(hd, pu, Range(st), h)) \in Nat
        BY <1>2, StackFacts, PointsFinite
      <4>3. sft[h].f_use \in Nat
        BY <1>4, <1>9, EntryFields
      <4>4. y.sft[h].f_use = sft[h].f_use + 1
        BY <2>2, <2>3, <2>6
      <4> QED
        BY <4>1, <4>2, <4>3, <4>4
    <3>4. y.sft[h].f_own = x.sft[h].f_own /\ y.sft[h].f_own \in Older(st, p)
      BY <1>2, <1>4, <1>9, <2>2, <2>3, <2>6
    <3>5. FileOf(y, h) = FileOf(x, h) /\ FileOf(y, h) = id
      BY <1>4, <1>9, <2>8 DEF id
    <3>6. /\ \A g \in Handles \ {h} : y.sft[g] = x.sft[g]
          /\ \A g \in Handles \ {h} : x.sft[g].f_ofd # None => FileOf(y, g) = FileOf(x, g)
      BY <1>2, <2>3, <2>6, <2>8
    <3>7. i \in Handles => y.sft[h].f_own = p
      BY <1>3
    <3>9. \/ Points(hd, pu, Range(st), h) = {}
          \/ y.sft[h].f_own = x.sft[h].f_own /\ FileOf(y, h) = FileOf(x, h)
      BY <3>4, <3>5
    <3>10. FileOf(y, h) = id /\ y.sft[h].f_own \in Older(st, p)
      BY <3>4, <3>5
    <3> HIDE DEF he, hd, pu, pe, st, p, x, y
    <3>8. Refs(y, he, pe, st)
      BY <3>1, <3>2, <3>3, <3>6, <3>7, <3>9, <3>10, RefsMore
    <3> QED
      BY <3>8 DEF he, pe, st
  <2> QED
    BY <1>1, <1>2, <2>6, <2>10 DEF Inv
<1> QED
  BY <1>8, <1>9 DEF xforce, ixforce

(* How many standard handles of r are mapped to h. *)
MappedTo(pu, r, h) == Cardinality({i \in Std : pu[r][i] = h})

(* The program p starts with the standard handles of r. *)
Inherits(hd, pu, st, he, pe, p, r) ==
  /\ \A q \in Range(st), k \in Keys : he[q][k] = hd[q][k] /\ At(pe, q, k) = At(pu, q, k)
  /\ \A i \in Std : he[p][i] = hd[r][i] /\ pe[p][i] = pu[r][i]
  /\ \A h \in Handles : he[p][h] = None

UsedMore(x, y, pu, r) ==
  \A h \in Handles :
    /\ y.sft[h].f_own = x.sft[h].f_own /\ FileOf(y, h) = FileOf(x, h)
    /\ y.sft[h].f_use = x.sft[h].f_use + MappedTo(pu, r, h)

LEMMA RefsPush ==
  ASSUME NEW x, Sound(x), NEW hd, NEW pu, NEW st, Refs(x, hd, pu, st),
         NEW p \in PDs \ Range(st), NEW r, r = Head(st), NEW u, u = <<p>> \o st,
         NEW he \in Held, NEW pe \in Mappings, NEW y, Sound(y),
         Inherits(hd, pu, st, he, pe, p, r), UsedMore(x, y, pu, r)
  PROVE  Refs(y, he, pe, u)
<1> DEFINE R == Range(st)
<1>0. /\ \A q \in R, k \in Keys : he[q][k] = hd[q][k] /\ At(pe, q, k) = At(pu, q, k)
      /\ \A i \in Std : he[p][i] = hd[r][i] /\ pe[p][i] = pu[r][i]
      /\ \A h \in Handles : he[p][h] = None
      /\ \A h \in Handles : /\ y.sft[h].f_own = x.sft[h].f_own /\ FileOf(y, h) = FileOf(x, h)
                            /\ y.sft[h].f_use = x.sft[h].f_use + MappedTo(pu, r, h)
  BY DEF Inherits, UsedMore
<1>1. /\ Stacked(st) /\ hd \in Held /\ pu \in Mappings
      /\ R \subseteq PDs /\ IsFiniteSet(R) /\ r \in R
      /\ \A q \in R, i \in Std : hd[q][i] # None
      /\ \A q \in R, k \in Keys : hd[q][k] # None => PointerOK(x, hd, pu, st, q, k)
  BY StackFacts DEF Refs
<1>2. /\ Stacked(u) /\ Range(u) = R \cup {p}
      /\ \A q \in R : Older(st, q) \subseteq Older(u, q)
      /\ Older(st, r) \subseteq Older(u, p)
  <2>1. Stacked(st) /\ u = <<p>> \o st
    BY <1>1
  <2>2. /\ Stacked(u) /\ Range(u) = Range(st) \cup {p}
        /\ \A q \in Range(st) : Older(st, q) \subseteq Older(u, q)
        /\ Older(st, Head(st)) \subseteq Older(u, p)
    BY <2>1, PushFacts
  <2> QED
    BY <2>2
<1>3. Std \subseteq Keys /\ Handles \subseteq Keys /\ Keys = Std \cup Handles
  BY DEF Keys
<1>4. \A q \in Range(u), i \in Std : he[q][i] # None
  <2>1. ASSUME NEW q \in R, NEW i \in Std PROVE he[q][i] # None
    BY <1>0, <1>1, <1>3
  <2>2. ASSUME NEW i \in Std PROVE he[p][i] # None
    BY <1>0, <1>1
  <2> QED
    BY <2>1, <2>2, <1>2
<1>5. ASSUME NEW h \in Handles
      PROVE  y.sft[h].f_use >= Cardinality(Points(he, pe, Range(u), h))
  <2> DEFINE P == Points(hd, pu, R, h)
             I == {i \in Std : pu[r][i] = h}
             A == {<<p, i>> : i \in I}
             Q == Points(he, pe, Range(u), h)
  <2>1. /\ IsFiniteSet(P) /\ Cardinality(P) \in Nat
        /\ IsFiniteSet(I) /\ Cardinality(I) \in Nat
    <3>1. IsFiniteSet(P) /\ Cardinality(P) \in Nat
      BY <1>1, PointsFinite
    <3>2. IsFiniteSet(I)
      <4>1. I \in SUBSET Std
        OBVIOUS
      <4> QED
        BY <4>1, HandlesFinite, FS_Subset
    <3> QED
      BY <3>1, <3>2, FS_CardinalityType
  <2>2. IsFiniteSet(A) /\ Cardinality(A) <= Cardinality(I) /\ Cardinality(A) \in Nat
    <3> DEFINE f == [i \in I |-> <<p, i>>]
    <3>1. f \in Surjection(I, A)
      BY DEF Surjection
    <3> HIDE DEF f, A, I
    <3>2. IsFiniteSet(A) /\ Cardinality(A) <= Cardinality(I)
      BY <2>1, <3>1, FS_Surjection
    <3> QED
      BY <3>2, FS_CardinalityType
  <2>3. Q \subseteq P \cup A
    <3> SUFFICES ASSUME NEW t \in Q
                 PROVE  t \in P \cup A
      OBVIOUS
    <3>1. PICK q \in Range(u), k \in Keys : t = <<q, k>> /\ he[q][k] # None /\ At(pe, q, k) = h
      BY DEF Points
    <3>2. CASE q \in R
      <4>1. hd[q][k] # None /\ At(pu, q, k) = h
        BY <1>0, <3>1, <3>2
      <4> QED
        BY <3>1, <3>2, <4>1 DEF Points
    <3>3. CASE q = p
      <4>1. k \in Std
        BY <1>0, <1>3, <3>1, <3>3
      <4>2. pu[r][k] = h
        BY <1>0, <3>1, <3>3, <4>1 DEF At
      <4> QED
        BY <3>1, <3>3, <4>1, <4>2
    <3> QED
      BY <1>2, <3>2, <3>3
  <2>4. x.sft[h].f_use >= Cardinality(P) /\ x.sft[h].f_use \in Nat
    BY Parts, EntryFields DEF Sound, Refs
  <2>5. y.sft[h].f_use = x.sft[h].f_use + Cardinality(I)
    BY <1>0 DEF MappedTo
  <2> HIDE DEF P, I, A, Q
  <2>6. /\ IsFiniteSet(P \cup A)
        /\ Cardinality(P \cup A) = Cardinality(P) + Cardinality(A) - Cardinality(P \cap A)
    BY <2>1, <2>2, FS_Union
  <2>7. Cardinality(P \cap A) \in Nat
    <3>1. P \cap A \in SUBSET P
      OBVIOUS
    <3> QED
      BY <2>1, <3>1, FS_Subset, FS_CardinalityType
  <2>8. Cardinality(Q) <= Cardinality(P \cup A) /\ Cardinality(Q) \in Nat
    BY <2>3, <2>6, FS_Subset, FS_CardinalityType
  <2>9. y.sft[h].f_use >= Cardinality(Q)
    BY <2>1, <2>2, <2>4, <2>5, <2>6, <2>7, <2>8
  <2> QED
    BY <2>9 DEF Q
<1>6. ASSUME NEW q \in Range(u), NEW k \in Keys, he[q][k] # None
      PROVE  PointerOK(y, he, pe, u, q, k)
  <2>1. CASE q \in R
    <3>1. hd[q][k] # None /\ he[q][k] = hd[q][k] /\ At(pe, q, k) = At(pu, q, k)
      BY <1>0, <1>6, <2>1
    <3>2. PointerOK(x, hd, pu, st, q, k)
      BY <1>1, <2>1, <3>1
    <3> DEFINE h == At(pe, q, k)
    <3>3. h # CON => h \in Handles /\ (k \in Handles => h = k)
      BY <1>1, <1>3, <2>1, Distinct DEF At, Mappings
    <3>4. CASE h = CON
      BY <3>1, <3>2, <3>4 DEF PointerOK
    <3>5. CASE h # CON
      <4>1. /\ FileOf(x, h) = hd[q][k] /\ x.sft[h].f_own \in Older(st, q)
            /\ k \in Handles => x.sft[k].f_own = q
        BY <3>1, <3>2, <3>5 DEF PointerOK
      <4>2. y.sft[h].f_own = x.sft[h].f_own /\ FileOf(y, h) = FileOf(x, h)
        BY <1>0, <3>3, <3>5
      <4>3. x.sft[h].f_own \in Older(u, q)
        BY <1>2, <2>1, <4>1
      <4> QED
        BY <3>1, <3>3, <3>5, <4>1, <4>2, <4>3 DEF PointerOK
    <3> QED
      BY <3>4, <3>5
  <2>2. CASE q = p
    <3>1. k \in Std /\ k \notin Handles
      BY <1>0, <1>3, <1>6, <2>2, Distinct
    <3>2. hd[r][k] # None /\ PointerOK(x, hd, pu, st, r, k)
      BY <1>1, <1>3, <3>1
    <3>3. he[q][k] = hd[r][k] /\ At(pe, q, k) = pu[r][k] /\ At(pu, r, k) = pu[r][k]
      BY <1>0, <2>2, <3>1 DEF At
    <3> DEFINE h == pu[r][k]
    <3>4. h \in Handles \cup {CON}
      BY <1>1, <3>1 DEF Mappings
    <3>5. CASE h = CON
      BY <3>2, <3>3, <3>5 DEF PointerOK
    <3>6. CASE h # CON
      <4>1. FileOf(x, h) = hd[r][k] /\ x.sft[h].f_own \in Older(st, r)
        BY <3>2, <3>3, <3>6 DEF PointerOK
      <4>2. y.sft[h].f_own = x.sft[h].f_own /\ FileOf(y, h) = FileOf(x, h)
        BY <1>0, <3>4, <3>6
      <4>3. x.sft[h].f_own \in Older(u, q)
        BY <1>2, <2>2, <4>1
      <4> QED
        BY <3>1, <3>3, <3>6, <4>1, <4>2, <4>3 DEF PointerOK
    <3> QED
      BY <3>5, <3>6
  <2> QED
    BY <1>2, <2>1, <2>2
<1> QED
  BY <1>2, <1>4, <1>5, <1>6 DEF Refs

LEMMA PexecInv ==
  ASSUME Inv, NEW p \in PDs, Pexec(p)
  PROVE  Inv'
<1> DEFINE x == Now
           y == Now'
           I(h) == {i \in Std : p_uft[run][i] = h}
           f == Inherited
           u == <<p>> \o stack
           b == [h \in Std \cup Handles |-> IF h \in Std THEN held[run][h] ELSE None]
<1>1. /\ p \notin Range(stack)
      /\ sft' = f
      /\ p_uft' = [p_uft EXCEPT ![p] = p_uft[run]]
      /\ held' = [held EXCEPT ![p] = b]
      /\ stack' = u
      /\ UNCHANGED <<ofd, d_files, dir, strayed, clock>>
  BY DEF Pexec, Running
<1>2. /\ Good(x, strayed) /\ Sound(x) /\ Refs(x, held, p_uft, stack) /\ Stacked(stack)
      /\ held \in Held /\ p_uft \in Mappings
      /\ run \in Range(stack) /\ run \in PDs /\ Range(stack) \subseteq PDs
      /\ clock \in 0 .. MaxClock
      /\ x.sft = sft /\ sft \in [Handles -> Entries] /\ \A g \in Handles : EntryOK(sft[g])
  <2>1. Good(x, strayed) /\ Sound(x) /\ x.sft = sft
    BY InvParts, NowIs
  <2>2. sft \in [Handles -> Entries] /\ \A g \in Handles : EntryOK(sft[g])
    BY <2>1, GoodParts DEF Sound
  <2> QED
    BY <2>1, <2>2, InvParts
<1>3. ASSUME NEW h \in Handles
      PROVE  Cardinality(I(h)) \in Nat /\ (sft[h].f_own = None => Cardinality(I(h)) = 0)
  <2>1. IsFiniteSet(I(h))
    <3>1. I(h) \in SUBSET Std
      OBVIOUS
    <3> QED
      BY <3>1, HandlesFinite, FS_Subset
  <2>2. ASSUME sft[h].f_own = None
        PROVE  I(h) = {}
    <3>1. Points(held, p_uft, Range(stack), h) = {}
      BY <1>2, <2>2, FreeEntry
    <3>2. ASSUME NEW i \in I(h)
          PROVE  FALSE
      <4>1. i \in Keys /\ held[run][i] # None /\ At(p_uft, run, i) = h
        BY <1>2 DEF Keys, Refs, At
      <4>2. <<run, i>> \in Points(held, p_uft, Range(stack), h)
        BY <1>2, <4>1 DEF Points
      <4> QED
        BY <3>1, <4>2
    <3> QED
      BY <3>2
  <2>3. I(h) = {} => Cardinality(I(h)) = 0
    BY FS_EmptySet
  <2> HIDE DEF I
  <2> QED
    BY <2>1, <2>2, <2>3, FS_CardinalityType
<1>4. ASSUME NEW h \in Handles
      PROVE  /\ f[h] \in Entries /\ EntryOK(f[h])
             /\ f[h].f_ofd = sft[h].f_ofd /\ f[h].f_own = sft[h].f_own
             /\ f[h].f_use = sft[h].f_use + Cardinality(I(h))
  <2> DEFINE c == Cardinality(I(h))
             e == sft[h]
  <2>1. f[h] = [e EXCEPT !.f_use = @ + c]
    BY DEF Inherited
  <2>2. e \in Entries /\ EntryOK(e) /\ c \in Nat /\ (e.f_own = None => c = 0)
    BY <1>2, <1>3
  <2> HIDE DEF c, e, f
  <2>3. /\ f[h] \in Entries /\ f[h].f_ofd = e.f_ofd /\ f[h].f_own = e.f_own
        /\ f[h].f_use = e.f_use + c /\ e.f_use \in Nat
    BY <2>1, <2>2 DEF Entries
  <2>4. f[h].f_use > 0 <=> f[h].f_own # None
    BY <2>2, <2>3 DEF EntryOK
  <2>5. EntryOK(f[h])
    BY <2>2, <2>3, <2>4 DEF EntryOK
  <2> QED
    BY <2>3, <2>5 DEF c, e
<1>5. f \in [Handles -> Entries]
  BY <1>4 DEF Inherited
<1>6. {o \in Ofds : \E h \in Handles : f[h].f_ofd = o} = Used(x)
  BY <1>2, <1>4 DEF Used, sftofdsrch
<1>7. Good(y, strayed') /\ Sound(y) /\ Apart' /\ y.sft = f
  <2> HIDE DEF f
  <2> QED
    BY <1>1, <1>4, <1>5, <1>6, SharedGood
<1>8. y.ofd = x.ofd
  BY <1>1 DEF Now
<1>9. \A h \in Handles : FileOf(y, h) = FileOf(x, h)
  BY <1>2, <1>4, <1>7, <1>8 DEF FileOf
<1>10. held' \in Held /\ held'[p] = b /\ \A q \in PDs : q # p => held'[q] = held[q]
  <2>1. b \in [Keys -> Ids \cup {0, None}]
    BY <1>2 DEF Held, Keys
  <2> HIDE DEF b
  <2> QED
    BY <1>1, <1>2, <2>1 DEF Held
<1>11. p_uft' \in Mappings /\ p_uft'[p] = p_uft[run] /\ \A q \in PDs : q # p => p_uft'[q] = p_uft[q]
  BY <1>1, <1>2 DEF Mappings
<1>12. Refs(y, held', p_uft', u)
  <2> DEFINE hd == held
             he == held'
             pu == p_uft
             pe == p_uft'
             st == stack
             r == run
  <2>1. /\ Sound(x) /\ Refs(x, hd, pu, st) /\ p \in PDs \ Range(st) /\ r = Head(st)
        /\ u = <<p>> \o st /\ he \in Held /\ pe \in Mappings /\ Sound(y)
    BY <1>1, <1>2, <1>7, <1>10, <1>11 DEF run
  <2>2. \A q \in Range(st), k \in Keys : he[q][k] = hd[q][k] /\ At(pe, q, k) = At(pu, q, k)
    BY <1>1, <1>2, <1>10, <1>11 DEF At
  <2>3. \A i \in Std : he[p][i] = hd[r][i] /\ pe[p][i] = pu[r][i]
    BY <1>10, <1>11
  <2>4. \A h \in Handles : he[p][h] = None
    BY <1>10, Distinct
  <2>5. \A h \in Handles :
          /\ y.sft[h].f_own = x.sft[h].f_own /\ FileOf(y, h) = FileOf(x, h)
          /\ y.sft[h].f_use = x.sft[h].f_use + MappedTo(pu, r, h)
    BY <1>2, <1>4, <1>7, <1>9 DEF MappedTo
  <2>7. Inherits(hd, pu, st, he, pe, p, r) /\ UsedMore(x, y, pu, r)
    BY <2>2, <2>3, <2>4, <2>5 DEF Inherits, UsedMore
  <2> HIDE DEF hd, he, pu, pe, st, r, x, y, u
  <2>6. Refs(y, he, pe, u)
    BY <2>1, <2>7, RefsPush
  <2> QED
    BY <2>6 DEF he, pe
<1> QED
  BY <1>1, <1>2, <1>7, <1>12 DEF Inv

-----------------------------------------------------------------------------
(* Deleting. *)

(* An entry that no open file has changes. *)
WithEntry(x, s, e) == [x EXCEPT !.dir[s] = e]

LEMMA SlotGood ==
  ASSUME NEW x, NEW S, Good(x, S), NEW s \in Slots, NEW e \in FCB \cup {None},
         \A o \in Range(x.d_files) : x.ofd[o].o_dirbyt # s,
         NEW y, y = WithEntry(x, s, e)
  PROVE  /\ Good(y, S) /\ y.dir[s] = e
         /\ y.sft = x.sft /\ y.ofd = x.ofd /\ y.d_files = x.d_files
<1> DEFINE f == [x.dir EXCEPT ![s] = e]
<1>1. /\ x \in Tables /\ Sound(x) /\ Listed(x) /\ Follows(x, S) /\ x.d_files \in Lists
      /\ x.dir \in [Slots -> FCB \cup {None}]
  BY GoodParts
<1>2. f \in [Slots -> FCB \cup {None}] /\ y = [x EXCEPT !.dir = f] /\ f[s] = e
  BY <1>1 DEF Tables, WithEntry
<1>3. \A t \in Slots \ {s} : f[t] = x.dir[t]
  BY <1>1
<1> HIDE DEF f
<1>4. /\ y \in Tables /\ y.dir = f
      /\ y.sft = x.sft /\ y.ofd = x.ofd /\ y.d_files = x.d_files
  BY <1>1, <1>2, WithDir
<1>5. Used(y) = Used(x) /\ \A h \in Handles : EntryOK(y.sft[h])
  BY <1>1, <1>4 DEF Used, sftofdsrch, Sound
<1>6. AlikeOfds(x, y)
  BY <1>4 DEF AlikeOfds, Alike
<1>7. Sound(y)
  BY <1>1, <1>4, <1>5, <1>6, SoundSame
<1>8. ASSUME NEW o \in Range(x.d_files)
      PROVE  o \in Used(x) /\ y.dir[x.ofd[o].o_dirbyt] = x.dir[x.ofd[o].o_dirbyt]
  <2>1. o \in Used(x)
    BY <1>1 DEF Listed
  <2>2. o \in Ofds /\ x.ofd[o] # None
    BY <1>1, <2>1, UsedParts
  <2>3. x.ofd[o].o_dirbyt \in Slots \ {s}
    BY <1>1, <2>2, OfdParts
  <2> QED
    BY <1>3, <1>4, <2>1, <2>3
<1>9. Listed(y)
  BY <1>1, <1>4, <1>5, <1>8 DEF Listed
<1>10. Follows(y, S)
  <2>1. \A o : Dfd(y, o) = Dfd(x, o)
    BY <1>4 DEF Dfd, Base
  <2>2. \A o \in Range(y.d_files) : Saves(y, o) \/ y.ofd[o].o_dirbyt \in S
    BY <1>1, <1>4, <1>8, <2>1 DEF Follows, Saves
  <2> QED
    BY <1>1, <1>4, <1>5, <2>2 DEF Follows
<1> QED
  BY <1>2, <1>4, <1>7, <1>9, <1>10 DEF Good

(* What was deleted, or was not: the handles are as they were. *)
Deleted(z, s) ==
  /\ z.sft = sft /\ AlikeOfds(Now, z)
  /\ ~Refused(s) => /\ z.dir[s] = None
                    /\ \A o \in Range(z.d_files) : z.ofd[o].o_dirbyt # s

LEMMA DelGood ==
  ASSUME Inv, NEW s \in Slots, NEW z, z = ixdel(s)
  PROVE  Good(z, strayed) /\ Deleted(z, s)
<1> DEFINE x == Now
           places == ClosedFirst(s)
           C == {d_files[j] : j \in places}
           y == OwnClosed(s)
<1>1. /\ Good(x, strayed) /\ Sound(x) /\ Listed(x) /\ d_files \in Lists
      /\ x.sft = sft /\ x.ofd = ofd /\ x.d_files = d_files
  BY InvParts, GoodParts, NowIs
<1>2. /\ DOMAIN d_files = 1 .. Len(d_files)
      /\ \A o : o \in Range(d_files) <=> \E i \in 1 .. Len(d_files) : o = d_files[i]
  BY <1>1, ListFacts
<1>3. places \in SUBSET (1 .. Len(d_files))
  BY <1>1, <1>2 DEF ClosedFirst, OpenAt
<1>4. Good(y, strayed) /\ ListClosed(x, y, C)
  <2>1. y = CloseListed(Now, places)
    BY DEF OwnClosed
  <2> HIDE DEF places, y
  <2> QED
    BY <1>1, <1>3, <2>1, CloseListedGood
<1>5. y.sft = sft /\ AlikeOfds(x, y) /\ Range(y.d_files) = Range(d_files) \ C
  BY <1>1, <1>4 DEF ListClosed
<1>6. ASSUME ~Refused(s), NEW o \in Range(y.d_files)
      PROVE  y.ofd[o].o_dirbyt # s
  <2>1. SUFFICES ASSUME y.ofd[o].o_dirbyt = s
                 PROVE  FALSE
    OBVIOUS
  <2>2. o \in Range(d_files) /\ o \notin C
    BY <1>5, <1>6
  <2>3. o \in Used(x)
    BY <1>1, <2>2 DEF Listed
  <2>4. o \in Ofds /\ x.ofd[o] # None
    BY <1>1, <2>3, UsedParts
  <2>5. x.ofd[o].o_dirbyt = s
    BY <1>5, <2>1, <2>4 DEF AlikeOfds, Alike
  <2>6. PICK i \in 1 .. Len(d_files) : o = d_files[i]
    BY <1>2, <2>2
  <2>7. i \in OpenAt(Now, s)
    BY <1>1, <1>2, <2>5, <2>6 DEF OpenAt
  <2>8. \A j \in OpenAt(Now, s) : OthersEntry(d_files[j]) = {}
    BY <1>6 DEF Refused
  <2>9. PICK h \in Handles : sft[h].f_ofd = o
    BY <1>1, <2>3 DEF Used, sftofdsrch
  <2>10. sft[h].f_own = run
    <3>1. h \notin OthersEntry(d_files[i])
      BY <2>7, <2>8
    <3> QED
      BY <2>6, <2>9, <3>1 DEF OthersEntry
  <2>11. h \in OwnEntry(d_files[i]) /\ OthersEntry(d_files[i]) = {}
    BY <2>6, <2>7, <2>8, <2>9, <2>10 DEF OwnEntry
  <2>12. i \in places
    BY <2>7, <2>8, <2>11 DEF ClosedFirst
  <2> QED
    BY <2>2, <2>6, <2>12
<1>7. CASE Refused(s)
  BY <1>4, <1>5, <1>7 DEF ixdel, Deleted
<1>8. CASE ~Refused(s)
  <2>1. z = [y EXCEPT !.dir[s] = None]
    BY <1>8 DEF ixdel, Erase
  <2>2. \A o \in Range(y.d_files) : y.ofd[o].o_dirbyt # s
    BY <1>6, <1>8
  <2>3. /\ Good(z, strayed) /\ z.dir[s] = None
        /\ z.sft = y.sft /\ z.ofd = y.ofd /\ z.d_files = y.d_files
    <3> DEFINE e == None
    <3>1. e \in FCB \cup {None} /\ z = WithEntry(y, s, e) /\ Good(y, strayed)
      BY <1>4, <2>1 DEF WithEntry
    <3> HIDE DEF e, y
    <3>2. /\ Good(z, strayed) /\ z.dir[s] = e
          /\ z.sft = y.sft /\ z.ofd = y.ofd /\ z.d_files = y.d_files
      BY <2>2, <3>1, SlotGood
    <3> QED
      BY <3>2 DEF e
  <2>4. AlikeOfds(x, z)
    BY <1>5, <2>3 DEF AlikeOfds
  <2> HIDE DEF y
  <2> QED
    BY <1>5, <2>2, <2>3, <2>4 DEF Deleted
<1> QED
  BY <1>7, <1>8

LEMMA DelRefs ==
  ASSUME Inv, NEW s \in Slots, NEW z, Good(z, strayed), Deleted(z, s)
  PROVE  Refs(z, held, p_uft, stack)
<1> DEFINE x == Now
<1>1. Sound(x) /\ Refs(x, held, p_uft, stack) /\ x.sft = sft
  BY InvParts, NowIs
<1>2. Sound(z) /\ z.sft = x.sft
  BY <1>1 DEF Good, Deleted
<1>3. \A o \in Used(x) : z.ofd[o].id = x.ofd[o].id
  BY <1>1, UsedParts DEF Deleted, AlikeOfds, Alike
<1> HIDE DEF x
<1> QED
  BY <1>1, <1>2, <1>3, RefsKept

LEMMA UnlinkInv ==
  ASSUME Inv, NEW name \in Names, xunlink(name)
  PROVE  Inv'
<1>1. PICK s \in Slots : Commit(ixdel(s))
  BY DEF xunlink
<1>2. UNCHANGED <<p_uft, stack, held, clock>>
  BY DEF xunlink
<1> DEFINE z == ixdel(s)
<1>3. Good(z, strayed) /\ Deleted(z, s)
  BY DelGood
<1>4. Refs(z, held, p_uft, stack)
  <2> HIDE DEF z
  <2> QED
    BY <1>3, DelRefs
<1>5. Good(Now', strayed') /\ Apart' /\ Now' = z
  BY <1>1, <1>3, CommitClosed
<1>6. clock \in 0 .. MaxClock
  BY InvParts
<1> QED
  BY <1>2, <1>4, <1>5, <1>6 DEF Inv

-----------------------------------------------------------------------------
(* Opening. *)

(* The DFD of a new opening of the file at s: its own, if none is listed. *)
Shares(x, s, o, d) ==
  \/ d = o /\ \A q \in Range(x.d_files) : x.ofd[q].o_dirbyt # s
  \/ \E p \in Range(x.d_files) : x.ofd[p].o_dirbyt = s /\ d = x.ofd[p].o_dfd

LEMMA SharedFacts ==
  ASSUME NEW x, x.d_files \in Lists, NEW s \in Slots, NEW o
  PROVE  Shares(x, s, o, SharedDfd(x, s, o))
<1> DEFINE I == OpenAt(x, s)
<1>1. /\ DOMAIN x.d_files = 1 .. Len(x.d_files)
      /\ \A q : q \in Range(x.d_files) <=> \E i \in 1 .. Len(x.d_files) : q = x.d_files[i]
  BY ListFacts
<1>2. CASE I = {}
  <2>1. \A q \in Range(x.d_files) : x.ofd[q].o_dirbyt # s
    BY <1>1, <1>2 DEF OpenAt
  <2> QED
    BY <1>2, <2>1 DEF Shares, SharedDfd
<1>3. CASE I # {}
  <2>1. I \in SUBSET Nat
    BY <1>1 DEF OpenAt
  <2>2. First(I) \in I
    BY <1>3, <2>1, MinFacts DEF First
  <2> DEFINE i == First(I)
             p == x.d_files[i]
  <2>3. i \in 1 .. Len(x.d_files) /\ x.ofd[p].o_dirbyt = s
    BY <1>1, <2>2 DEF OpenAt
  <2>4. p \in Range(x.d_files)
    BY <1>1, <2>3
  <2>5. SharedDfd(x, s, o) = x.ofd[p].o_dfd
    BY <1>3 DEF SharedDfd, Base
  <2> QED
    BY <2>3, <2>4, <2>5 DEF Shares
<1> QED
  BY <1>2, <1>3

(* What opening changes. *)
OpenedAs(x, y, s, h, o, d) ==
  /\ y \in Tables
  /\ y.sft[h] = [f_ofd |-> o, f_own |-> run, f_use |-> 1]
  /\ \A g \in Handles \ {h} : y.sft[g] = x.sft[g]
  /\ y.d_files = <<o>> \o x.d_files /\ y.dir = x.dir
  /\ y.ofd[o] # None /\ y.ofd[o].o_dirbyt = s /\ y.ofd[o].o_dfd = d
  /\ y.ofd[o].id = x.dir[s].id /\ y.ofd[o].ver = x.dir[s].ver
  /\ d = o => y.ofd[o].o_usecnt = 1
  /\ \A q \in Ofds \ {o} :
       /\ y.ofd[q] = None <=> x.ofd[q] = None
       /\ x.ofd[q] # None =>
            /\ y.ofd[q].o_dirbyt = x.ofd[q].o_dirbyt /\ y.ofd[q].o_dfd = x.ofd[q].o_dfd
            /\ y.ofd[q].id = x.ofd[q].id /\ y.ofd[q].ver = x.ofd[q].ver
            /\ y.ofd[q].dirty = x.ofd[q].dirty
            /\ y.ofd[q].o_usecnt = IF q = d THEN x.ofd[q].o_usecnt + 1 ELSE x.ofd[q].o_usecnt

LEMMA OpenFacts ==
  ASSUME NEW x \in Tables, NEW s \in Slots, x.dir[s] # None, NEW h \in Handles, run \in PDs,
         NEW o \in Ofds, x.ofd[o] = None, NEW d \in Ofds, d # o => x.ofd[d] # None,
         d = SharedDfd(x, s, o), NEW y, y = opnfil(x, s, h, o)
  PROVE  OpenedAs(x, y, s, h, o, d)
<1> DEFINE e == [f_ofd |-> o, f_own |-> run, f_use |-> 1]
           n == NewOfd(x, s, d)
           f == [x.sft EXCEPT ![h] = e]
           z == Enter(x, s, h, o, d)
           v == [x.ofd EXCEPT ![o] = n]
           w == [v EXCEPT ![d].o_usecnt = @ + 1]
           l == <<o>> \o x.d_files
<1>1. /\ x.sft \in [Handles -> Entries] /\ x.ofd \in [Ofds -> OFD \cup {None}]
      /\ x.d_files \in Seq(Ofds) /\ x.dir \in [Slots -> FCB \cup {None}]
  BY Parts
<1>2. e \in Entries /\ f \in [Handles -> Entries] /\ l \in Seq(Ofds)
  BY <1>1 DEF Entries
<1>3. n \in OFD /\ n # None
  <2>1. x.dir[s] \in FCB
    BY <1>1
  <2>2. n \in OFD
    BY <2>1 DEF NewOfd, FCB, OFD
  <2> QED
    BY <2>2, OfdFields
<1>4. y = [z EXCEPT !.ofd[d].o_usecnt = @ + 1]
  BY DEF opnfil
<1>7. /\ n.o_dirbyt = s /\ n.o_dfd = d /\ n.o_usecnt = 0 /\ n.dirty = FALSE
      /\ n.id = x.dir[s].id /\ n.ver = x.dir[s].ver
  BY DEF NewOfd
<1> HIDE DEF n
<1>8. v \in [Ofds -> OFD \cup {None}] /\ v[o] = n /\ (\A q \in Ofds \ {o} : v[q] = x.ofd[q])
      /\ v[d] \in OFD
  BY <1>1, <1>3
<1> DEFINE u == [v[d] EXCEPT !.o_usecnt = @ + 1]
<1>9. w = [v EXCEPT ![d] = u]
  OBVIOUS
<1>10. /\ u \in OFD /\ u # None
       /\ u.o_dirbyt = v[d].o_dirbyt /\ u.o_dfd = v[d].o_dfd /\ u.id = v[d].id
       /\ u.ver = v[d].ver /\ u.dirty = v[d].dirty /\ u.o_usecnt = v[d].o_usecnt + 1
  <2>1. u \in OFD
    BY <1>8 DEF OFD
  <2> QED
    BY <1>8, <2>1, OfdFields DEF OFD
<1> HIDE DEF v, u, w
<1>11. w \in [Ofds -> OFD \cup {None}] /\ w[d] = u /\ \A q \in Ofds \ {d} : w[q] = v[q]
  BY <1>8, <1>9, <1>10
<1>12. /\ w[o] # None /\ w[o].o_dirbyt = s /\ w[o].o_dfd = d
       /\ w[o].id = x.dir[s].id /\ w[o].ver = x.dir[s].ver
       /\ d = o => w[o].o_usecnt = 1
  <2>1. CASE d = o
    BY <1>7, <1>8, <1>10, <1>11, <2>1
  <2>2. CASE d # o
    BY <1>3, <1>7, <1>8, <1>11, <2>2
  <2> QED
    BY <2>1, <2>2
<1>13. ASSUME NEW q \in Ofds \ {o}
       PROVE  /\ w[q] = None <=> x.ofd[q] = None
              /\ x.ofd[q] # None =>
                   /\ w[q].o_dirbyt = x.ofd[q].o_dirbyt /\ w[q].o_dfd = x.ofd[q].o_dfd
                   /\ w[q].id = x.ofd[q].id /\ w[q].ver = x.ofd[q].ver
                   /\ w[q].dirty = x.ofd[q].dirty
                   /\ w[q].o_usecnt = IF q = d THEN x.ofd[q].o_usecnt + 1 ELSE x.ofd[q].o_usecnt
  <2>1. CASE q = d
    BY <1>8, <1>10, <1>11, <2>1
  <2>2. CASE q # d
    BY <1>8, <1>11, <2>2
  <2> QED
    BY <2>1, <2>2
<1> DEFINE z1 == [x EXCEPT !.sft = f]
           z2 == [z1 EXCEPT !.ofd = v]
           z3 == [z2 EXCEPT !.d_files = l]
           z4 == [z3 EXCEPT !.ofd = w]
<1> HIDE DEF e, f, l
<1>17. z1 \in Tables /\ z1.sft = f /\ z1.ofd = x.ofd /\ z1.d_files = x.d_files /\ z1.dir = x.dir
  BY <1>2, WithSft
<1>18. z2 \in Tables /\ z2.sft = f /\ z2.ofd = v /\ z2.d_files = x.d_files /\ z2.dir = x.dir
  <2> HIDE DEF z1
  <2> QED
    BY <1>8, <1>17, WithOfd
<1>19. z3 \in Tables /\ z3.sft = f /\ z3.ofd = v /\ z3.d_files = l /\ z3.dir = x.dir
  <2> HIDE DEF z2
  <2> QED
    BY <1>2, <1>18, WithFiles
<1>20. z4 \in Tables /\ z4.sft = f /\ z4.ofd = w /\ z4.d_files = l /\ z4.dir = x.dir
  <2> HIDE DEF z3
  <2> QED
    BY <1>11, <1>19, WithOfd
<1>21. z = z3
  <2>1. z2 = [z1 EXCEPT !.ofd[o] = n]
    <3>1. [z1.ofd EXCEPT ![o] = n] = v
      BY <1>17 DEF v
    <3> QED
      BY <3>1
  <2>2. z3 = [z2 EXCEPT !.d_files = <<o>> \o @]
    BY <1>18 DEF l
  <2>3. z1 = [x EXCEPT !.sft[h] = e]
    BY DEF f
  <2> QED
    BY <2>1, <2>2, <2>3 DEF Enter, e, n
<1>22. y = z4
  <2> HIDE DEF z3, z
  <2>1. [z3.ofd EXCEPT ![d].o_usecnt = @ + 1] = w
    BY <1>19 DEF w
  <2> QED
    BY <1>4, <1>21, <2>1
<1> HIDE DEF z4
<1>14. y \in Tables
  BY <1>20, <1>22
<1>15. y.sft[h] = e /\ \A g \in Handles \ {h} : y.sft[g] = x.sft[g]
  BY <1>1, <1>20, <1>22 DEF f
<1>16. y.ofd = w /\ y.d_files = l /\ y.dir = x.dir
  BY <1>20, <1>22
<1> QED
  BY <1>12, <1>13, <1>14, <1>15, <1>16 DEF OpenedAs, l, e

(* The DFD of the new opening is there, with the file, or is new. *)
LEMMA SharesFacts ==
  ASSUME NEW x, NEW S, Good(x, S), NEW s \in Slots, NEW o \in Ofds, x.ofd[o] = None,
         NEW d, Shares(x, s, o, d)
  PROVE  /\ d \in Ofds /\ o \notin Used(x)
         /\ d = o => \A q \in Range(x.d_files) : x.ofd[q].o_dirbyt # s
         /\ d # o => /\ x.ofd[d] # None /\ x.ofd[d].o_dfd = d
                     /\ x.ofd[d].o_dirbyt = s /\ x.ofd[d].id = x.dir[s].id
                     /\ \E p \in Range(x.d_files) : x.ofd[p].o_dirbyt = s /\ d = x.ofd[p].o_dfd
<1>1. Sound(x) /\ Listed(x) /\ o \notin Used(x)
  BY GoodParts DEF Sound
<1>2. CASE d = o /\ \A q \in Range(x.d_files) : x.ofd[q].o_dirbyt # s
  BY <1>1, <1>2
<1>3. CASE \E p \in Range(x.d_files) : x.ofd[p].o_dirbyt = s /\ d = x.ofd[p].o_dfd
  <2>1. PICK p \in Range(x.d_files) : x.ofd[p].o_dirbyt = s /\ d = x.ofd[p].o_dfd
    BY <1>3
  <2>2. p \in Used(x) /\ x.dir[s].id = x.ofd[p].id
    BY <1>1, <2>1 DEF Listed
  <2>3. p \in Ofds /\ x.ofd[p] # None
    BY <1>1, <2>2, UsedParts
  <2>4. /\ d \in Ofds /\ x.ofd[d] # None /\ x.ofd[d].o_dfd = d
        /\ x.ofd[d].o_dirbyt = s /\ x.ofd[d].id = x.dir[s].id
    BY <1>1, <2>1, <2>2, <2>3, OfdParts DEF OfdOK
  <2> QED
    BY <1>1, <2>1, <2>4
<1> QED
  BY <1>2, <1>3 DEF Shares

LEMMA OpenedParts ==
  ASSUME NEW x, NEW S, Good(x, S), NEW s \in Slots, x.dir[s] # None,
         NEW h \in Handles, x.sft[h].f_own = None, run \in PDs,
         NEW o \in Ofds, x.ofd[o] = None, NEW d, Shares(x, s, o, d),
         NEW y, OpenedAs(x, y, s, h, o, d)
  PROVE  /\ x.sft[h].f_ofd = None
         /\ Used(y) = Used(x) \cup {o}
         /\ \A g \in Handles : EntryOK(y.sft[g])
         /\ \A q \in Ofds \ {o} :
              /\ y.ofd[q] = None <=> x.ofd[q] = None
              /\ x.ofd[q] # None =>
                   y.ofd[q].o_dirbyt = x.ofd[q].o_dirbyt /\ y.ofd[q].o_dfd = x.ofd[q].o_dfd
                   /\ y.ofd[q].id = x.ofd[q].id /\ y.ofd[q].ver = x.ofd[q].ver
                   /\ y.ofd[q].dirty = x.ofd[q].dirty
<1>1. /\ Sound(x) /\ Listed(x) /\ x.d_files \in Lists
      /\ x.sft \in [Handles -> Entries]
  BY GoodParts
<1>2. x.sft[h].f_ofd = None
  BY <1>1 DEF Sound, EntryOK
<1>3. /\ y.sft[h] = [f_ofd |-> o, f_own |-> run, f_use |-> 1]
      /\ \A g \in Handles \ {h} : y.sft[g] = x.sft[g]
  BY DEF OpenedAs
<1>4. \A g \in Handles : EntryOK(y.sft[g])
  <2>1. EntryOK(y.sft[h])
    BY <1>3, Distinct DEF EntryOK
  <2> QED
    BY <1>1, <1>3, <2>1 DEF Sound
<1>5. Used(y) = Used(x) \cup {o}
  <2>1. ASSUME NEW q \in Ofds
        PROVE  sftofdsrch(y, q) <=> sftofdsrch(x, q) \/ q = o
    <3>1. y.sft[h].f_ofd = o
      BY <1>3
    <3>2. x.sft[h].f_ofd # q
      BY <1>2, Distinct
    <3> QED
      BY <1>3, <3>1, <3>2 DEF sftofdsrch
  <2> QED
    BY <2>1 DEF Used
<1>7. ASSUME NEW q \in Ofds \ {o}
      PROVE  /\ y.ofd[q] = None <=> x.ofd[q] = None
             /\ x.ofd[q] # None =>
                  y.ofd[q].o_dirbyt = x.ofd[q].o_dirbyt /\ y.ofd[q].o_dfd = x.ofd[q].o_dfd
                  /\ y.ofd[q].id = x.ofd[q].id /\ y.ofd[q].ver = x.ofd[q].ver
                  /\ y.ofd[q].dirty = x.ofd[q].dirty
  BY DEF OpenedAs
<1> QED
  BY <1>2, <1>4, <1>5, <1>7

ListedToo(x, y, o) ==
  y.d_files \in Lists /\ Range(y.d_files) = Range(x.d_files) \cup {o}

LEMMA OpenedList ==
  ASSUME NEW x, NEW S, Good(x, S), NEW s, NEW h, NEW o \in Ofds, x.ofd[o] = None, NEW d,
         NEW y, OpenedAs(x, y, s, h, o, d)
  PROVE  ListedToo(x, y, o)
<1>1. Sound(x) /\ Listed(x) /\ x.d_files \in Lists
  BY GoodParts
<1>2. o \notin Range(x.d_files)
  BY <1>1, UsedParts DEF Listed
<1>3. y.d_files = <<o>> \o x.d_files
  BY DEF OpenedAs
<1> QED
  BY <1>1, <1>2, <1>3, PutFirst DEF ListedToo

LEMMA OpenSound ==
  ASSUME NEW x, NEW S, Good(x, S), NEW s \in Slots, x.dir[s] # None,
         NEW h \in Handles, x.sft[h].f_own = None, run \in PDs,
         NEW o \in Ofds, x.ofd[o] = None, NEW d, Shares(x, s, o, d),
         NEW y, OpenedAs(x, y, s, h, o, d)
  PROVE  Sound(y)
<1>1. /\ Sound(x) /\ y \in Tables /\ x.ofd \in [Ofds -> OFD \cup {None}]
      /\ \A q \in Used(x) : x.ofd[q] # None
      /\ \A q \in Ofds : x.ofd[q] # None => OfdOK(x, q)
      /\ \A q \in Ofds : x.ofd[q] # None /\ x.ofd[q].o_dfd = q => Counted(x, q)
  BY GoodParts DEF Sound, OpenedAs
<1>2. /\ d \in Ofds /\ o \notin Used(x)
      /\ d # o => /\ x.ofd[d] # None /\ x.ofd[d].o_dfd = d
                  /\ x.ofd[d].o_dirbyt = s /\ x.ofd[d].id = x.dir[s].id
  BY SharesFacts
<1>3. /\ Used(y) = Used(x) \cup {o}
      /\ \A g \in Handles : EntryOK(y.sft[g])
      /\ \A q \in Ofds \ {o} :
           /\ y.ofd[q] = None <=> x.ofd[q] = None
           /\ x.ofd[q] # None =>
                y.ofd[q].o_dirbyt = x.ofd[q].o_dirbyt /\ y.ofd[q].o_dfd = x.ofd[q].o_dfd
                /\ y.ofd[q].id = x.ofd[q].id
  BY OpenedParts
<1>4. /\ y.ofd[o] # None /\ y.ofd[o].o_dirbyt = s /\ y.ofd[o].o_dfd = d
      /\ y.ofd[o].id = x.dir[s].id
      /\ d = o => y.ofd[o].o_usecnt = 1
  BY DEF OpenedAs
<1>5. \A q \in Used(y) : y.ofd[q] # None
  BY <1>1, <1>3, <1>4 DEF Used
<1>6. ASSUME NEW q \in Ofds, y.ofd[q] # None
      PROVE  OfdOK(y, q)
  <2>1. CASE q = o
    <3>1. CASE d = o
      BY <1>3, <1>4, <2>1, <3>1 DEF OfdOK
    <3>2. CASE d # o
      BY <1>2, <1>3, <1>4, <2>1, <3>2 DEF OfdOK
    <3> QED
      BY <3>1, <3>2
  <2>2. CASE q # o
    <3> DEFINE b == x.ofd[q].o_dfd
    <3>1. x.ofd[q] # None /\ y.ofd[q].o_dirbyt = x.ofd[q].o_dirbyt /\ y.ofd[q].o_dfd = b
          /\ y.ofd[q].id = x.ofd[q].id
      BY <1>3, <1>6, <2>2
    <3>2. /\ b \in Ofds /\ x.ofd[b] # None /\ x.ofd[b].o_dfd = b /\ x.ofd[b].id = x.ofd[q].id
          /\ x.ofd[b].o_dirbyt = x.ofd[q].o_dirbyt /\ (b # q => q \in Used(x))
      BY <1>1, <3>1, OfdParts DEF OfdOK
    <3>3. b # o
      BY <3>2
    <3>4. /\ y.ofd[b] # None /\ y.ofd[b].o_dfd = b /\ y.ofd[b].id = x.ofd[q].id
          /\ y.ofd[b].o_dirbyt = x.ofd[q].o_dirbyt
      BY <1>3, <3>2, <3>3
    <3> HIDE DEF b
    <3> QED
      BY <1>3, <3>1, <3>2, <3>4 DEF OfdOK
  <2> QED
    BY <2>1, <2>2
<1>7. ASSUME NEW q \in Ofds, y.ofd[q] # None, y.ofd[q].o_dfd = q
      PROVE  Counted(y, q)
  <2>1. CASE q = o
    <3>1. d = o
      BY <1>4, <1>7, <2>1
    <3>2. ASSUME NEW p \in Used(x)
          PROVE  y.ofd[p].o_dfd # o
      <4>1. p \in Ofds /\ x.ofd[p] # None
        BY <1>1, UsedParts
      <4>2. OfdOK(x, p) /\ y.ofd[p].o_dfd = x.ofd[p].o_dfd
        BY <1>1, <1>3, <4>1
      <4> QED
        BY <4>2 DEF OfdOK
    <3>3. Users(y, o) = {o}
      BY <1>3, <1>4, <3>1, <3>2 DEF Users
    <3> QED
      BY <1>4, <2>1, <3>1, <3>3, FS_Singleton DEF Counted
  <2>2. CASE q # o
    <3>1. x.ofd[q] # None /\ x.ofd[q].o_dfd = q
      BY <1>3, <1>7, <2>2
    <3>2. x.ofd[q].o_usecnt = Cardinality(Users(x, q)) /\ Users(x, q) # {}
      BY <1>1, <3>1 DEF Counted
    <3>3. IsFiniteSet(Users(x, q)) /\ Cardinality(Users(x, q)) \in Nat
      BY UsedFinite
    <3>4. ASSUME NEW p \in Used(x)
          PROVE  y.ofd[p].o_dfd = x.ofd[p].o_dfd /\ p # o
      <4>1. p \in Ofds /\ x.ofd[p] # None
        BY <1>1, UsedParts
      <4> QED
        BY <1>2, <1>3, <4>1
    <3>5. y.ofd[q].o_usecnt = IF q = d THEN x.ofd[q].o_usecnt + 1 ELSE x.ofd[q].o_usecnt
      BY <2>2, <3>1 DEF OpenedAs
    <3>6. CASE q = d
      <4>1. Users(y, q) = Users(x, q) \cup {o}
        BY <1>3, <1>4, <3>4, <3>6 DEF Users
      <4>2. o \notin Users(x, q)
        BY <1>2 DEF Users
      <4>3. Cardinality(Users(y, q)) = Cardinality(Users(x, q)) + 1
        BY <3>3, <4>1, <4>2, FS_AddElement
      <4> QED
        BY <3>2, <3>5, <3>6, <4>1, <4>3 DEF Counted
    <3>7. CASE q # d
      <4>1. Users(y, q) = Users(x, q)
        BY <1>3, <1>4, <3>4, <3>7 DEF Users
      <4> QED
        BY <3>2, <3>5, <3>7, <4>1 DEF Counted
    <3> QED
      BY <3>6, <3>7
  <2> QED
    BY <2>1, <2>2
<1> QED
  BY <1>1, <1>3, <1>5, <1>6, <1>7 DEF Sound

LEMMA OpenGood ==
  ASSUME NEW x, NEW S, Good(x, S), NEW s \in Slots, x.dir[s] # None,
         NEW h \in Handles, x.sft[h].f_own = None, run \in PDs,
         NEW o \in Ofds, x.ofd[o] = None, NEW d, Shares(x, s, o, d),
         NEW y, OpenedAs(x, y, s, h, o, d),
         NEW T, S \subseteq T, Strays(x, s) # {} => s \in T
  PROVE  Good(y, T)
<1>1. /\ Sound(x) /\ Listed(x) /\ Follows(x, S) /\ Sound(y)
      /\ \A p \in Range(x.d_files) : p \in Used(x)
  BY GoodParts, OpenSound DEF Listed
<1>2. /\ d \in Ofds /\ o \notin Used(x)
      /\ d = o => \A q \in Range(x.d_files) : x.ofd[q].o_dirbyt # s
      /\ d # o => /\ x.ofd[d] # None
                  /\ \E p \in Range(x.d_files) : x.ofd[p].o_dirbyt = s /\ d = x.ofd[p].o_dfd
  BY SharesFacts
<1>3. /\ Used(y) = Used(x) \cup {o}
      /\ y.d_files \in Lists /\ Range(y.d_files) = Range(x.d_files) \cup {o}
      /\ \A q \in Ofds \ {o} :
           x.ofd[q] # None =>
                y.ofd[q].o_dirbyt = x.ofd[q].o_dirbyt /\ y.ofd[q].o_dfd = x.ofd[q].o_dfd
                /\ y.ofd[q].id = x.ofd[q].id /\ y.ofd[q].ver = x.ofd[q].ver
                /\ y.ofd[q].dirty = x.ofd[q].dirty
  <2>1. Good(x, S) /\ Shares(x, s, o, d) /\ OpenedAs(x, y, s, h, o, d)
    OBVIOUS
  <2>2. Used(y) = Used(x) \cup {o}
    BY <2>1, OpenedParts
  <2>5. ListedToo(x, y, o)
    BY <2>1, OpenedList
  <2>3. y.d_files \in Lists /\ Range(y.d_files) = Range(x.d_files) \cup {o}
    BY <2>5 DEF ListedToo
  <2>4. \A q \in Ofds \ {o} :
           x.ofd[q] # None =>
                y.ofd[q].o_dirbyt = x.ofd[q].o_dirbyt /\ y.ofd[q].o_dfd = x.ofd[q].o_dfd
                /\ y.ofd[q].id = x.ofd[q].id /\ y.ofd[q].ver = x.ofd[q].ver
                /\ y.ofd[q].dirty = x.ofd[q].dirty
    BY DEF OpenedAs
  <2> QED
    BY <2>2, <2>3, <2>4
<1>4. /\ y.ofd[o].o_dirbyt = s /\ y.ofd[o].o_dfd = d
      /\ y.ofd[o].id = x.dir[s].id /\ y.ofd[o].ver = x.dir[s].ver /\ y.dir = x.dir
  BY DEF OpenedAs
<1>5. ASSUME NEW q \in Used(x)
      PROVE  /\ q \in Ofds /\ q # o /\ x.ofd[q] # None
             /\ y.ofd[q].o_dirbyt = x.ofd[q].o_dirbyt /\ y.ofd[q].o_dfd = x.ofd[q].o_dfd
             /\ y.ofd[q].id = x.ofd[q].id
             /\ Dfd(y, q).ver = Dfd(x, q).ver /\ Dfd(y, q).dirty = Dfd(x, q).dirty
  <2> DEFINE b == x.ofd[q].o_dfd
  <2>1. q \in Ofds /\ q # o /\ x.ofd[q] # None
    BY <1>1, <1>2, UsedParts
  <2>2. b \in Ofds /\ x.ofd[b] # None /\ b # o
    BY <1>1, <2>1, OfdParts DEF OfdOK
  <2>3. /\ y.ofd[q].o_dirbyt = x.ofd[q].o_dirbyt /\ y.ofd[q].o_dfd = b
        /\ y.ofd[q].id = x.ofd[q].id
    BY <1>3, <2>1
  <2>4. y.ofd[b].ver = x.ofd[b].ver /\ y.ofd[b].dirty = x.ofd[b].dirty
    BY <1>3, <2>2
  <2> HIDE DEF b
  <2>5. Dfd(y, q) = y.ofd[b] /\ Dfd(x, q) = x.ofd[b]
    BY <2>3 DEF Dfd, Base, b
  <2> QED
    BY <2>1, <2>3, <2>4, <2>5 DEF b
<1>6. ASSUME NEW p \in Range(x.d_files), x.ofd[p].o_dirbyt = s
      PROVE  x.ofd[p].o_dfd = d
  <2>1. d # o
    BY <1>2, <1>6
  <2>2. PICK q \in Range(x.d_files) : x.ofd[q].o_dirbyt = s /\ d = x.ofd[q].o_dfd
    BY <1>2, <2>1
  <2> QED
    BY <1>1, <1>6, <2>2 DEF Listed
<1>7. Listed(y)
  <2>1. IsInjective(y.d_files)
    BY <1>3 DEF Lists
  <2>2. ASSUME NEW p \in Range(y.d_files)
        PROVE  /\ p \in Used(y)
               /\ y.dir[y.ofd[p].o_dirbyt] # None
               /\ y.dir[y.ofd[p].o_dirbyt].id = y.ofd[p].id
    <3>1. CASE p = o
      BY <1>3, <1>4, <3>1
    <3>2. CASE p \in Range(x.d_files)
      BY <1>1, <1>3, <1>4, <1>5, <3>2 DEF Listed
    <3> QED
      BY <1>3, <3>1, <3>2
  <2>3. ASSUME NEW p \in Range(y.d_files), NEW q \in Range(y.d_files),
               y.ofd[p].o_dirbyt = y.ofd[q].o_dirbyt
        PROVE  y.ofd[p].o_dfd = y.ofd[q].o_dfd
    <3>1. CASE p = o /\ q = o
      BY <3>1
    <3>2. CASE p = o /\ q \in Range(x.d_files)
      BY <1>1, <1>4, <1>5, <1>6, <2>3, <3>2
    <3>3. CASE p \in Range(x.d_files) /\ q = o
      BY <1>1, <1>4, <1>5, <1>6, <2>3, <3>3
    <3>4. CASE p \in Range(x.d_files) /\ q \in Range(x.d_files)
      BY <1>1, <1>5, <2>3, <3>4 DEF Listed
    <3> QED
      BY <1>3, <3>1, <3>2, <3>3, <3>4
  <2> QED
    BY <2>1, <2>2, <2>3 DEF Listed
<1>8. ASSUME NEW q \in Used(x), x.ofd[q].o_dirbyt = s
      PROVE  x.ofd[q].o_dfd = d \/ s \in T
  <2>1. CASE q \in Range(x.d_files)
    BY <1>6, <1>8, <2>1
  <2>2. CASE q \notin Range(x.d_files)
    <3>1. q \in UsedAt(x, s)
      BY <1>5, <1>8 DEF UsedAt, Used
    <3>2. q \in Strays(x, s)
      BY <2>2, <3>1 DEF Strays
    <3> QED
      BY <3>2
  <2> QED
    BY <2>1, <2>2
<1>9. ASSUME NEW p \in Used(y), NEW q \in Used(y), y.ofd[p].o_dirbyt = y.ofd[q].o_dirbyt
      PROVE  y.ofd[p].o_dfd = y.ofd[q].o_dfd \/ y.ofd[p].o_dirbyt \in T
  <2>1. CASE p = o /\ q = o
    BY <2>1
  <2>2. CASE p = o /\ q \in Used(x)
    BY <1>4, <1>5, <1>8, <1>9, <2>2
  <2>3. CASE p \in Used(x) /\ q = o
    BY <1>4, <1>5, <1>8, <1>9, <2>3
  <2>4. CASE p \in Used(x) /\ q \in Used(x)
    <3>1. x.ofd[p].o_dirbyt = x.ofd[q].o_dirbyt
      BY <1>5, <1>9, <2>4
    <3>2. x.ofd[p].o_dfd = x.ofd[q].o_dfd \/ x.ofd[p].o_dirbyt \in S
      BY <1>1, <2>4, <3>1 DEF Follows
    <3> QED
      BY <1>5, <2>4, <3>2
  <2> QED
    BY <1>3, <2>1, <2>2, <2>3, <2>4
<1>10. ASSUME NEW p \in Range(y.d_files)
       PROVE  Saves(y, p) \/ y.ofd[p].o_dirbyt \in T
  <2>1. CASE p \in Range(x.d_files)
    <3>1. p \in Used(x)
      BY <1>1, <2>1
    <3>2. Saves(x, p) \/ x.ofd[p].o_dirbyt \in S
      BY <1>1, <2>1 DEF Follows
    <3> QED
      BY <1>4, <1>5, <3>1, <3>2 DEF Saves
  <2>2. CASE p = o
    <3>1. CASE d = o
      <4>1. Dfd(y, o).ver = x.dir[s].ver
        BY <1>4, <3>1 DEF Dfd, Base
      <4> QED
        BY <1>4, <2>2, <4>1 DEF Saves
    <3>2. CASE d # o
      <4>1. PICK q \in Range(x.d_files) : x.ofd[q].o_dirbyt = s /\ d = x.ofd[q].o_dfd
        BY <1>2, <3>2
      <4>2. q \in Used(x) /\ (Saves(x, q) \/ s \in S)
        BY <1>1, <4>1 DEF Follows
      <4>3. Dfd(y, q).ver = Dfd(x, q).ver /\ Dfd(y, q).dirty = Dfd(x, q).dirty
        BY <1>5, <4>2
      <4>4. y.ofd[q].o_dfd = d
        BY <1>5, <4>1, <4>2
      <4>5. Dfd(y, o) = Dfd(y, q)
        BY <1>4, <4>4 DEF Dfd, Base
      <4> QED
        BY <1>4, <2>2, <4>1, <4>2, <4>3, <4>5 DEF Saves
    <3> QED
      BY <3>1, <3>2
  <2> QED
    BY <1>3, <2>1, <2>2
<1> QED
  BY <1>1, <1>7, <1>9, <1>10 DEF Good, Follows

LEMMA FreeHandleFacts ==
  ASSUME NEW x, FreeHandles(x) # {}, NEW h, h = FreeHandle(x)
  PROVE  h \in Handles /\ h \in Keys /\ h \notin Std /\ x.sft[h].f_own = None
<1>1. FreeHandles(x) \in SUBSET Nat
  BY Distinct DEF FreeHandles
<1>2. h \in FreeHandles(x)
  BY <1>1, MinFacts DEF FreeHandle, First
<1> QED
  BY <1>2, Distinct DEF FreeHandles, Keys

(* A file is opened, as one of the DFDs or as its own. *)
OpenedBy(x, y, s, h, o) == \E d : Shares(x, s, o, d) /\ OpenedAs(x, y, s, h, o, d)

LEMMA OpnfilGood ==
  ASSUME NEW x, NEW S, Good(x, S), NEW s \in Slots, x.dir[s] # None,
         NEW h \in Handles, x.sft[h].f_own = None, run \in PDs,
         NEW o \in Ofds, x.ofd[o] = None,
         NEW y, y = opnfil(x, s, h, o),
         NEW T, S \subseteq T, Strays(x, s) # {} => s \in T
  PROVE  Good(y, T) /\ OpenedBy(x, y, s, h, o)
<1> DEFINE d == SharedDfd(x, s, o)
<1>1. x.d_files \in Lists /\ x \in Tables
  BY GoodParts
<1>2. Shares(x, s, o, d)
  BY <1>1, SharedFacts
<1> HIDE DEF d
<1>3. d \in Ofds /\ (d # o => x.ofd[d] # None)
  BY <1>2, SharesFacts
<1>4. OpenedAs(x, y, s, h, o, d)
  BY <1>1, <1>3, OpenFacts DEF d
<1>5. Good(y, T)
  BY <1>2, <1>4, OpenGood
<1> QED
  BY <1>2, <1>4, <1>5 DEF OpenedBy

(* Its handle is given to the program. *)
LEMMA OpenRefs ==
  ASSUME NEW x, Sound(x), NEW hd, NEW pu, NEW st, Refs(x, hd, pu, st),
         run \in Range(st), NEW s, NEW h \in Handles, x.sft[h].f_own = None,
         NEW o \in Ofds, x.ofd[o] = None, NEW y, Sound(y), OpenedBy(x, y, s, h, o),
         NEW id, id = x.dir[s].id, id # None, NEW he, KeyHeld(hd, he, run, h, id)
  PROVE  Refs(y, he, pu, st)
<1>1. PICK d : OpenedAs(x, y, s, h, o, d)
  BY DEF OpenedBy
<1>2. /\ y.sft[h] = [f_ofd |-> o, f_own |-> run, f_use |-> 1]
      /\ \A g \in Handles \ {h} : y.sft[g] = x.sft[g]
      /\ y.ofd[o].id = id
      /\ \A q \in Ofds \ {o} : x.ofd[q] # None => y.ofd[q].id = x.ofd[q].id
  BY <1>1 DEF OpenedAs
<1>3. Stacked(st) /\ pu \in Mappings
  BY DEF Refs
<1>4. Points(hd, pu, Range(st), h) = {}
  BY FreeEntry
<1>5. FileOf(y, h) = id
  BY <1>2, Distinct DEF FileOf
<1>6. ASSUME NEW g \in Handles \ {h}, x.sft[g].f_ofd # None
      PROVE  FileOf(y, g) = FileOf(x, g)
  <2>1. x.sft[g].f_ofd \in Ofds \cup {CON}
    BY <1>6, Parts, EntryFields DEF Sound
  <2>2. CASE x.sft[g].f_ofd = CON
    BY <1>2, <2>2 DEF FileOf
  <2>3. CASE x.sft[g].f_ofd \in Ofds
    <3> DEFINE q == x.sft[g].f_ofd
    <3>1. q \in Used(x)
      BY <2>3 DEF Used, sftofdsrch
    <3>2. q \in Ofds /\ x.ofd[q] # None
      BY <3>1, UsedParts
    <3>3. y.ofd[q].id = x.ofd[q].id
      BY <1>2, <3>2
    <3>4. y.sft[g].f_ofd = q
      BY <1>2
    <3> QED
      BY <3>3, <3>4 DEF FileOf
  <2> QED
    BY <2>1, <2>2, <2>3
<1>7. /\ y.sft[h].f_own = run /\ run \in Older(st, run)
      /\ y.sft[h].f_use >= Cardinality(Points(hd, pu, Range(st), h)) + 1
  BY <1>2, <1>3, <1>4, StackFacts, FS_EmptySet
<1>8. At(pu, run, h) = h /\ h \in Keys
  BY Distinct DEF At, Keys
<1> DEFINE p == run
<1>9. /\ p \in Range(st) /\ KeyHeld(hd, he, p, h, id) /\ At(pu, p, h) = h
      /\ y.sft[h].f_own = p /\ y.sft[h].f_own \in Older(st, p)
  BY <1>7, <1>8
<1>10. \A q \in PDs, j \in Keys : q # p \/ j # h => At(pu, q, j) = At(pu, q, j)
  OBVIOUS
<1>11. \A g \in Handles \ {h} : y.sft[g] = x.sft[g]
  BY <1>2
<1>12. \A g \in Handles \ {h} : x.sft[g].f_ofd # None => FileOf(y, g) = FileOf(x, g)
  BY <1>6
<1>13. \/ Points(hd, pu, Range(st), h) = {}
       \/ y.sft[h].f_own = x.sft[h].f_own /\ FileOf(y, h) = FileOf(x, h)
  BY <1>4
<1>14. h \in Handles => y.sft[h].f_own = p
  BY <1>9
<1> HIDE DEF p
<1> QED
  BY <1>3, <1>5, <1>7, <1>8, <1>9, <1>10, <1>11, <1>12, <1>13, <1>14, RefsMore

LEMMA OpenInv ==
  ASSUME Inv, NEW name \in Names, ixopen(name)
  PROVE  Inv'
<1> DEFINE x == Now
           h == FreeHandle(Now)
<1>1. PICK s \in Slots, o \in Ofds :
        /\ dir[s] # None
        /\ ofd[o] = None
        /\ Commit(opnfil(Now, s, h, o))
        /\ held' = [held EXCEPT ![run][h] = dir[s].id]
  BY DEF ixopen, Hold
<1>2. FreeHandles(x) # {} /\ UNCHANGED <<p_uft, stack, clock>>
  BY DEF ixopen
<1> DEFINE y == opnfil(x, s, h, o)
           T == strayed \cup {t \in Slots : Strays(y, t) # {}}
           id == x.dir[s].id
<1>3. /\ Good(x, strayed) /\ Sound(x) /\ Refs(x, held, p_uft, stack) /\ held \in Held
      /\ run \in Range(stack) /\ run \in PDs /\ clock \in 0 .. MaxClock
      /\ x.dir = dir /\ x.ofd = ofd
  BY InvParts, NowIs
<1>4. h \in Handles /\ h \in Keys /\ x.sft[h].f_own = None
  BY <1>2, FreeHandleFacts
<1>5. Strays(x, s) # {} => s \in T
  BY DEF Inv, Apart
<1>6. Good(y, T) /\ OpenedBy(x, y, s, h, o)
  <2>1. x.dir[s] # None /\ x.ofd[o] = None /\ strayed \subseteq T
    BY <1>1, <1>3
  <2> HIDE DEF x, y, T, h
  <2>2. y = opnfil(x, s, h, o)
    BY DEF y
  <2> QED
    BY <1>3, <1>4, <1>5, <2>1, <2>2, OpnfilGood
<1>7. Good(Now', strayed') /\ Apart' /\ Now' = y
  BY <1>1, <1>6, CommitGood
<1>8. id \in Ids /\ id # None
  <2>1. x.dir[s] \in FCB
    BY <1>1, <1>3, GoodParts
  <2>2. id \in Ids
    BY <2>1 DEF FCB
  <2> QED
    BY <2>2, Distinct DEF Ids
<1>9. KeyHeld(held, held', run, h, id)
  BY <1>1, <1>3, <1>4, <1>8, HeldWith
<1>10. Refs(y, held', p_uft, stack)
  <2> DEFINE hd == held
             he == held'
             pu == p_uft
             st == stack
  <2>1. /\ Sound(x) /\ Sound(y) /\ Refs(x, hd, pu, st) /\ run \in Range(st)
        /\ x.ofd[o] = None /\ KeyHeld(hd, he, run, h, id)
    BY <1>1, <1>3, <1>6, <1>9 DEF Good
  <2>2. id = x.dir[s].id
    OBVIOUS
  <2> HIDE DEF hd, he, pu, st, id, x, y, h
  <2>3. Refs(y, he, pu, st)
    BY <1>4, <1>6, <1>8, <2>1, <2>2, OpenRefs
  <2> QED
    BY <2>3 DEF he, pu, st
<1> QED
  BY <1>2, <1>3, <1>7, <1>10 DEF Inv

-----------------------------------------------------------------------------
(* Creating. *)
Dirtied(x, o) == [x EXCEPT !.ofd[Base(x, o)].dirty = TRUE]

LEMMA DirtyGood ==
  ASSUME NEW x, NEW S, Good(x, S), NEW o \in Used(x),
         NEW y, y = Dirtied(x, o)
  PROVE  /\ Good(y, S) /\ Sound(y) /\ y.sft = x.sft /\ y.d_files = x.d_files
         /\ \A q \in Used(x) : y.ofd[q].id = x.ofd[q].id
         /\ \A t \in Slots : UsedAt(y, t) = UsedAt(x, t)
<1> DEFINE b == Base(x, o)
           e == [x.ofd[b] EXCEPT !.dirty = TRUE]
           f == [x.ofd EXCEPT ![b] = e]
<1>1. /\ x \in Tables /\ Sound(x) /\ x.ofd \in [Ofds -> OFD \cup {None}]
      /\ Follows(x, S) /\ Listed(x)
  BY GoodParts
<1>2. b \in Ofds /\ x.ofd[b] \in OFD
  <2>1. o \in Ofds /\ x.ofd[o] # None
    BY <1>1, UsedParts
  <2> QED
    BY <1>1, <2>1, OfdParts DEF Base
<1>3. e \in OFD /\ e # None /\ Alike(x.ofd[b], e) /\ e.dirty = TRUE
  <2>1. e \in OFD /\ Alike(x.ofd[b], e) /\ e.dirty = TRUE
    BY <1>2 DEF OFD, Alike
  <2> QED
    BY <2>1, OfdFields
<1>4. y = [x EXCEPT !.ofd = f] /\ x \in Tables
  BY <1>1 DEF Dirtied
<1> HIDE DEF e, b
<1>5. f \in [Ofds -> OFD \cup {None}] /\ f[b] = e /\ \A p \in Ofds \ {b} : f[p] = x.ofd[p]
  BY <1>1, <1>2, <1>3
<1> HIDE DEF f
<1>6. /\ y \in Tables /\ y.ofd = f
      /\ y.sft = x.sft /\ y.dir = x.dir /\ y.d_files = x.d_files
  <2>1. f \in [Ofds -> OFD \cup {None}]
    BY <1>5
  <2> QED
    BY <1>4, <2>1, WithOfd
<1>7. AlikeOfds(x, y)
  <2> SUFFICES ASSUME NEW p \in Ofds
               PROVE  /\ y.ofd[p] = None <=> x.ofd[p] = None
                      /\ x.ofd[p] # None => Alike(x.ofd[p], y.ofd[p])
    BY DEF AlikeOfds
  <2>1. CASE p = b
    BY <1>2, <1>3, <1>5, <1>6, <2>1, OfdFields
  <2>2. CASE p # b
    BY <1>5, <1>6, <2>2 DEF Alike
  <2> QED
    BY <2>1, <2>2
<1>8. \A p \in Range(x.d_files) : Saves(y, p) \/ x.ofd[p].o_dirbyt \in S
  <2> TAKE p \in Range(x.d_files)
  <2>1. Saves(x, p) \/ x.ofd[p].o_dirbyt \in S
    BY <1>1 DEF Follows
  <2>2. p \in Used(x)
    BY <1>1 DEF Listed
  <2>3. p \in Ofds /\ x.ofd[p] # None
    BY <1>1, <2>2, UsedParts
  <2>4. x.ofd[p].o_dfd \in Ofds
    BY <1>1, <2>3, OfdParts
  <2>5. y.ofd[p].o_dirbyt = x.ofd[p].o_dirbyt /\ y.ofd[p].o_dfd = x.ofd[p].o_dfd
    BY <1>7, <2>3 DEF AlikeOfds, Alike
  <2>6. CASE x.ofd[p].o_dfd = b
    <3>1. Dfd(y, p) = e
      BY <1>5, <1>6, <2>5, <2>6 DEF Dfd, Base
    <3> QED
      BY <1>3, <3>1 DEF Saves
  <2>7. CASE x.ofd[p].o_dfd # b
    <3>1. Dfd(y, p) = Dfd(x, p)
      BY <1>5, <1>6, <2>4, <2>5, <2>7 DEF Dfd, Base
    <3> QED
      BY <1>6, <2>1, <2>5, <3>1 DEF Saves
  <2> QED
    BY <2>6, <2>7
<1>9. \A s \in Slots : (y.dir[s] = None <=> x.dir[s] = None)
                       /\ (x.dir[s] # None => y.dir[s].id = x.dir[s].id)
  BY <1>6
<1>10. /\ Good(y, S) /\ Sound(y)
       /\ \A q \in Used(x) : y.ofd[q].id = x.ofd[q].id
       /\ \A s \in Slots : UsedAt(y, s) = UsedAt(x, s)
  BY <1>6, <1>7, <1>8, <1>9, GoodKept
<1> QED
  BY <1>6, <1>10

(* Where a file is created, nothing is open. *)
LEMMA NewEntryGood ==
  ASSUME Inv, NEW name \in Names, NEW s \in Creatable(name), ~(FileAt(name) # {} /\ Refused(s)),
         clock < MaxClock, NEW x, x = NewEntry(Replaced(name, s), name, s)
  PROVE  /\ Good(x, strayed) /\ Sound(x) /\ Refs(x, held, p_uft, stack)
         /\ s \in Slots /\ x.dir[s] # None /\ x.dir[s].id = clock + 1
<1> DEFINE w == Replaced(name, s)
           e == [name |-> name, id |-> clock + 1, ver |-> clock + 1]
<1>1. /\ Good(Now, strayed) /\ Listed(Now) /\ Refs(Now, held, p_uft, stack)
      /\ clock \in 0 .. MaxClock /\ Now.dir = dir
  BY InvParts, GoodParts, NowIs
<1>2. s \in Slots /\ (FileAt(name) = {} => dir[s] = None)
  <2>1. CASE FileAt(name) # {}
    BY <2>1 DEF Creatable, FileAt
  <2>2. CASE FileAt(name) = {}
    <3>1. FreeSlots # {} /\ s = First(FreeSlots)
      BY <2>2 DEF Creatable
    <3>2. FreeSlots \in SUBSET Nat
      BY OpenFilesAssumption DEF FreeSlots
    <3>3. s \in FreeSlots
      BY <3>1, <3>2, MinFacts DEF First
    <3> QED
      BY <3>3 DEF FreeSlots
  <2> QED
    BY <2>1, <2>2
<1>3. /\ Good(w, strayed) /\ Refs(w, held, p_uft, stack)
      /\ \A o \in Range(w.d_files) : w.ofd[o].o_dirbyt # s
  <2>1. CASE FileAt(name) = {}
    <3>1. w = Now
      BY <2>1 DEF Replaced
    <3>2. \A o \in Range(Now.d_files) : Now.ofd[o].o_dirbyt # s
      BY <1>1, <1>2, <2>1 DEF Listed
    <3> QED
      BY <1>1, <3>1, <3>2
  <2>2. CASE FileAt(name) # {}
    <3>1. w = ixdel(s) /\ ~Refused(s)
      BY <2>2 DEF Replaced
    <3> HIDE DEF w
    <3>2. Good(w, strayed) /\ Deleted(w, s)
      BY <1>2, <3>1, DelGood
    <3>3. Refs(w, held, p_uft, stack)
      BY <1>2, <3>2, DelRefs
    <3> QED
      BY <3>1, <3>2, <3>3 DEF Deleted
  <2> QED
    BY <2>1, <2>2
<1>4. x = WithEntry(w, s, e)
  BY DEF NewEntry, WithEntry
<1>5. e \in FCB \cup {None} /\ e # None /\ e.id = clock + 1
  <2>1. clock + 1 \in Ids
    BY <1>1, OpenFilesAssumption DEF Ids
  <2>2. e \in FCB
    BY <2>1 DEF FCB
  <2> QED
    BY <2>2, OpenFilesAssumption
<1> HIDE DEF w, e
<1>6. /\ Good(x, strayed) /\ x.dir[s] = e
      /\ x.sft = w.sft /\ x.ofd = w.ofd
  BY <1>2, <1>3, <1>4, <1>5, SlotGood
<1>7. Sound(x) /\ Sound(w)
  BY <1>3, <1>6 DEF Good
<1>8. Refs(x, held, p_uft, stack)
  <2> DEFINE hd == held
             pu == p_uft
             st == stack
  <2>1. Refs(w, hd, pu, st) /\ \A o \in Used(w) : x.ofd[o].id = w.ofd[o].id
    BY <1>3, <1>6
  <2> HIDE DEF hd, pu, st
  <2>2. Refs(x, hd, pu, st)
    BY <1>6, <1>7, <2>1, RefsKept
  <2> QED
    BY <2>2 DEF hd, pu, st
<1> QED
  BY <1>2, <1>5, <1>6, <1>7, <1>8

LEMMA CreateInv ==
  ASSUME Inv, NEW name \in Names, ixcreat(name)
  PROVE  Inv'
<1>1. clock < MaxClock /\ UNCHANGED <<p_uft, stack>>
  BY DEF ixcreat
<1>2. PICK s \in Creatable(name) :
        IF FileAt(name) # {} /\ Refused(s)
        THEN Commit(ixdel(s)) /\ UNCHANGED <<held, clock>>
        ELSE \E x \in {NewEntry(Replaced(name, s), name, s)} :
               /\ clock' = clock + 1
               /\ IF FreeHandles(x) = {}
                  THEN Commit(x) /\ UNCHANGED held
                  ELSE /\ \E o \in Ofds : x.ofd[o] = None /\ Commit(Opened(x, s, o))
                       /\ Hold(FreeHandle(x), clock + 1)
  BY DEF ixcreat
<1>3. clock \in 0 .. MaxClock /\ run \in Range(stack) /\ run \in PDs /\ held \in Held
  BY InvParts
<1>4. CASE FileAt(name) # {} /\ Refused(s)
  <2> DEFINE z == ixdel(s)
  <2>1. s \in Slots /\ Commit(z) /\ UNCHANGED <<held, clock>>
    BY <1>2, <1>4 DEF Creatable, FileAt
  <2>2. Good(z, strayed) /\ Deleted(z, s)
    BY <2>1, DelGood
  <2> HIDE DEF z
  <2>3. Refs(z, held, p_uft, stack)
    BY <2>1, <2>2, DelRefs
  <2>4. Good(Now', strayed') /\ Apart' /\ Now' = z
    BY <2>1, <2>2, CommitClosed
  <2> QED
    BY <1>1, <1>3, <2>1, <2>3, <2>4 DEF Inv
<1>5. CASE ~(FileAt(name) # {} /\ Refused(s))
  <2> DEFINE x == NewEntry(Replaced(name, s), name, s)
             h == FreeHandle(x)
  <2>1. clock' = clock + 1 /\ clock' \in 0 .. MaxClock /\ clock + 1 \in Ids
    BY <1>1, <1>2, <1>3, <1>5, OpenFilesAssumption DEF Ids
  <2>2. /\ Good(x, strayed) /\ Sound(x) /\ Refs(x, held, p_uft, stack)
        /\ s \in Slots /\ x.dir[s] # None /\ x.dir[s].id = clock + 1
    BY <1>1, <1>5, NewEntryGood
  <2>3. CASE FreeHandles(x) = {}
    <3>1. Commit(x) /\ UNCHANGED held
      BY <1>2, <1>5, <2>3
    <3> HIDE DEF x
    <3>2. Good(Now', strayed') /\ Apart' /\ Now' = x
      BY <2>2, <3>1, CommitClosed
    <3> QED
      BY <1>1, <2>1, <2>2, <3>1, <3>2 DEF Inv
  <2>4. CASE FreeHandles(x) # {}
    <3>1. PICK o \in Ofds : x.ofd[o] = None /\ Commit(Opened(x, s, o))
      BY <1>2, <1>5, <2>4
    <3>2. held' = [held EXCEPT ![run][h] = clock + 1]
      BY <1>2, <1>5, <2>4 DEF Hold
    <3> HIDE DEF x
    <3>3. h \in Handles /\ h \in Keys /\ x.sft[h].f_own = None
      BY <2>4, FreeHandleFacts
    <3> DEFINE z == opnfil(x, s, h, o)
               y == Opened(x, s, o)
               U == strayed \cup {s}
               T == strayed \cup {t \in Slots : Strays(y, t) # {}}
    <3>4. y = Dirtied(z, o)
      BY DEF Opened, Dirtied
    (* The strays at s are still there. *)
    <3>5. OpenedBy(x, z, s, h, o) /\ Good(z, U)
      <4>1. strayed \subseteq U /\ s \in U
        OBVIOUS
      <4>2. z = opnfil(x, s, h, o)
        OBVIOUS
      <4> HIDE DEF z, U, h
      <4> QED
        BY <1>3, <2>2, <3>1, <3>3, <4>1, <4>2, OpnfilGood
    <3>6. PICK d : Shares(x, s, o, d) /\ OpenedAs(x, z, s, h, o, d)
      BY <3>5 DEF OpenedBy
    <3> HIDE DEF z, h
    <3>7. Used(z) = Used(x) \cup {o} /\ o \notin Used(x)
      <4>1. Used(z) = Used(x) \cup {o}
        BY <1>3, <2>2, <3>1, <3>3, <3>6, OpenedParts
      <4> QED
        BY <2>2, <3>1, <4>1 DEF Sound
    <3>8. /\ Good(y, U) /\ Sound(y) /\ y.sft = z.sft /\ y.d_files = z.d_files
          /\ \A q \in Used(z) : y.ofd[q].id = z.ofd[q].id
          /\ \A t \in Slots : UsedAt(y, t) = UsedAt(z, t)
      <4>1. o \in Used(z)
        BY <3>7
      <4> HIDE DEF y, U
      <4> QED
        BY <3>4, <3>5, <4>1, DirtyGood
    <3>9. ASSUME NEW q \in Strays(x, s)
          PROVE  q \in Strays(y, s)
      <4>1. q \in Ofds /\ q \in Used(x) /\ x.ofd[q] # None /\ x.ofd[q].o_dirbyt = s
            /\ q \notin Range(x.d_files)
        BY DEF Strays, UsedAt, Used
      <4>2. q # o /\ q \in Used(z)
        BY <3>7, <4>1
      <4>3. z.ofd[q] # None /\ z.ofd[q].o_dirbyt = s
        BY <3>6, <4>1, <4>2 DEF OpenedAs
      <4>4. q \in UsedAt(z, s)
        BY <4>1, <4>2, <4>3 DEF UsedAt, Used
      <4>5. ListedToo(x, z, o)
        BY <2>2, <3>1, <3>6, OpenedList
      <4>6. q \notin Range(y.d_files)
        BY <3>8, <4>1, <4>2, <4>5 DEF ListedToo
      <4> QED
        BY <2>2, <3>8, <4>4, <4>6 DEF Strays
    <3>10. Good(y, T)
      <4> HIDE DEF y
      <4>1. CASE Strays(x, s) # {}
        <5>1. s \in T
          BY <2>2, <3>9, <4>1
        <5>2. U \subseteq T
          BY <5>1
        <5> HIDE DEF U, T
        <5> QED
          BY <3>8, <5>2, MoreStrays
      <4>2. CASE Strays(x, s) = {}
        <5> DEFINE S == strayed
        <5>1. Good(z, S)
          <6>1. S \subseteq S /\ (Strays(x, s) # {} => s \in S) /\ Good(x, S)
            BY <2>2, <4>2
          <6>2. z = opnfil(x, s, h, o)
            BY DEF z
          <6> HIDE DEF S
          <6> QED
            BY <1>3, <2>2, <3>1, <3>3, <6>1, <6>2, OpnfilGood
        <5>2. Good(y, S)
          <6>1. o \in Used(z)
            BY <3>7
          <6> HIDE DEF S
          <6> QED
            BY <3>4, <5>1, <6>1, DirtyGood DEF y
        <5>3. S \subseteq T
          OBVIOUS
        <5> HIDE DEF S, T
        <5> QED
          BY <5>2, <5>3, MoreStrays
      <4> QED
        BY <4>1, <4>2
    <3>11. Good(Now', strayed') /\ Apart' /\ Now' = y
      <4> HIDE DEF y
      <4> QED
        BY <3>1, <3>10, CommitGood DEF y
    <3>12. KeyHeld(held, held', run, h, clock + 1)
      BY <1>3, <2>1, <3>2, <3>3, HeldWith
    <3>13. Refs(z, held', p_uft, stack) /\ Sound(z)
      <4> DEFINE hd == held
                 he == held'
                 pu == p_uft
                 st == stack
                 id == clock + 1
      <4>1. /\ Sound(z) /\ Refs(x, hd, pu, st) /\ run \in Range(st)
            /\ KeyHeld(hd, he, run, h, id) /\ id = x.dir[s].id
        BY <1>3, <2>2, <3>5, <3>12 DEF Good
      <4>2. id # None
        BY <2>1, Distinct DEF Ids
      <4> HIDE DEF hd, he, pu, st, id
      <4>3. Refs(z, he, pu, st)
        BY <2>2, <3>1, <3>3, <3>5, <4>1, <4>2, OpenRefs
      <4> QED
        BY <4>1, <4>3 DEF he, pu, st
    <3>14. Refs(y, held', p_uft, stack)
      <4> DEFINE he == held'
                 pu == p_uft
                 st == stack
      <4>1. Refs(z, he, pu, st) /\ Sound(z) /\ Sound(y) /\ y.sft = z.sft
        BY <3>8, <3>13
      <4> HIDE DEF he, pu, st, y
      <4>2. Refs(y, he, pu, st)
        BY <3>8, <4>1, RefsKept
      <4> QED
        BY <4>2 DEF he, pu, st
    <3> QED
      BY <1>1, <2>1, <3>11, <3>14 DEF Inv
  <2> QED
    BY <2>3, <2>4
<1> QED
  BY <1>4, <1>5

-----------------------------------------------------------------------------
(* The invariant, from the start. *)
LEMMA InitInv == Init => Inv
<1> SUFFICES ASSUME Init PROVE Inv
  OBVIOUS
<1> DEFINE x == Now
<1>1. /\ x.sft = [h \in Handles |-> NoEntry] /\ x.ofd = [o \in Ofds |-> None]
      /\ x.d_files = <<>> /\ x.dir = [s \in Slots |-> None]
      /\ strayed = {} /\ clock = 0
      /\ p_uft = [p \in PDs |-> [i \in Std |-> CON]] /\ stack = <<Shell>>
      /\ held = [p \in PDs |-> Unheld]
  BY NowIs DEF Init
<1>2. x \in Tables
  <2>1. x = [sft |-> x.sft, ofd |-> x.ofd, d_files |-> x.d_files, dir |-> x.dir]
    BY DEF Now
  <2>2. /\ x.sft \in [Handles -> Entries] /\ x.ofd \in [Ofds -> OFD \cup {None}]
        /\ x.d_files \in Seq(Ofds) /\ x.dir \in [Slots -> FCB \cup {None}]
    BY <1>1, NoEntryFacts
  <2> HIDE DEF x
  <2> QED
    BY <2>1, <2>2 DEF Tables
<1> HIDE DEF x
<1>3. Used(x) = {} /\ Range(x.d_files) = {} /\ \A s \in Slots : Strays(x, s) = {}
  <2>1. ASSUME NEW o \in Ofds PROVE ~sftofdsrch(x, o)
    BY <1>1, NoEntryFacts, Distinct DEF sftofdsrch
  <2>2. Used(x) = {}
    BY <2>1 DEF Used
  <2>3. \A s \in Slots : Strays(x, s) = {}
    BY <2>1 DEF Strays, UsedAt
  <2>4. Range(x.d_files) = {}
    BY <1>1 DEF Range
  <2> QED
    BY <2>2, <2>3, <2>4
<1>4. Sound(x)
  BY <1>1, <1>2, <1>3, NoEntryFacts DEF Sound
<1>5. Listed(x) /\ Follows(x, strayed)
  <2>1. IsInjective(x.d_files)
    BY <1>1 DEF IsInjective
  <2> QED
    BY <1>3, <2>1 DEF Listed, Follows
<1>6. Good(Now, strayed) /\ Apart
  BY <1>3, <1>4, <1>5 DEF Good, Apart, x
<1>7. Stacked(stack) /\ Range(stack) \subseteq PDs
  <2>1. Stacked(stack)
    BY <1>1, OpenFilesAssumption DEF Stacked
  <2> QED
    BY <2>1, StackFacts
<1>8. held \in Held /\ p_uft \in Mappings
  <2>1. Unheld \in [Keys -> Ids \cup {0, None}]
    BY DEF Unheld, Keys
  <2> QED
    BY <1>1, <2>1 DEF Held, Mappings
<1>9. \A p \in PDs, k \in Keys : /\ k \in Std => held[p][k] = 0 /\ At(p_uft, p, k) = CON
                                 /\ k \notin Std => held[p][k] = None
  BY <1>1 DEF Unheld, At, Keys
<1>10. \A p \in Range(stack), k \in Std : held[p][k] # None
  BY <1>7, <1>9, Distinct DEF Keys
<1>11. \A p \in Range(stack), k \in Keys : held[p][k] # None => PointerOK(x, held, p_uft, stack, p, k)
  BY <1>7, <1>9 DEF PointerOK
<1>12. ASSUME NEW h \in Handles
       PROVE  x.sft[h].f_use >= Cardinality(Points(held, p_uft, Range(stack), h))
  <2>1. Points(held, p_uft, Range(stack), h) = {}
    <3>1. ASSUME NEW p \in Range(stack), NEW k \in Keys, held[p][k] # None
          PROVE  At(p_uft, p, k) # h
      BY <1>7, <1>9, <3>1, Distinct
    <3> QED
      BY <3>1 DEF Points
  <2>2. x.sft[h].f_use = 0
    BY <1>1 DEF NoEntry
  <2> QED
    BY <2>1, <2>2, FS_EmptySet
<1>13. Refs(Now, held, p_uft, stack)
  BY <1>7, <1>8, <1>10, <1>11, <1>12 DEF Refs, x
<1>14. clock \in 0 .. MaxClock
  BY <1>1, OpenFilesAssumption
<1> QED
  BY <1>6, <1>13, <1>14 DEF Inv

LEMMA NextInv == Inv /\ [Next]_vars => Inv'
<1> SUFFICES ASSUME Inv, [Next]_vars PROVE Inv'
  OBVIOUS
<1>1. CASE \E name \in Names : ixopen(name) \/ ixcreat(name) \/ xunlink(name)
  BY <1>1, OpenInv, CreateInv, UnlinkInv
<1>2. CASE \E name, new \in Names : xrename(name, new)
  BY <1>2, RenameInv
<1>3. CASE \E h \in Std \cup Handles : xwrite(h)
  BY <1>3, WriteInv
<1>4. CASE \E h \in Handles : CloseHandle(h)
  BY <1>4, CloseHandleInv
<1>5. CASE \E i \in Std : CloseStd(i) \/ xdup(i)
  BY <1>5, CloseStdInv, DupInv
<1>6. CASE \E i \in Std, h \in Handles \cup {CON} : xforce(i, h)
  BY <1>6, ForceInv
<1>7. CASE \E p \in PDs : Pexec(p)
  BY <1>7, PexecInv
<1>8. CASE Pterm
  BY <1>8, PtermInv
<1>9. CASE UNCHANGED vars
  <2>1. UNCHANGED <<sft, ofd, d_files, dir, p_uft, stack, held, strayed, clock>>
    BY <1>9 DEF vars
  <2>2. Now' = Now
    BY <2>1 DEF Now
  <2> QED
    BY <2>1, <2>2 DEF Inv, Apart
<1> QED
  BY <1>1, <1>2, <1>3, <1>4, <1>5, <1>6, <1>7, <1>8, <1>9 DEF Next

LEMMA InvHolds == Spec => []Inv
<1>1. Init => Inv
  BY InitInv
<1>2. Inv /\ [Next]_vars => Inv'
  BY NextInv
<1> QED
  BY <1>1, <1>2, PTL DEF Spec

(* The tables of GEMDOS stay in their ranges, whatever is opened, shared,  *)
(* deleted and ended (fsopnclo.c, fshand.c, proc.c): an entry of the sft   *)
(* has an owner exactly while it has uses.                                 *)
THEOREM HandleTypes == Spec => []TypeOK
<1>1. Spec => []Inv
  BY InvHolds
<1>2. Inv => TypeOK
  BY InvTypes
<1> QED
  BY <1>1, <1>2, PTL

(* What a running program has open, and what its standard handles are      *)
(* mapped to, is the file that it was, though other programs close,        *)
(* delete, redirect and end (xclose(), sftdel(), ixforce(), ixterm()); a   *)
(* DFD counts the OFDs that use it.                                        *)
THEOREM HandlesKept == Spec => []HandlesLive
<1>1. Spec => []Inv
  BY InvHolds
<1>2. Inv => HandlesLive
  BY InvLive
<1> QED
  BY <1>1, <1>2, PTL

(* The directory entry of a listed file is as its DFD says or will be      *)
(* saved by a close, unless an OFD of the file has strayed from the list   *)
(* (ixclose(), makopn()).                                                  *)
THEOREM EntriesFollow == Spec => []EntryFollowsDfd
<1>1. Spec => []Inv
  BY InvHolds
<1>2. Inv => EntryFollowsDfd
  BY InvFollows
<1> QED
  BY <1>1, <1>2, PTL

=============================================================================
