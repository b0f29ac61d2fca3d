------------------------- MODULE WindowRects_proofs -------------------------
(***************************************************************************)
(* Rects: the pieces that brkrct() leaves of a rectangle are what is left  *)
(* of it, and do not overlap.                                              *)
(*                                                                         *)
(* WindowRects: newrect(), laid over the lists of all windows below, from  *)
(* the desktop up, leaves each window exactly what no window above it      *)
(* covers, whatever rectangles the lists had before; and what it takes off *)
(* the lists and puts there leaves the number of rectangles as it was.     *)
(* What draw_change() draws, or asks for, when one window changes is all   *)
(* that shows anything else than before: the owner of a pixel changes only *)
(* where the window was or is, and the plan covers both.                   *)
(***************************************************************************)
EXTENDS WindowRects, SequenceTheorems, FiniteSetTheorems, TLAPS

(***************************************************************************)
(* Rectangles and pieces.                                                  *)
(***************************************************************************)
Sized == {r \in GRECT : r.w > 0 /\ r.h > 0}
Points == Int \X Int

LEMMA Extremes ==
  ASSUME NEW a \in Int, NEW b \in Int
  PROVE  /\ Larger(a, b) \in Int /\ Larger(a, b) >= a /\ Larger(a, b) >= b
         /\ Larger(a, b) = a \/ Larger(a, b) = b
         /\ Smaller(a, b) \in Int /\ Smaller(a, b) <= a /\ Smaller(a, b) <= b
         /\ Smaller(a, b) = a \/ Smaller(a, b) = b
  BY DEF Larger, Smaller

LEMMA Fields ==
  ASSUME NEW r \in Sized
  PROVE  /\ r.x \in Int /\ r.y \in Int /\ r.w \in Int /\ r.h \in Int
         /\ r.w > 0 /\ r.h > 0
  BY DEF Sized, GRECT

\* The rows that old and new have in common.
Top(new, r) == Larger(r.y, new.y)
Bottom(new, r) == Smaller(r.y + r.h, new.y + new.h)

LEMMA Rows ==
  ASSUME NEW new \in Sized, NEW r \in Sized, Overlap(new, r)
  PROVE  /\ Top(new, r) \in Int /\ Top(new, r) >= r.y /\ Top(new, r) >= new.y
         /\ Top(new, r) = r.y \/ Top(new, r) = new.y
         /\ Bottom(new, r) \in Int
         /\ Bottom(new, r) <= r.y + r.h /\ Bottom(new, r) <= new.y + new.h
         /\ Bottom(new, r) = r.y + r.h \/ Bottom(new, r) = new.y + new.h
         /\ Top(new, r) < Bottom(new, r)
<1>1. /\ new.y \in Int /\ new.h \in Int /\ new.h > 0
      /\ r.y \in Int /\ r.h \in Int /\ r.h > 0
  BY Fields
<1>2. new.y < r.y + r.h /\ new.y + new.h > r.y
  BY DEF Overlap
<1>3. r.y + r.h \in Int /\ new.y + new.h \in Int
  BY <1>1
<1>4. /\ Top(new, r) \in Int /\ Top(new, r) >= r.y /\ Top(new, r) >= new.y
      /\ Top(new, r) = r.y \/ Top(new, r) = new.y
  BY <1>1, Extremes DEF Top
<1>5. /\ Bottom(new, r) \in Int
      /\ Bottom(new, r) <= r.y + r.h /\ Bottom(new, r) <= new.y + new.h
      /\ Bottom(new, r) = r.y + r.h \/ Bottom(new, r) = new.y + new.h
  BY <1>3, Extremes DEF Bottom
<1>6. QED
  BY <1>1, <1>2, <1>4, <1>5

\* The pieces, written out.
LEMMA PieceFields ==
  ASSUME NEW new \in Sized, NEW r \in Sized
  PROVE  /\ mkpiece("TOP", new, r)
              = Rect(r.x, r.y, r.w, new.y - r.y)
         /\ mkpiece("BOTTOM", new, r)
              = Rect(r.x, new.y + new.h, r.w, r.y + r.h - (new.y + new.h))
         /\ mkpiece("LEFT", new, r)
              = Rect(r.x, Top(new, r), new.x - r.x, Bottom(new, r) - Top(new, r))
         /\ mkpiece("RIGHT", new, r)
              = Rect(new.x + new.w, Top(new, r), r.x + r.w - (new.x + new.w),
                       Bottom(new, r) - Top(new, r))
  BY DEF Sized, GRECT, Rect, mkpiece, Top, Bottom

LEMMA HavePiece ==
  ASSUME NEW new, NEW r
  PROVE  /\ have_piece("TOP", new, r) <=> new.y > r.y
         /\ have_piece("LEFT", new, r) <=> new.x > r.x
         /\ have_piece("RIGHT", new, r) <=> new.x + new.w < r.x + r.w
         /\ have_piece("BOTTOM", new, r) <=> new.y + new.h < r.y + r.h
  BY DEF have_piece

LEMMA InRect ==
  ASSUME NEW x \in Int, NEW y \in Int, NEW w \in Int, NEW h \in Int, NEW p
  PROVE  inside(p, Rect(x, y, w, h))
           <=> /\ p[1] >= x /\ p[1] < x + w
               /\ p[2] >= y /\ p[2] < y + h
  BY DEF inside, Rect

\* Which pixels are in the piece on each side.
LEMMA InPiece ==
  ASSUME NEW new \in Sized, NEW r \in Sized, Overlap(new, r), NEW p \in Points
  PROVE  /\ inside(p, mkpiece("TOP", new, r))
              <=> /\ p[1] >= r.x /\ p[1] < r.x + r.w
                  /\ p[2] >= r.y /\ p[2] < new.y
         /\ inside(p, mkpiece("BOTTOM", new, r))
              <=> /\ p[1] >= r.x /\ p[1] < r.x + r.w
                  /\ p[2] >= new.y + new.h /\ p[2] < r.y + r.h
         /\ inside(p, mkpiece("LEFT", new, r))
              <=> /\ p[1] >= r.x /\ p[1] < new.x
                  /\ p[2] >= Top(new, r) /\ p[2] < Bottom(new, r)
         /\ inside(p, mkpiece("RIGHT", new, r))
              <=> /\ p[1] >= new.x + new.w /\ p[1] < r.x + r.w
                  /\ p[2] >= Top(new, r) /\ p[2] < Bottom(new, r)
<1>1. /\ new.x \in Int /\ new.y \in Int /\ new.w \in Int /\ new.h \in Int
      /\ r.x \in Int /\ r.y \in Int /\ r.w \in Int /\ r.h \in Int
      /\ p[1] \in Int /\ p[2] \in Int
      /\ Top(new, r) \in Int /\ Bottom(new, r) \in Int
  BY Fields, Rows DEF Points
<1>2. inside(p, mkpiece("TOP", new, r))
        <=> /\ p[1] >= r.x /\ p[1] < r.x + r.w
            /\ p[2] >= r.y /\ p[2] < r.y + (new.y - r.y)
  BY <1>1, PieceFields, InRect
<1>3. inside(p, mkpiece("BOTTOM", new, r))
        <=> /\ p[1] >= r.x /\ p[1] < r.x + r.w
            /\ p[2] >= new.y + new.h
            /\ p[2] < new.y + new.h + (r.y + r.h - (new.y + new.h))
  BY <1>1, PieceFields, InRect
<1>4. inside(p, mkpiece("LEFT", new, r))
        <=> /\ p[1] >= r.x /\ p[1] < r.x + (new.x - r.x)
            /\ p[2] >= Top(new, r)
            /\ p[2] < Top(new, r) + (Bottom(new, r) - Top(new, r))
  BY <1>1, PieceFields, InRect
<1>5. inside(p, mkpiece("RIGHT", new, r))
        <=> /\ p[1] >= new.x + new.w
            /\ p[1] < new.x + new.w + (r.x + r.w - (new.x + new.w))
            /\ p[2] >= Top(new, r)
            /\ p[2] < Top(new, r) + (Bottom(new, r) - Top(new, r))
  BY <1>1, PieceFields, InRect
<1>6. QED
  BY <1>1, <1>2, <1>3, <1>4, <1>5

LEMMA Numbers ==
  ASSUME NEW new \in Sized, NEW r \in Sized, NEW p \in Points
  PROVE  /\ new.x \in Int /\ new.y \in Int /\ new.w \in Int /\ new.h \in Int
         /\ new.w > 0 /\ new.h > 0
         /\ r.x \in Int /\ r.y \in Int /\ r.w \in Int /\ r.h \in Int
         /\ r.w > 0 /\ r.h > 0
         /\ p[1] \in Int /\ p[2] \in Int
  BY Fields DEF Points

\* The pieces are rectangles with a size: none of the ORECTs that mkpiece()
\* takes from the pool is empty.
THEOREM PiecesSized ==
  ASSUME NEW new \in Sized, NEW r \in Sized, Overlap(new, r),
         NEW side \in Sides, have_piece(side, new, r)
  PROVE  mkpiece(side, new, r) \in Sized
<1>1. ASSUME NEW x \in Int, NEW y \in Int, NEW w \in Int, NEW h \in Int, w > 0, h > 0
      PROVE  Rect(x, y, w, h) \in Sized
  BY <1>1 DEF Rect, Sized, GRECT
<1>2. /\ new.x \in Int /\ new.y \in Int /\ new.w \in Int /\ new.h \in Int
      /\ r.x \in Int /\ r.y \in Int /\ r.w \in Int /\ r.h \in Int
      /\ r.w > 0 /\ r.h > 0
      /\ Top(new, r) \in Int /\ Bottom(new, r) \in Int
      /\ Top(new, r) < Bottom(new, r)
  BY Fields, Rows
<1>3. CASE side = "TOP"
  <2>1. new.y - r.y \in Int /\ new.y - r.y > 0
    BY <1>2, <1>3, HavePiece
  <2>2. Rect(r.x, r.y, r.w, new.y - r.y) \in Sized
    BY <1>1, <1>2, <2>1
  <2>3. QED
    BY <1>3, <2>2, PieceFields
<1>4. CASE side = "BOTTOM"
  <2>1. /\ new.y + new.h \in Int /\ r.y + r.h - (new.y + new.h) \in Int
        /\ r.y + r.h - (new.y + new.h) > 0
    BY <1>2, <1>4, HavePiece
  <2>2. Rect(r.x, new.y + new.h, r.w, r.y + r.h - (new.y + new.h)) \in Sized
    BY <1>1, <1>2, <2>1
  <2>3. QED
    BY <1>4, <2>2, PieceFields
<1>5. CASE side = "LEFT"
  <2>1. /\ new.x - r.x \in Int /\ new.x - r.x > 0
        /\ Bottom(new, r) - Top(new, r) \in Int /\ Bottom(new, r) - Top(new, r) > 0
    BY <1>2, <1>5, HavePiece
  <2>2. Rect(r.x, Top(new, r), new.x - r.x, Bottom(new, r) - Top(new, r)) \in Sized
    BY <1>1, <1>2, <2>1
  <2>3. QED
    BY <1>5, <2>2, PieceFields
<1>6. CASE side = "RIGHT"
  <2>1. /\ new.x + new.w \in Int /\ r.x + r.w - (new.x + new.w) \in Int
        /\ r.x + r.w - (new.x + new.w) > 0
        /\ Bottom(new, r) - Top(new, r) \in Int /\ Bottom(new, r) - Top(new, r) > 0
    BY <1>2, <1>6, HavePiece
  <2>2. QED
    BY <1>1, <1>2, <1>6, <2>1, PieceFields
<1>7. QED
  BY <1>3, <1>4, <1>5, <1>6 DEF Sides

\* No pixel is in two pieces: no two ORECTs of a list overlap.
THEOREM PiecesDisjoint ==
  ASSUME NEW new \in Sized, NEW r \in Sized, Overlap(new, r), NEW p \in Points,
         NEW one \in Sides, NEW other \in Sides, one # other,
         inside(p, mkpiece(one, new, r))
  PROVE  ~inside(p, mkpiece(other, new, r))
<1>1. CASE one = "TOP"
  BY <1>1, Numbers, Rows, InPiece DEF Sides
<1>2. CASE one = "BOTTOM"
  BY <1>2, Numbers, Rows, InPiece DEF Sides
<1>3. CASE one = "LEFT"
  BY <1>3, Numbers, Rows, InPiece DEF Sides
<1>4. CASE one = "RIGHT"
  BY <1>4, Numbers, Rows, InPiece DEF Sides
<1>5. QED
  BY <1>1, <1>2, <1>3, <1>4 DEF Sides

\* The pieces are exactly what the new rectangle leaves of the old one: of
\* a window, what the windows above it do not cover.
THEOREM PiecesExact ==
  ASSUME NEW new \in Sized, NEW r \in Sized, Overlap(new, r), NEW p \in Points
  PROVE  (\E side \in Sides : have_piece(side, new, r) /\ inside(p, mkpiece(side, new, r)))
           <=> inside(p, r) /\ ~inside(p, new)
<1>1. ASSUME NEW side \in Sides, have_piece(side, new, r),
             inside(p, mkpiece(side, new, r))
      PROVE  inside(p, r) /\ ~inside(p, new)
  <2>1. CASE side = "TOP"
    <3>1. /\ new.y > r.y
          /\ p[1] >= r.x /\ p[1] < r.x + r.w /\ p[2] >= r.y /\ p[2] < new.y
      BY <1>1, <2>1, InPiece, HavePiece
    <3>2. p[2] < r.y + r.h
      BY <3>1, Numbers DEF Overlap
    <3>3. QED
      BY <3>1, <3>2, Numbers DEF inside
  <2>2. CASE side = "BOTTOM"
    <3>1. /\ p[1] >= r.x /\ p[1] < r.x + r.w
          /\ p[2] >= new.y + new.h /\ p[2] < r.y + r.h
      BY <1>1, <2>2, InPiece
    <3>2. p[2] >= r.y
      BY <3>1, Numbers DEF Overlap
    <3>3. QED
      BY <3>1, <3>2, Numbers DEF inside
  <2>3. CASE side = "LEFT"
    BY <1>1, <2>3, Numbers, Rows, InPiece, HavePiece DEF inside, Overlap
  <2>4. CASE side = "RIGHT"
    BY <1>1, <2>4, Numbers, Rows, InPiece, HavePiece DEF inside, Overlap
  <2>5. QED
    BY <2>1, <2>2, <2>3, <2>4 DEF Sides
<1>2. ASSUME inside(p, r), ~inside(p, new)
      PROVE  \E side \in Sides : have_piece(side, new, r) /\ inside(p, mkpiece(side, new, r))
  <2>1. CASE p[2] < new.y
    <3>1. have_piece("TOP", new, r) /\ inside(p, mkpiece("TOP", new, r))
      BY <1>2, <2>1, Numbers, InPiece, HavePiece DEF inside
    <3>2. QED
      BY <3>1 DEF Sides
  <2>2. CASE p[2] >= new.y + new.h
    <3>1. have_piece("BOTTOM", new, r) /\ inside(p, mkpiece("BOTTOM", new, r))
      BY <1>2, <2>2, Numbers, InPiece, HavePiece DEF inside
    <3>2. QED
      BY <3>1 DEF Sides
  <2>3. CASE p[2] >= new.y /\ p[2] < new.y + new.h /\ p[1] < new.x
    <3>1. have_piece("LEFT", new, r) /\ inside(p, mkpiece("LEFT", new, r))
      BY <1>2, <2>3, Numbers, Rows, InPiece, HavePiece DEF inside
    <3>2. QED
      BY <3>1 DEF Sides
  <2>4. CASE p[2] >= new.y /\ p[2] < new.y + new.h /\ p[1] >= new.x + new.w
    <3>1. have_piece("RIGHT", new, r) /\ inside(p, mkpiece("RIGHT", new, r))
      BY <1>2, <2>4, Numbers, Rows, InPiece, HavePiece DEF inside
    <3>2. QED
      BY <3>1 DEF Sides
  <2>5. QED
    BY <1>2, <2>1, <2>2, <2>3, <2>4, Numbers DEF inside
<1>3. QED
  BY <1>1, <1>2

(***************************************************************************)
(* Folds. FoldLeft() chooses a function g of the sets of indices; there is *)
(* one, and g[1 .. i] is what the first i steps make of the base. The kind *)
(* k says which of the folds it is.                                        *)
(***************************************************************************)
LEMMA MinFacts ==
  ASSUME NEW I \in SUBSET Nat, I # {}
  PROVE  \E i \in I : \A j \in I : i <= j
<1>1. PICK i \in I : \A j \in I : ~(<<j, i>> \in OpToRel(<, Nat))
  BY NatLessThanWellFounded, WFMin, Zenon
<1>2. ASSUME NEW j \in I
      PROVE  i <= j
  <2> SUFFICES ASSUME j < i
               PROVE  FALSE
    OBVIOUS
  <2>1. <<j, i>> \in OpToRel(<, Nat)
    BY Zenon DEF OpToRel
  <2> QED
    BY <2>1, <1>1
<1> QED
  BY <1>2

LEMMA UpTo ==
  ASSUME NEW n \in Nat, NEW i \in 1 .. n
  PROVE  /\ i \in Nat /\ 1 .. i \in SUBSET (1 .. n) /\ 1 .. i \in SUBSET (1 .. i)
         /\ 1 .. i # {} /\ i \in 1 .. i /\ (1 .. i) \ {i} = 1 .. i - 1
<1>1. i \in 1 .. i
  OBVIOUS
<1> QED
  BY <1>1

LEMMA MaxFacts ==
  ASSUME NEW n \in Nat, NEW u \in SUBSET (1 .. n), u # {}
  PROVE  Max(u) \in u /\ \A j \in u : j <= Max(u)
<1> DEFINE I == {n - j : j \in u}
<1>1. I \in SUBSET Nat /\ I # {}
  OBVIOUS
<1> HIDE DEF I
<1>2. PICK i \in I : \A j \in I : i <= j
  BY <1>1, MinFacts
<1>3. PICK m \in u : i = n - m
  BY DEF I
<1>4. ASSUME NEW j \in u
      PROVE  j <= m
  <2>1. n - j \in I
    BY DEF I
  <2>2. n - m <= n - j
    BY <2>1, <1>2, <1>3
  <2> QED
    BY <2>2
<1> QED
  BY <1>4 DEF Max

Step(k, x, y) ==
  IF k.kind = "cut" THEN Break(k.new, x, y)
  ELSE IF k.kind = "lay" THEN mkrect(k.new, x, y)
  ELSE IF k.kind = "union" THEN rc_union(x, y)
  ELSE newrect(k.ord, k.size, x, y)

RunStep(k, base, seq, g, u) ==
  IF u = {} THEN base ELSE Step(k, g[u \ {Max(u)}], seq[Max(u)])

Ran(k, base, seq, D, g) == g = [u \in D |-> RunStep(k, base, seq, g, u)]

Runs(k, base, seq, r) ==
  \E g : Ran(k, base, seq, SUBSET (1 .. Len(seq)), g) /\ r = g[1 .. Len(seq)]

LEMMA RunExists ==
  ASSUME NEW k, NEW base, NEW seq, NEW n \in Nat
  PROVE  \E g : Ran(k, base, seq, SUBSET (1 .. n), g)
<1> DEFINE Bad == {m \in Nat : ~ \E g : Ran(k, base, seq, SUBSET (1 .. m), g)}
<1> SUFFICES ASSUME n \in Bad
             PROVE  FALSE
  OBVIOUS
<1>1. PICK m \in Bad : \A j \in Bad : m <= j
  <2>1. Bad \in SUBSET Nat /\ Bad # {}
    OBVIOUS
  <2> HIDE DEF Bad
  <2> QED
    BY <2>1, MinFacts
<1>2. m \in Nat /\ ~ \E g : Ran(k, base, seq, SUBSET (1 .. m), g)
  OBVIOUS
<1>3. CASE m = 0
  <2> DEFINE g == [u \in SUBSET (1 .. 0) |-> base]
  <2>1. \A u \in SUBSET (1 .. 0) : u = {}
    OBVIOUS
  <2>2. \A u \in SUBSET (1 .. 0) : RunStep(k, base, seq, g, u) = base
    BY <2>1 DEF RunStep
  <2>3. g = [u \in SUBSET (1 .. 0) |-> RunStep(k, base, seq, g, u)]
    BY <2>2
  <2> HIDE DEF g
  <2>4. Ran(k, base, seq, SUBSET (1 .. 0), g)
    BY <2>3 DEF Ran
  <2> QED
    BY <2>4, <1>2, <1>3
<1>4. CASE m # 0
  <2>1. m - 1 \in Nat /\ m - 1 < m
    BY <1>2, <1>4
  <2>2. m - 1 \notin Bad
    <3> HIDE DEF Bad
    <3>1. m - 1 \in Bad => m <= m - 1
      BY <1>1
    <3> QED
      BY <3>1, <2>1, <1>2
  <2>3. PICK g : Ran(k, base, seq, SUBSET (1 .. m - 1), g)
    BY <2>1, <2>2
  <2> HIDE DEF Bad
  <2> DEFINE D == SUBSET (1 .. m)
             E == SUBSET (1 .. m - 1)
             h == [u \in D |-> RunStep(k, base, seq, g, u)]
  <2>4. ASSUME NEW u \in D
        PROVE  RunStep(k, base, seq, h, u) = RunStep(k, base, seq, g, u)
    <3>1. CASE u = {}
      BY <3>1 DEF RunStep
    <3>2. CASE u # {}
      <4> DEFINE v == u \ {Max(u)}
      <4>1. Max(u) \in u /\ \A j \in u : j <= Max(u)
        BY <3>2, <1>2, MaxFacts
      <4>2. v \in E /\ v \in D
        <5>1. \A j \in v : j \in 1 .. m - 1
          <6> TAKE j \in v
          <6>1. j \in u /\ j # Max(u) /\ j \in 1 .. m /\ Max(u) \in 1 .. m
            BY <4>1
          <6>2. j <= Max(u)
            BY <4>1
          <6> QED
            BY <6>1, <6>2, <1>2
        <5> QED
          BY <5>1
      <4> HIDE DEF v, D, E
      <4>3. g[v] = RunStep(k, base, seq, g, v)
        <5>1. g = [w \in E |-> RunStep(k, base, seq, g, w)]
          BY <2>3 DEF Ran, E
        <5> QED
          BY <4>2, <5>1
      <4>4. h[v] = RunStep(k, base, seq, g, v)
        BY <4>2
      <4> HIDE DEF h
      <4>5. h[v] = g[v]
        BY <4>3, <4>4
      <4> QED
        BY <4>5, <3>2 DEF RunStep, v
    <3> QED
      BY <3>1, <3>2
  <2> HIDE DEF D
  <2>5. h = [u \in D |-> RunStep(k, base, seq, h, u)]
    BY <2>4, Zenon
  <2> HIDE DEF h
  <2>6. Ran(k, base, seq, SUBSET (1 .. m), h)
    BY <2>5 DEF Ran, D
  <2> QED
    BY <2>6, <1>2
<1> QED
  BY <1>3, <1>4

(* What each step keeps holds in the end; R is a set of pairs: the number  *)
(* of steps, and what they have made.                                      *)
LEMMA RunReach ==
  ASSUME NEW k, NEW base, NEW seq, Len(seq) \in Nat, NEW r, Runs(k, base, seq, r),
         NEW R, <<0, base>> \in R,
         ASSUME NEW i \in 1 .. Len(seq), NEW y, <<i - 1, y>> \in R
         PROVE  <<i, Step(k, y, seq[i])>> \in R
  PROVE  <<Len(seq), r>> \in R
<1> DEFINE n == Len(seq)
<1>1. PICK g : Ran(k, base, seq, SUBSET (1 .. n), g) /\ r = g[1 .. n]
  BY DEF Runs
<1>2. \A u \in SUBSET (1 .. n) : g[u] = RunStep(k, base, seq, g, u)
  <2> HIDE DEF n
  <2>1. g = [u \in SUBSET (1 .. n) |-> RunStep(k, base, seq, g, u)]
    BY <1>1 DEF Ran
  <2> QED
    BY <2>1
<1> DEFINE Bad == {i \in 0 .. n : <<i, g[1 .. i]>> \notin R}
<1> SUFFICES ASSUME n \in Bad
             PROVE  FALSE
  BY <1>1
<1>3. PICK i \in Bad : \A j \in Bad : i <= j
  <2>1. Bad \in SUBSET Nat /\ Bad # {}
    OBVIOUS
  <2> HIDE DEF Bad
  <2> QED
    BY <2>1, MinFacts
<1>4. i \in 0 .. n /\ <<i, g[1 .. i]>> \notin R
  OBVIOUS
<1>5. CASE i = 0
  <2>1. 1 .. i = {} /\ {} \in SUBSET (1 .. n)
    BY <1>5
  <2>2. g[{}] = base
    BY <2>1, <1>2 DEF RunStep
  <2> QED
    BY <2>1, <2>2, <1>4, <1>5
<1>6. CASE i # 0
  <2>1. i \in 1 .. n /\ i - 1 \in 0 .. n /\ i - 1 < i
    BY <1>4, <1>6
  <2>2. i - 1 \notin Bad
    <3> HIDE DEF Bad
    <3>1. i - 1 \in Bad => i <= i - 1
      BY <1>3
    <3> QED
      BY <3>1, <2>1
  <2>3. <<i - 1, g[1 .. i - 1]>> \in R
    BY <2>1, <2>2
  <2> HIDE DEF Bad, n
  <2>4. Max(1 .. i) = i
    <3>1. i \in Nat /\ 1 .. i \in SUBSET (1 .. i) /\ 1 .. i # {} /\ i \in 1 .. i
      BY <2>1, UpTo DEF n
    <3>2. Max(1 .. i) \in 1 .. i /\ \A j \in 1 .. i : j <= Max(1 .. i)
      BY <3>1, MaxFacts
    <3>3. i <= Max(1 .. i)
      BY <3>1, <3>2
    <3> QED
      BY <3>1, <3>2, <3>3
  <2>5. (1 .. i) \ {i} = 1 .. i - 1 /\ 1 .. i # {} /\ 1 .. i \in SUBSET (1 .. n)
    BY <2>1, UpTo DEF n
  <2>6. g[1 .. i] = Step(k, g[1 .. i - 1], seq[i])
    <3>1. g[1 .. i] = RunStep(k, base, seq, g, 1 .. i)
      BY <2>5, <1>2
    <3> QED
      BY <3>1, <2>4, <2>5 DEF RunStep
  <2>7. <<i, Step(k, g[1 .. i - 1], seq[i])>> \in R
    BY <2>1, <2>3 DEF n
  <2> QED
    BY <2>6, <2>7, <1>4
<1> QED
  BY <1>5, <1>6

(***************************************************************************)
(* Lists that tile a set of pixels: each pixel of it is in one rectangle,  *)
(* and no other pixel is in any.                                           *)
(***************************************************************************)
Area(r) == {p \in Points : inside(p, r)}

Tiles(list, A) ==
  /\ list \in Seq(Sized)
  /\ \A p \in Points : (\E i \in 1 .. Len(list) : inside(p, list[i])) <=> p \in A
  /\ \A p \in Points : \A i, j \in 1 .. Len(list) :
       inside(p, list[i]) /\ inside(p, list[j]) => i = j

LEMMA ConcatFacts ==
  ASSUME NEW S, NEW s \in Seq(S), NEW t \in Seq(S)
  PROVE  /\ s \o t \in Seq(S) /\ Len(s \o t) = Len(s) + Len(t)
         /\ Len(s) \in Nat /\ Len(t) \in Nat
         /\ \A i \in 1 .. Len(s) : (s \o t)[i] = s[i]
         /\ \A i \in 1 .. Len(t) : (s \o t)[Len(s) + i] = t[i]
         /\ \A i \in 1 .. Len(s \o t) :
              \/ i \in 1 .. Len(s)
              \/ i - Len(s) \in 1 .. Len(t) /\ (s \o t)[i] = t[i - Len(s)]
OBVIOUS

LEMMA TilesNone == Tiles(<<>>, {})
BY DEF Tiles

LEMMA TilesOne ==
  ASSUME NEW r \in Sized
  PROVE  Tiles(<<r>>, Area(r))
<1>1. <<r>> \in Seq(Sized) /\ Len(<<r>>) = 1 /\ <<r>>[1] = r
  OBVIOUS
<1>2. \A i \in 1 .. 1 : i = 1
  OBVIOUS
<1>3. 1 \in 1 .. 1
  OBVIOUS
<1> HIDE DEF Sized
<1> QED
  BY <1>1, <1>2, <1>3 DEF Tiles, Area

LEMMA TilesConcat ==
  ASSUME NEW s, NEW t, NEW A, NEW B, Tiles(s, A), Tiles(t, B), A \cap B = {}
  PROVE  Tiles(s \o t, A \cup B)
<1> DEFINE m == Len(s)
           n == Len(t)
           u == s \o t
<1>1. s \in Seq(Sized) /\ t \in Seq(Sized)
  BY DEF Tiles
<1>2. /\ u \in Seq(Sized) /\ Len(u) = m + n /\ m \in Nat /\ n \in Nat
      /\ \A i \in 1 .. m : u[i] = s[i]
      /\ \A i \in 1 .. n : u[m + i] = t[i]
      /\ \A i \in 1 .. m + n : \/ i \in 1 .. m
                               \/ i - m \in 1 .. n /\ u[i] = t[i - m]
  BY <1>1, ConcatFacts
<1>3. /\ \A p \in Points : (\E i \in 1 .. m : inside(p, s[i])) <=> p \in A
      /\ \A p \in Points : \A i, j \in 1 .. m :
           inside(p, s[i]) /\ inside(p, s[j]) => i = j
      /\ \A p \in Points : (\E i \in 1 .. n : inside(p, t[i])) <=> p \in B
      /\ \A p \in Points : \A i, j \in 1 .. n :
           inside(p, t[i]) /\ inside(p, t[j]) => i = j
  BY DEF Tiles
<1> HIDE DEF m, n, u
<1>4. /\ \A i \in 1 .. m : i \in 1 .. m + n
      /\ \A i \in 1 .. n : m + i \in 1 .. m + n
  BY <1>2
<1>5. ASSUME NEW p \in Points
      PROVE  (\E i \in 1 .. m + n : inside(p, u[i])) <=> p \in A \cup B
  <2>1. ASSUME NEW i \in 1 .. m + n, inside(p, u[i])
        PROVE  p \in A \cup B
    <3>1. CASE i \in 1 .. m
      <4>1. inside(p, s[i])
        BY <2>1, <3>1, <1>2
      <4> QED
        BY <4>1, <3>1, <1>3
    <3>2. CASE i - m \in 1 .. n /\ u[i] = t[i - m]
      <4>1. inside(p, t[i - m])
        BY <2>1, <3>2
      <4> QED
        BY <4>1, <3>2, <1>3
    <3> QED
      BY <3>1, <3>2, <1>2
  <2>2. ASSUME p \in A
        PROVE  \E i \in 1 .. m + n : inside(p, u[i])
    <3>1. PICK i \in 1 .. m : inside(p, s[i])
      BY <2>2, <1>3
    <3> QED
      BY <3>1, <1>2, <1>4
  <2>3. ASSUME p \in B
        PROVE  \E i \in 1 .. m + n : inside(p, u[i])
    <3>1. PICK i \in 1 .. n : inside(p, t[i])
      BY <2>3, <1>3
    <3>2. inside(p, u[m + i])
      BY <3>1, <1>2
    <3> QED
      BY <3>2, <1>4
  <2> QED
    BY <2>1, <2>2, <2>3
<1>6. ASSUME NEW p \in Points, NEW i \in 1 .. m + n, NEW j \in 1 .. m + n,
             inside(p, u[i]), inside(p, u[j])
      PROVE  i = j
  <2>1. ASSUME NEW h \in 1 .. m + n, inside(p, u[h]), h \in 1 .. m
        PROVE  inside(p, s[h]) /\ p \in A
    BY <2>1, <1>2, <1>3
  <2>2. ASSUME NEW h \in 1 .. m + n, inside(p, u[h]), h \notin 1 .. m
        PROVE  h - m \in 1 .. n /\ inside(p, t[h - m]) /\ p \in B
    <3>1. h - m \in 1 .. n /\ u[h] = t[h - m]
      BY <2>2, <1>2
    <3>2. inside(p, t[h - m])
      BY <2>2, <3>1
    <3> QED
      BY <3>1, <3>2, <1>3
  <2>3. CASE i \in 1 .. m /\ j \in 1 .. m
    BY <2>1, <2>3, <1>3, <1>6
  <2>4. CASE i \notin 1 .. m /\ j \notin 1 .. m
    <3>1. i - m = j - m
      <4>1. /\ i - m \in 1 .. n /\ inside(p, t[i - m])
            /\ j - m \in 1 .. n /\ inside(p, t[j - m])
        BY <2>2, <2>4, <1>6
      <4> QED
        BY <4>1, <1>3
    <3> QED
      BY <3>1, <1>2
  <2>5. i \in 1 .. m => j \in 1 .. m
    BY <2>1, <2>2, <1>6
  <2>6. j \in 1 .. m => i \in 1 .. m
    BY <2>1, <2>2, <1>6
  <2> QED
    BY <2>3, <2>4, <2>5, <2>6
<1> QED
  BY <1>2, <1>5, <1>6 DEF Tiles, u

(* A piece, if there is one, and all four. *)
Piece(side, new, r) ==
  IF have_piece(side, new, r) THEN <<mkpiece(side, new, r)>> ELSE <<>>

PieceArea(side, new, r) ==
  {p \in Points : have_piece(side, new, r) /\ inside(p, mkpiece(side, new, r))}

LEMMA PieceTiles ==
  ASSUME NEW new \in Sized, NEW r \in Sized, Overlap(new, r), NEW side \in Sides
  PROVE  Tiles(Piece(side, new, r), PieceArea(side, new, r))
<1>1. CASE have_piece(side, new, r)
  <2> DEFINE q == mkpiece(side, new, r)
  <2>1. q \in Sized
    BY <1>1, PiecesSized
  <2>2. Piece(side, new, r) = <<q>> /\ PieceArea(side, new, r) = Area(q)
    BY <1>1 DEF Piece, PieceArea, Area
  <2> HIDE DEF q
  <2> QED
    BY <2>1, <2>2, TilesOne
<1>2. CASE ~have_piece(side, new, r)
  <2>1. Piece(side, new, r) = <<>> /\ PieceArea(side, new, r) = {}
    BY <1>2 DEF Piece, PieceArea
  <2> QED
    BY <2>1, TilesNone
<1> QED
  BY <1>1, <1>2

LEMMA PieceAreasApart ==
  ASSUME NEW new \in Sized, NEW r \in Sized, Overlap(new, r),
         NEW one \in Sides, NEW other \in Sides, one # other
  PROVE  PieceArea(one, new, r) \cap PieceArea(other, new, r) = {}
BY PiecesDisjoint DEF PieceArea

LEMMA BrkrctTiles ==
  ASSUME NEW new \in Sized, NEW r \in Sized, Overlap(new, r)
  PROVE  Tiles(brkrct(new, r), Area(r) \ Area(new))
<1> DEFINE a(side) == Piece(side, new, r)
           A(side) == PieceArea(side, new, r)
<1>1. brkrct(new, r) = ((a("TOP") \o a("LEFT")) \o a("RIGHT")) \o a("BOTTOM")
  BY DEF brkrct, Piece
<1>2. {"TOP", "LEFT", "RIGHT", "BOTTOM"} \subseteq Sides
  BY DEF Sides
<1>3. \A side \in Sides : Tiles(a(side), A(side))
  BY PieceTiles
<1>4. \A one, other \in Sides : one # other => A(one) \cap A(other) = {}
  BY PieceAreasApart
<1>5. \A p \in Points : p \in A("TOP") \cup A("LEFT") \cup A("RIGHT") \cup A("BOTTOM")
                          <=> p \in Area(r) \ Area(new)
  <2>1. ASSUME NEW p \in Points
        PROVE  (\E side \in Sides : p \in A(side)) <=> p \in Area(r) \ Area(new)
    BY PiecesExact DEF PieceArea, Area
  <2>2. ASSUME NEW p \in Points
        PROVE  (\E side \in Sides : p \in A(side))
                 <=> p \in A("TOP") \cup A("LEFT") \cup A("RIGHT") \cup A("BOTTOM")
    <3> HIDE DEF A
    <3> QED
      BY DEF Sides
  <2> QED
    BY <2>1, <2>2
<1>6. /\ A("TOP") \cup A("LEFT") \cup A("RIGHT") \cup A("BOTTOM") \subseteq Points
      /\ Area(r) \ Area(new) \subseteq Points
  BY DEF PieceArea, Area
<1> HIDE DEF a, A
<1>7. Tiles(a("TOP") \o a("LEFT"), A("TOP") \cup A("LEFT"))
  BY <1>2, <1>3, <1>4, TilesConcat
<1>8. Tiles((a("TOP") \o a("LEFT")) \o a("RIGHT"), (A("TOP") \cup A("LEFT")) \cup A("RIGHT"))
  <2>1. (A("TOP") \cup A("LEFT")) \cap A("RIGHT") = {}
    BY <1>2, <1>4
  <2> QED
    BY <2>1, <1>2, <1>3, <1>7, TilesConcat
<1>9. Tiles(((a("TOP") \o a("LEFT")) \o a("RIGHT")) \o a("BOTTOM"),
            ((A("TOP") \cup A("LEFT")) \cup A("RIGHT")) \cup A("BOTTOM"))
  <2>1. ((A("TOP") \cup A("LEFT")) \cup A("RIGHT")) \cap A("BOTTOM") = {}
    BY <1>2, <1>4
  <2> QED
    BY <2>1, <1>2, <1>3, <1>8, TilesConcat
<1>10. ((A("TOP") \cup A("LEFT")) \cup A("RIGHT")) \cup A("BOTTOM") = Area(r) \ Area(new)
  BY <1>5, <1>6
<1> QED
  BY <1>1, <1>9, <1>10

LEMMA OverlapMeets ==
  ASSUME NEW a \in Sized, NEW b \in Sized
  PROVE  Overlap(a, b) <=> Area(a) \cap Area(b) # {}
<1>1. /\ a.x \in Int /\ a.y \in Int /\ a.w \in Int /\ a.h \in Int /\ a.w > 0 /\ a.h > 0
      /\ b.x \in Int /\ b.y \in Int /\ b.w \in Int /\ b.h \in Int /\ b.w > 0 /\ b.h > 0
  BY Fields
<1>2. ASSUME Overlap(a, b)
      PROVE  Area(a) \cap Area(b) # {}
  <2> DEFINE x == Larger(a.x, b.x)
             y == Larger(a.y, b.y)
             p == <<x, y>>
  <2>1. /\ x \in Int /\ x >= a.x /\ x >= b.x /\ (x = a.x \/ x = b.x)
        /\ y \in Int /\ y >= a.y /\ y >= b.y /\ (y = a.y \/ y = b.y)
    BY <1>1, Extremes
  <2>2. p \in Points /\ p[1] = x /\ p[2] = y
    BY <2>1 DEF Points
  <2> HIDE DEF x, y, p
  <2>3. inside(p, a) /\ inside(p, b)
    BY <1>1, <1>2, <2>1, <2>2 DEF Overlap, inside
  <2> QED
    BY <2>2, <2>3 DEF Area
<1>3. ASSUME NEW p \in Points, inside(p, a), inside(p, b)
      PROVE  Overlap(a, b)
  <2>1. p[1] \in Int /\ p[2] \in Int
    BY DEF Points
  <2> QED
    BY <1>1, <1>3, <2>1 DEF Overlap, inside
<1> QED
  BY <1>2, <1>3 DEF Area

(***************************************************************************)
(* mkrect(): one list broken with the new rectangle.                       *)
(***************************************************************************)
Handles == {DESKWH} \cup Windows

ListRecs == [rlist : [Handles -> Seq(Sized)], broken : SUBSET Handles,
             free : Int, least : Int]

Parts == [list : Seq(Sized), hit : BOOLEAN, free : Int, least : Int]

LEMMA SmallerInt ==
  ASSUME NEW a \in Int, NEW b \in Int
  PROVE  Smaller(a, b) \in Int
BY DEF Smaller

(***************************************************************************)
(* How many rectangles the lists hold: what g makes of a set u of windows  *)
(* is the length of the list of the one CHOOSE takes, and what g makes of  *)
(* the others.                                                             *)
(***************************************************************************)
Elem(u) == CHOOSE x \in u : TRUE

SumStep(l, g, u) == IF u = {} THEN 0 ELSE Len(l.rlist[Elem(u)]) + g[u \ {Elem(u)}]

Summed(l, D, g) == g = [u \in D |-> SumStep(l, g, u)]

Held(l) ==
  LET length(h) == Len(l.rlist[h]) IN MapThenSumSet(length, {DESKWH} \cup Windows)

LEMMA HandlesFinite == IsFiniteSet(Handles)
<1>1. IsFiniteSet(1 .. NUM_WIN - 1)
  <2>1. 1 \in Int /\ NUM_WIN - 1 \in Int
    BY WindowRectsAssumption
  <2> QED
    BY <2>1, FS_Interval
<1>2. IsFiniteSet({DESKWH})
  BY FS_Singleton
<1>3. IsFiniteSet({DESKWH} \cup (1 .. NUM_WIN - 1))
  BY <1>1, <1>2, FS_Union
<1> QED
  BY <1>3 DEF Handles, Windows

LEMMA ElemFacts ==
  ASSUME NEW u \in SUBSET Handles
  PROVE  /\ Cardinality(u) \in Nat
         /\ u = {} <=> Cardinality(u) = 0
         /\ u # {} => /\ Elem(u) \in u /\ u \ {Elem(u)} \in SUBSET Handles
                      /\ Cardinality(u \ {Elem(u)}) = Cardinality(u) - 1
<1>1. IsFiniteSet(u)
  BY HandlesFinite, FS_Subset
<1>2. Cardinality(u) \in Nat /\ (u = {} <=> Cardinality(u) = 0)
  BY <1>1, FS_CardinalityType, FS_EmptySet
<1>3. ASSUME u # {}
      PROVE  /\ Elem(u) \in u /\ u \ {Elem(u)} \in SUBSET Handles
             /\ Cardinality(u \ {Elem(u)}) = Cardinality(u) - 1
  <2>1. Elem(u) \in u
    BY <1>3 DEF Elem
  <2> QED
    BY <2>1, <1>1, FS_RemoveElement
<1> QED
  BY <1>2, <1>3

LEMMA SumExists ==
  ASSUME NEW l
  PROVE  \E g : Summed(l, SUBSET Handles, g)
<1> DEFINE U(n) == {u \in SUBSET Handles : Cardinality(u) <= n}
           Bad == {n \in Nat : ~\E g : Summed(l, U(n), g)}
<1>1. Bad = {}
  <2> SUFFICES ASSUME Bad # {}
               PROVE  FALSE
    OBVIOUS
  <2>1. PICK n \in Bad : \A j \in Bad : n <= j
    <3>1. Bad \in SUBSET Nat
      OBVIOUS
    <3> HIDE DEF Bad
    <3> QED
      BY <3>1, MinFacts
  <2>2. n \in Nat /\ ~\E g : Summed(l, U(n), g)
    BY <2>1
  <2>3. CASE n = 0
    <3> DEFINE g == [u \in U(n) |-> 0]
    <3>1. \A u \in U(n) : SumStep(l, g, u) = 0
      BY <2>3, ElemFacts DEF SumStep
    <3>2. Summed(l, U(n), g)
      <4> HIDE DEF U
      <4>1. g = [u \in U(n) |-> SumStep(l, g, u)]
        BY <3>1
      <4> HIDE DEF g
      <4> QED
        BY <4>1 DEF Summed
    <3> QED
      BY <3>2, <2>2
  <2>4. CASE n # 0
    <3>1. n - 1 \in Nat /\ n - 1 \notin Bad
      <4>1. n - 1 \in Nat
        BY <2>2, <2>4
      <4> HIDE DEF Bad
      <4>2. n - 1 \in Bad => n <= n - 1
        BY <2>1
      <4> QED
        BY <4>1, <4>2, <2>2
    <3>2. PICK g : Summed(l, U(n - 1), g)
      BY <3>1
    <3> DEFINE f == [u \in U(n) |-> SumStep(l, g, u)]
    <3>3. ASSUME NEW u \in U(n)
          PROVE  SumStep(l, g, u) = SumStep(l, f, u)
      <4>1. CASE u = {}
        BY <4>1 DEF SumStep
      <4>2. CASE u # {}
        <5> DEFINE v == u \ {Elem(u)}
        <5>1. v \in U(n) /\ v \in U(n - 1)
          <6>1. u \in SUBSET Handles /\ Cardinality(u) <= n
            OBVIOUS
          <6>2. /\ v \in SUBSET Handles /\ Cardinality(v) = Cardinality(u) - 1
                /\ Cardinality(u) \in Nat
            BY <6>1, <4>2, ElemFacts
          <6> HIDE DEF v
          <6> QED
            BY <6>1, <6>2, <2>2
        <5> HIDE DEF v, U
        <5>2. g[v] = SumStep(l, g, v)
          <6>1. g = [w \in U(n - 1) |-> SumStep(l, g, w)]
            BY <3>2 DEF Summed
          <6> QED
            BY <5>1, <6>1
        <5>3. f[v] = SumStep(l, g, v)
          BY <5>1
        <5> HIDE DEF f
        <5> QED
          BY <4>2, <5>2, <5>3 DEF SumStep, v
      <4> QED
        BY <4>1, <4>2
    <3> HIDE DEF U
    <3>4. f = [u \in U(n) |-> SumStep(l, f, u)]
      BY <3>3, Zenon
    <3> HIDE DEF f
    <3> QED
      BY <3>4, <2>2 DEF Summed
  <2> QED
    BY <2>3, <2>4
<1>2. Cardinality(Handles) \in Nat /\ U(Cardinality(Handles)) = SUBSET Handles
  <2>1. \A u \in SUBSET Handles : Cardinality(u) <= Cardinality(Handles)
    BY HandlesFinite, FS_Subset
  <2> QED
    BY <2>1, HandlesFinite, FS_CardinalityType
<1> DEFINE c == Cardinality(Handles)
<1> HIDE DEF U, c
<1>3. \E g : Summed(l, U(c), g)
  BY <1>1, <1>2 DEF c
<1> QED
  BY <1>2, <1>3 DEF c

LEMMA HeldIs ==
  ASSUME NEW l
  PROVE  \E g : Summed(l, SUBSET Handles, g) /\ Held(l) = g[Handles]
<1> DEFINE E(g) == [u \in SUBSET Handles |->
                      IF u = {} THEN 0
                      ELSE Len(l.rlist[CHOOSE x \in u : TRUE])
                             + g[u \ {CHOOSE x \in u : TRUE}]]
           it == CHOOSE g : g = E(g)
<1>1. PICK g : Summed(l, SUBSET Handles, g)
  BY SumExists
<1>2. ASSUME NEW h
      PROVE  [u \in SUBSET Handles |-> SumStep(l, h, u)] = E(h)
  BY DEF SumStep, Elem
<1>3. g = E(g)
  BY <1>1, <1>2 DEF Summed
<1>4. Held(l) = it[Handles]
  BY DEF Held, MapThenSumSet, MapThenFoldSet, Handles
<1> HIDE DEF E
<1>5. it = E(it)
  BY <1>3
<1> HIDE DEF it
<1>6. Summed(l, SUBSET Handles, it)
  BY <1>2, <1>5 DEF Summed
<1> QED
  BY <1>4, <1>6

(* The sums of two collections of lists that differ in the one of h only.  *)
LEMMA HeldChange ==
  ASSUME NEW l, NEW m, NEW h \in Handles,
         \A x \in Handles : Len(l.rlist[x]) \in Nat /\ Len(m.rlist[x]) \in Nat,
         \A x \in Handles \ {h} : m.rlist[x] = l.rlist[x]
  PROVE  /\ Held(l) \in Int
         /\ Held(m) = Held(l) - Len(l.rlist[h]) + Len(m.rlist[h])
<1>1. PICK f : Summed(l, SUBSET Handles, f) /\ Held(l) = f[Handles]
  BY HeldIs
<1>2. PICK g : Summed(m, SUBSET Handles, g) /\ Held(m) = g[Handles]
  BY HeldIs
<1>3. \A u \in SUBSET Handles : f[u] = SumStep(l, f, u) /\ g[u] = SumStep(m, g, u)
  <2>1. f = [u \in SUBSET Handles |-> SumStep(l, f, u)]
    BY <1>1 DEF Summed
  <2>2. g = [u \in SUBSET Handles |-> SumStep(m, g, u)]
    BY <1>2 DEF Summed
  <2> QED
    BY <2>1, <2>2
<1> DEFINE a == Len(l.rlist[h])
           b == Len(m.rlist[h])
           Good(u) == f[u] \in Int /\ g[u] = IF h \in u THEN f[u] - a + b ELSE f[u]
           Bad == {n \in Nat : \E u \in SUBSET Handles : Cardinality(u) = n /\ ~Good(u)}
<1>4. a \in Nat /\ b \in Nat
  OBVIOUS
<1> HIDE DEF a, b
<1>5. Bad = {}
  <2> SUFFICES ASSUME Bad # {}
               PROVE  FALSE
    OBVIOUS
  <2>1. PICK n \in Bad : \A j \in Bad : n <= j
    <3>1. Bad \in SUBSET Nat
      OBVIOUS
    <3> HIDE DEF Bad
    <3> QED
      BY <3>1, MinFacts
  <2>2. PICK u \in SUBSET Handles : Cardinality(u) = n /\ ~Good(u)
    BY <2>1
  <2> HIDE DEF Good
  <2>3. CASE u = {}
    <3>1. f[u] = 0 /\ g[u] = 0
      BY <2>3, <1>3 DEF SumStep
    <3> QED
      BY <2>2, <2>3, <3>1 DEF Good
  <2>4. CASE u # {}
    <3> DEFINE x == Elem(u)
               v == u \ {x}
    <3>1. /\ x \in u /\ x \in Handles /\ v \in SUBSET Handles
          /\ Cardinality(v) = n - 1 /\ n \in Nat /\ n # 0
      BY <2>2, <2>4, ElemFacts
    <3>2. Good(v)
      <4>1. n - 1 \in Nat
        BY <3>1
      <4>2. n - 1 \in Bad => n <= n - 1
        <5> HIDE DEF Bad
        <5> QED
          BY <2>1
      <4> QED
        BY <3>1, <4>1, <4>2
    <3>3. /\ f[u] = Len(l.rlist[x]) + f[v]
          /\ g[u] = Len(m.rlist[x]) + g[v]
      BY <2>4, <1>3 DEF SumStep
    <3>4. h \in u <=> h \in v \/ x = h
      BY <3>1
    <3>5. h \in v => x # h
      OBVIOUS
    <3> HIDE DEF v, x
    <3>6. Len(l.rlist[x]) \in Nat /\ Len(m.rlist[x]) \in Nat
      BY <3>1
    <3>7. CASE x = h
      <4>1. h \in u /\ h \notin v
        BY <3>4, <3>5, <3>7
      <4>2. f[v] \in Int /\ g[v] = f[v]
        BY <3>2, <4>1 DEF Good
      <4>3. f[u] = a + f[v] /\ g[u] = b + g[v]
        BY <3>3, <3>7 DEF a, b
      <4>4. f[u] \in Int /\ g[u] = f[u] - a + b
        BY <4>2, <4>3, <1>4
      <4> QED
        BY <2>2, <4>1, <4>4 DEF Good
    <3>8. CASE x # h
      <4>1. Len(m.rlist[x]) = Len(l.rlist[x])
        BY <3>1, <3>8
      <4>2. h \in u <=> h \in v
        BY <3>4, <3>8
      <4>3. f[v] \in Int /\ g[v] = IF h \in v THEN f[v] - a + b ELSE f[v]
        BY <3>2 DEF Good
      <4>4. f[u] = Len(l.rlist[x]) + f[v] /\ g[u] = Len(l.rlist[x]) + g[v]
        BY <3>3, <4>1
      <4> DEFINE c == Len(l.rlist[x])
      <4>a. c \in Int /\ a \in Int /\ b \in Int
        BY <3>6, <1>4
      <4>b. f[u] = c + f[v] /\ g[u] = c + g[v]
        BY <4>4
      <4> HIDE DEF c
      <4>5. f[u] \in Int /\ g[u] = IF h \in v THEN f[u] - a + b ELSE f[u]
        <5>1. CASE h \in v
          BY <5>1, <4>3, <4>a, <4>b
        <5>2. CASE h \notin v
          BY <5>2, <4>3, <4>a, <4>b
        <5> QED
          BY <5>1, <5>2
      <4> QED
        BY <2>2, <4>2, <4>5 DEF Good
    <3> QED
      BY <3>7, <3>8
  <2> QED
    BY <2>3, <2>4
<1>6. Good(Handles)
  <2>1. Cardinality(Handles) \in Nat
    BY HandlesFinite, FS_CardinalityType
  <2> HIDE DEF Good
  <2> QED
    BY <2>1, <1>5
<1> QED
  BY <1>1, <1>2, <1>6 DEF a, b

LEMMA HeldNone ==
  ASSUME NEW l, \A x \in Handles : Len(l.rlist[x]) = 0
  PROVE  Held(l) = 0
<1>1. PICK f : Summed(l, SUBSET Handles, f) /\ Held(l) = f[Handles]
  BY HeldIs
<1>2. \A u \in SUBSET Handles : f[u] = SumStep(l, f, u)
  <2>1. f = [u \in SUBSET Handles |-> SumStep(l, f, u)]
    BY <1>1 DEF Summed
  <2> QED
    BY <2>1
<1> DEFINE Bad == {n \in Nat : \E u \in SUBSET Handles : Cardinality(u) = n /\ f[u] # 0}
<1>3. Bad = {}
  <2> SUFFICES ASSUME Bad # {}
               PROVE  FALSE
    OBVIOUS
  <2>1. PICK n \in Bad : \A j \in Bad : n <= j
    <3>1. Bad \in SUBSET Nat
      OBVIOUS
    <3> HIDE DEF Bad
    <3> QED
      BY <3>1, MinFacts
  <2>2. PICK u \in SUBSET Handles : Cardinality(u) = n /\ f[u] # 0
    BY <2>1
  <2>3. u # {}
    BY <2>2, <1>2 DEF SumStep
  <2> DEFINE x == Elem(u)
             v == u \ {x}
  <2>4. /\ x \in Handles /\ v \in SUBSET Handles
        /\ Cardinality(v) = n - 1 /\ n \in Nat /\ n # 0
    BY <2>2, <2>3, ElemFacts
  <2>5. f[v] = 0
    <3>1. n - 1 \in Nat
      BY <2>4
    <3>2. n - 1 \in Bad => n <= n - 1
      <4> HIDE DEF Bad
      <4> QED
        BY <2>1
    <3> QED
      BY <2>4, <3>1, <3>2
  <2>6. f[u] = Len(l.rlist[x]) + f[v]
    BY <2>3, <1>2 DEF SumStep
  <2> HIDE DEF v, x
  <2>7. Len(l.rlist[x]) = 0
    BY <2>4
  <2> QED
    BY <2>2, <2>5, <2>6, <2>7
<1>4. Cardinality(Handles) \in Nat
  BY HandlesFinite, FS_CardinalityType
<1> QED
  BY <1>1, <1>3, <1>4

(* All rectangles there are.                                               *)
Pool(l) == l.free + Held(l)

LEMMA Balance ==
  ASSUME NEW a \in Nat, NEW b \in Nat, NEW f \in Int, NEW g \in Int, NEW H \in Int,
         NEW K, K = H - a + b, g + b = f + a
  PROVE  g + K = f + H
OBVIOUS

LEMMA PoolStep ==
  ASSUME NEW l \in ListRecs, NEW m \in ListRecs, NEW h \in Handles,
         \A x \in Handles \ {h} : m.rlist[x] = l.rlist[x],
         m.free + Len(m.rlist[h]) = l.free + Len(l.rlist[h])
  PROVE  Pool(m) = Pool(l)
<1>1. /\ l.rlist \in [Handles -> Seq(Sized)] /\ m.rlist \in [Handles -> Seq(Sized)]
      /\ l.free \in Int /\ m.free \in Int
  BY DEF ListRecs
<1> HIDE DEF Sized
<1>2. \A x \in Handles : Len(l.rlist[x]) \in Nat /\ Len(m.rlist[x]) \in Nat
  BY <1>1
<1>3. /\ Held(l) \in Int
      /\ Held(m) = Held(l) - Len(l.rlist[h]) + Len(m.rlist[h])
  BY <1>2, HeldChange
<1>4. Len(l.rlist[h]) \in Nat /\ Len(m.rlist[h]) \in Nat
  BY <1>2
<1>5. l.free \in Int /\ m.free \in Int /\ Held(l) \in Int
  BY <1>1, <1>3
<1> DEFINE a == Len(l.rlist[h])
           b == Len(m.rlist[h])
           f == l.free
           g == m.free
           H == Held(l)
           K == Held(m)
<1>6. /\ a \in Nat /\ b \in Nat /\ f \in Int /\ g \in Int /\ H \in Int
      /\ K = H - a + b /\ g + b = f + a
  BY <1>3, <1>4, <1>5
<1> HIDE DEF a, b, f, g, H, K
<1>7. g + K = f + H
  BY <1>6, Balance
<1> QED
  BY <1>7 DEF Pool, f, g, H, K

LEMMA BreakFacts ==
  ASSUME NEW new \in Sized, NEW part \in Parts, NEW r \in Sized, NEW A,
         Tiles(part.list, A), A \cap Area(r) = {}
  PROVE  LET b == Break(new, part, r)
         IN  /\ b \in Parts
             /\ Tiles(b.list, A \cup (Area(r) \ Area(new)))
             /\ b.hit <=> part.hit \/ Overlap(new, r)
             /\ b.free + Len(b.list) = part.free + Len(part.list) + 1
<1> DEFINE b == Break(new, part, r)
<1>1. /\ part.list \in Seq(Sized) /\ part.hit \in BOOLEAN
      /\ part.free \in Int /\ part.least \in Int /\ Len(part.list) \in Nat
  BY DEF Parts
<1>2. CASE ~Overlap(new, r)
  <2>1. b = [part EXCEPT !.list = Append(part.list, r)]
    BY <1>2 DEF Break
  <2>2. /\ b \in Parts /\ b.list = Append(part.list, r) /\ b.hit = part.hit
        /\ b.free = part.free
    <3>1. Append(part.list, r) \in Seq(Sized)
      BY <1>1
    <3> HIDE DEF Sized, b
    <3> DEFINE s == Append(part.list, r)
    <3>2. b = [part EXCEPT !.list = s] /\ s \in Seq(Sized) /\ part \in Parts
      BY <2>1, <3>1
    <3> HIDE DEF s
    <3>3. b \in Parts /\ b.list = s /\ b.hit = part.hit /\ b.free = part.free
      BY <3>2 DEF Parts
    <3> QED
      BY <3>3 DEF s
  <2>3. Append(part.list, r) = part.list \o <<r>> /\ Len(b.list) = Len(part.list) + 1
    <3> HIDE DEF Sized, b
    <3> QED
      BY <1>1, <2>2
  <2>4. Tiles(part.list \o <<r>>, A \cup Area(r))
    BY TilesOne, TilesConcat
  <2>5. Area(r) \ Area(new) = Area(r)
    BY <1>2, OverlapMeets
  <2> HIDE DEF b
  <2>6. b.free + Len(b.list) = part.free + Len(part.list) + 1
    BY <1>1, <2>2, <2>3
  <2>7. Tiles(b.list, A \cup (Area(r) \ Area(new)))
    BY <2>2, <2>3, <2>4, <2>5, Zenon
  <2>8. b.hit <=> part.hit \/ Overlap(new, r)
    BY <1>2, <2>2
  <2> QED
    BY <2>2, <2>6, <2>7, <2>8 DEF b
<1>3. CASE Overlap(new, r)
  <2> DEFINE q == brkrct(new, r)
             left == part.free - Len(q)
             c == [list |-> part.list \o q, hit |-> TRUE, free |-> left + 1,
                   least |-> Smaller(part.least, left)]
  <2>1. b = c
    BY <1>3 DEF Break
  <2>2. Tiles(q, Area(r) \ Area(new))
    BY <1>3, BrkrctTiles
  <2> HIDE DEF q, b
  <2>3. Tiles(part.list \o q, A \cup (Area(r) \ Area(new)))
    BY <2>2, TilesConcat
  <2>4. q \in Seq(Sized) /\ part.list \o q \in Seq(Sized) /\ Len(q) \in Nat
        /\ Len(part.list \o q) = Len(part.list) + Len(q)
    BY <2>2, <2>3, <1>1, ConcatFacts DEF Tiles
  <2>5. left \in Int
    BY <2>4, <1>1
  <2>6. Smaller(part.least, left) \in Int
    BY <2>5, <1>1, SmallerInt
  <2> HIDE DEF Sized
  <2>7. c \in Parts /\ c.list = part.list \o q /\ c.hit = TRUE /\ c.free = left + 1
    BY <2>4, <2>5, <2>6, <1>1 DEF Parts
  <2>8. c.free + Len(c.list) = part.free + Len(part.list) + 1
    BY <2>4, <2>7, <1>1
  <2> HIDE DEF c
  <2> QED
    BY <1>3, <2>1, <2>3, <2>7, <2>8 DEF b
<1> QED
  BY <1>2, <1>3

(* The pixels of the first i rectangles. *)
Upto(s, i) == {p \in Points : \E j \in 1 .. i : inside(p, s[j])}

LEMMA UptoFacts ==
  ASSUME NEW s, NEW A, Tiles(s, A), A \subseteq Points
  PROVE  /\ Len(s) \in Nat /\ DOMAIN s = 1 .. Len(s)
         /\ \A i \in 1 .. Len(s) : s[i] \in Sized
         /\ Upto(s, 0) = {} /\ Upto(s, Len(s)) = A
         /\ \A i \in 1 .. Len(s) : /\ Upto(s, i) = Upto(s, i - 1) \cup Area(s[i])
                                   /\ Upto(s, i - 1) \cap Area(s[i]) = {}
<1>1. s \in Seq(Sized)
  BY DEF Tiles
<1>2. Len(s) \in Nat /\ DOMAIN s = 1 .. Len(s) /\ \A i \in 1 .. Len(s) : s[i] \in Sized
  BY <1>1
<1>3. Upto(s, 0) = {}
  BY DEF Upto
<1>4. Upto(s, Len(s)) = A
  BY DEF Upto, Tiles
<1>5. ASSUME NEW i \in 1 .. Len(s)
      PROVE  /\ Upto(s, i) = Upto(s, i - 1) \cup Area(s[i])
             /\ Upto(s, i - 1) \cap Area(s[i]) = {}
  <2>1. /\ \A j : j \in 1 .. i <=> (j \in 1 .. i - 1 \/ j = i)
        /\ \A j \in 1 .. i - 1 : j \in 1 .. Len(s) /\ j # i
    BY <1>2
  <2>2. Upto(s, i) = Upto(s, i - 1) \cup Area(s[i])
    <3>1. \A p \in Points : (\E j \in 1 .. i : inside(p, s[j]))
                              <=> (\E j \in 1 .. i - 1 : inside(p, s[j])) \/ inside(p, s[i])
      BY <2>1
    <3> QED
      BY <3>1 DEF Upto, Area
  <2>3. \A p \in Points : \A j \in 1 .. i - 1 : ~(inside(p, s[j]) /\ inside(p, s[i]))
    BY <2>1 DEF Tiles
  <2> QED
    BY <2>2, <2>3 DEF Upto, Area
<1> QED
  BY <1>2, <1>3, <1>4, <1>5

CutKind(new) == [kind |-> "cut", new |-> new]
CutStart(l) == [list |-> <<>>, hit |-> FALSE, free |-> l.free, least |-> l.least]

Laid(l, wh, done) ==
  [rlist |-> [l.rlist EXCEPT ![wh] = done.list],
   broken |-> IF done.hit THEN l.broken \cup {wh} ELSE l.broken,
   free |-> done.free, least |-> done.least]

LEMMA CutRuns ==
  ASSUME NEW new, NEW l, NEW wh, Len(l.rlist[wh]) \in Nat,
         DOMAIN l.rlist[wh] = 1 .. Len(l.rlist[wh])
  PROVE  \E done : /\ Runs(CutKind(new), CutStart(l), l.rlist[wh], done)
                   /\ mkrect(new, l, wh) = Laid(l, wh, done)
<1> DEFINE s == l.rlist[wh]
           n == Len(s)
           base == CutStart(l)
           E(g) == [u \in SUBSET (1 .. n) |->
                      IF u = {} THEN base
                      ELSE Break(new, g[u \ {Max(u)}], s[Max(u)])]
           it == CHOOSE g : g = E(g)
<1>1. PICK g : Ran(CutKind(new), base, s, SUBSET (1 .. n), g)
  BY RunExists
<1>2. ASSUME NEW h
      PROVE  [u \in SUBSET (1 .. n) |-> RunStep(CutKind(new), base, s, h, u)] = E(h)
  BY DEF RunStep, Step, CutKind
<1>3. g = E(g)
  BY <1>1, <1>2 DEF Ran
<1>4. mkrect(new, l, wh) = Laid(l, wh, it[1 .. n])
  BY DEF mkrect, FoldLeft, MapThenFoldSet, Laid, CutStart
<1> HIDE DEF E
<1>5. it = E(it)
  BY <1>3
<1> HIDE DEF it, base, n
<1>6. Ran(CutKind(new), base, s, SUBSET (1 .. n), it)
  BY <1>2, <1>5 DEF Ran
<1>7. Runs(CutKind(new), base, s, it[1 .. n])
  BY <1>6 DEF Runs, n
<1> QED
  BY <1>4, <1>7 DEF base

(* The rectangles of wh that the new one has left. *)
Broken(new, l, wh, m, A) ==
  /\ m \in ListRecs
  /\ \A x \in Handles \ {wh} : m.rlist[x] = l.rlist[x]
                               /\ (x \in m.broken <=> x \in l.broken)
  /\ Tiles(m.rlist[wh], A \ Area(new))
  /\ wh \in m.broken <=> wh \in l.broken \/ A \cap Area(new) # {}
  /\ m.free + Len(m.rlist[wh]) = l.free + Len(l.rlist[wh])

LEMMA MkrectFacts ==
  ASSUME NEW new \in Sized, NEW l \in ListRecs, NEW wh \in Handles,
         NEW A, A \subseteq Points, Tiles(l.rlist[wh], A)
  PROVE  Broken(new, l, wh, mkrect(new, l, wh), A)
<1> DEFINE s == l.rlist[wh]
           n == Len(s)
           base == CutStart(l)
           So(i, y) == /\ Tiles(y.list, Upto(s, i) \ Area(new))
                       /\ y.hit <=> Upto(s, i) \cap Area(new) # {}
                       /\ y.free + Len(y.list) = l.free + i
           R == {x \in (0 .. n) \X Parts : So(x[1], x[2])}
<1>1. /\ n \in Nat /\ DOMAIN s = 1 .. n /\ \A i \in 1 .. n : s[i] \in Sized
      /\ Upto(s, 0) = {} /\ Upto(s, n) = A
      /\ \A i \in 1 .. n : /\ Upto(s, i) = Upto(s, i - 1) \cup Area(s[i])
                           /\ Upto(s, i - 1) \cap Area(s[i]) = {}
  BY UptoFacts
<1>2. PICK done : /\ Runs(CutKind(new), base, s, done)
                  /\ mkrect(new, l, wh) = Laid(l, wh, done)
  BY <1>1, CutRuns
<1>3. /\ l.rlist \in [Handles -> Seq(Sized)] /\ l.broken \in SUBSET Handles
      /\ l.free \in Int /\ l.least \in Int
  BY DEF ListRecs
<1>4. <<0, base>> \in R
  <2>1. /\ base \in Parts /\ base.list = <<>> /\ base.hit = FALSE
        /\ base.free = l.free /\ Len(base.list) = 0
    BY <1>3 DEF CutStart, Parts
  <2>2. 0 \in 0 .. n
    BY <1>1
  <2> HIDE DEF base, n
  <2>3. So(0, base)
    <3>1. Tiles(base.list, Upto(s, 0) \ Area(new))
      BY <2>1, <1>1, TilesNone, Zenon
    <3>2. base.free + Len(base.list) = l.free + 0
      BY <2>1, <1>3
    <3> QED
      BY <3>1, <3>2, <2>1, <1>1
  <2> HIDE DEF So
  <2> QED
    BY <2>1, <2>2, <2>3
<1>5. ASSUME NEW i \in 1 .. n, NEW y, <<i - 1, y>> \in R
      PROVE  <<i, Step(CutKind(new), y, s[i])>> \in R
  <2>1. y \in Parts /\ So(i - 1, y)
    BY <1>5
  <2> DEFINE b == Break(new, y, s[i])
             B == Upto(s, i - 1) \ Area(new)
  <2>2. /\ i \in 0 .. n /\ i \in Nat /\ s[i] \in Sized
        /\ B \cap Area(s[i]) = {}
    BY <1>1
  <2>3. /\ b \in Parts
        /\ Tiles(b.list, B \cup (Area(s[i]) \ Area(new)))
        /\ b.hit <=> y.hit \/ Overlap(new, s[i])
        /\ b.free + Len(b.list) = y.free + Len(y.list) + 1
    <3>1. Tiles(y.list, B)
      BY <2>1
    <3> HIDE DEF B, So, R, s, n
    <3> QED
      BY <2>1, <2>2, <3>1, BreakFacts
  <2> HIDE DEF b
  <2>4. B \cup (Area(s[i]) \ Area(new)) = Upto(s, i) \ Area(new)
    BY <1>1
  <2>5. Tiles(b.list, Upto(s, i) \ Area(new))
    BY <2>3, <2>4, Zenon
  <2>6. b.hit <=> Upto(s, i) \cap Area(new) # {}
    <3>1. Overlap(new, s[i]) <=> Area(s[i]) \cap Area(new) # {}
      BY <2>2, OverlapMeets
    <3>2. y.hit <=> Upto(s, i - 1) \cap Area(new) # {}
      BY <2>1
    <3>3. Upto(s, i) = Upto(s, i - 1) \cup Area(s[i])
      BY <1>1
    <3> QED
      BY <3>1, <3>2, <3>3, <2>3
  <2>7. b.free + Len(b.list) = l.free + i
    <3>1. y.free + Len(y.list) = l.free + (i - 1)
      BY <2>1
    <3>2. l.free \in Int /\ i \in Int
      BY <1>3, <2>2
    <3> QED
      BY <3>1, <3>2, <2>3
  <2>8. Step(CutKind(new), y, s[i]) = b
    BY DEF Step, CutKind, b
  <2>9. So(i, b)
    BY <2>5, <2>6, <2>7
  <2> HIDE DEF So
  <2> QED
    BY <2>2, <2>3, <2>8, <2>9
<1>6. <<n, done>> \in R
  <2> HIDE DEF R, base, n
  <2>1. Len(s) \in Nat
    BY <1>1 DEF n
  <2>2. ASSUME NEW i \in 1 .. Len(s), NEW y, <<i - 1, y>> \in R
        PROVE  <<i, Step(CutKind(new), y, s[i])>> \in R
    BY <1>5, <2>2 DEF n
  <2> HIDE DEF s
  <2>3. <<Len(s), done>> \in R
    BY <1>2, <1>4, <2>1, <2>2, RunReach, Zenon
  <2> QED
    BY <2>3 DEF n
<1>7. done \in Parts /\ So(n, done)
  BY <1>6
<1> DEFINE m == Laid(l, wh, done)
<1>8. /\ done.list \in Seq(Sized) /\ done.hit \in BOOLEAN
      /\ done.free \in Int /\ done.least \in Int
  BY <1>7 DEF Parts
<1> HIDE DEF Sized
<1>9. /\ m \in ListRecs /\ m.rlist = [l.rlist EXCEPT ![wh] = done.list]
      /\ m.broken = IF done.hit THEN l.broken \cup {wh} ELSE l.broken
      /\ m.free = done.free
  <2>1. [l.rlist EXCEPT ![wh] = done.list] \in [Handles -> Seq(Sized)]
    BY <1>3, <1>8
  <2>2. (IF done.hit THEN l.broken \cup {wh} ELSE l.broken) \in SUBSET Handles
    BY <1>3
  <2> QED
    BY <2>1, <2>2, <1>8 DEF Laid, ListRecs
<1>10. m.rlist[wh] = done.list
       /\ \A x \in Handles \ {wh} : m.rlist[x] = l.rlist[x]
  BY <1>3, <1>9
<1>11. /\ Tiles(done.list, A \ Area(new))
       /\ done.hit <=> A \cap Area(new) # {}
       /\ done.free + Len(done.list) = l.free + n
  BY <1>1, <1>7
<1> HIDE DEF m, So, R
<1>12. Tiles(m.rlist[wh], A \ Area(new))
  BY <1>10, <1>11, Zenon
<1>13. \A x \in Handles \ {wh} : x \in m.broken <=> x \in l.broken
  BY <1>9
<1>14. wh \in m.broken <=> wh \in l.broken \/ A \cap Area(new) # {}
  BY <1>9, <1>11
<1>15. m.free + Len(m.rlist[wh]) = l.free + Len(l.rlist[wh])
  BY <1>9, <1>10, <1>11
<1>16. Broken(new, l, wh, m, A)
  BY <1>9, <1>10, <1>12, <1>13, <1>14, <1>15 DEF Broken
<1> QED
  BY <1>16, <1>2 DEF m

(***************************************************************************)
(* newrect(): a rectangle laid over the lists below.                       *)
(***************************************************************************)
LayKind(new) == [kind |-> "lay", new |-> new]

Placed(l, wh, new, cut) ==
  IF ~HasSize(new) THEN Dump(l, wh)
  ELSE [cut EXCEPT !.rlist[wh] = <<new>>, !.free = @ - 1,
                   !.least = Smaller(@, cut.free - 1)]

LEMMA NewrectRuns ==
  ASSUME NEW ord, NEW size, NEW l, NEW wh, NEW new, new = TrueSize(size[wh]),
         NEW s, s = Below(ord, wh), Len(s) \in Nat, DOMAIN s = 1 .. Len(s)
  PROVE  \E cut : /\ Runs(LayKind(new), Dump(l, wh), s, cut)
                  /\ newrect(ord, size, l, wh) = Placed(l, wh, new, cut)
<1> DEFINE n == Len(s)
           base == Dump(l, wh)
           E(g) == [u \in SUBSET (1 .. n) |->
                      IF u = {} THEN base
                      ELSE mkrect(new, g[u \ {Max(u)}], s[Max(u)])]
           it == CHOOSE g : g = E(g)
<1>1. PICK g : Ran(LayKind(new), base, s, SUBSET (1 .. n), g)
  BY RunExists
<1>2. ASSUME NEW h
      PROVE  [u \in SUBSET (1 .. n) |-> RunStep(LayKind(new), base, s, h, u)] = E(h)
  BY DEF RunStep, Step, LayKind
<1>3. g = E(g)
  BY <1>1, <1>2 DEF Ran
<1>4. newrect(ord, size, l, wh) = Placed(l, wh, new, it[1 .. n])
  BY DEF newrect, FoldLeft, MapThenFoldSet, Placed
<1> HIDE DEF E
<1>5. it = E(it)
  BY <1>3
<1> HIDE DEF it, base, n
<1>6. Ran(LayKind(new), base, s, SUBSET (1 .. n), it)
  BY <1>2, <1>5 DEF Ran
<1>7. Runs(LayKind(new), base, s, it[1 .. n])
  BY <1>6 DEF Runs, n
<1> QED
  BY <1>4, <1>7 DEF base

(* The lists with a new rectangle over those of b, which had the areas T.  *)
Covered(new, l, m, b, T) ==
  /\ m \in ListRecs /\ Pool(m) = Pool(l)
  /\ \A x \in Handles : (\A j \in 1 .. Len(b) : b[j] # x) =>
       m.rlist[x] = l.rlist[x] /\ (x \in m.broken <=> x \in l.broken)
  /\ \A j \in 1 .. Len(b) :
       /\ Tiles(m.rlist[b[j]], T[b[j]] \ Area(new))
       /\ b[j] \in m.broken <=> b[j] \in l.broken \/ T[b[j]] \cap Area(new) # {}

LEMMA LayFacts ==
  ASSUME NEW new \in Sized, NEW l \in ListRecs, NEW b, Len(b) \in Nat, NEW T,
         NEW cut, Runs(LayKind(new), l, b, cut),
         \A j \in 1 .. Len(b) : /\ b[j] \in Handles
                                /\ T[b[j]] \subseteq Points
                                /\ Tiles(l.rlist[b[j]], T[b[j]]),
         \A i, j \in 1 .. Len(b) : b[i] = b[j] => i = j
  PROVE  Covered(new, l, cut, b, T)
<1> DEFINE n == Len(b)
           Same(x, y) == y.rlist[x] = l.rlist[x] /\ (x \in y.broken <=> x \in l.broken)
           Cov(x, y) == /\ Tiles(y.rlist[x], T[x] \ Area(new))
                        /\ x \in y.broken <=> x \in l.broken \/ T[x] \cap Area(new) # {}
           So(i, y) == /\ \A x \in Handles : (\A j \in 1 .. i : b[j] # x) => Same(x, y)
                       /\ \A j \in 1 .. i : Cov(b[j], y)
                       /\ Pool(y) = Pool(l)
           R == {x \in (0 .. n) \X ListRecs : So(x[1], x[2])}
<1>1. <<0, l>> \in R
  <2>1. 0 \in 0 .. n /\ 1 .. 0 = {}
    OBVIOUS
  <2>2. So(0, l)
    BY <2>1
  <2> HIDE DEF So, n
  <2> QED
    BY <2>1, <2>2
<1>2. ASSUME NEW i \in 1 .. n, NEW y, <<i - 1, y>> \in R
      PROVE  <<i, Step(LayKind(new), y, b[i])>> \in R
  <2> DEFINE z == mkrect(new, y, b[i])
  <2> HIDE DEF Same, Cov
  <2>1. y \in ListRecs /\ So(i - 1, y)
    BY <1>2
  <2>2. /\ i \in 0 .. n /\ i \in Nat /\ b[i] \in Handles
        /\ \A j : j \in 1 .. i <=> (j \in 1 .. i - 1 \/ j = i)
        /\ \A j \in 1 .. i - 1 : j \in 1 .. n /\ j # i
    OBVIOUS
  <2>3. \A j \in 1 .. i - 1 : b[j] # b[i] /\ b[j] \in Handles
    BY <2>2
  <2>4. Same(b[i], y)
    BY <2>1, <2>2, <2>3
  <2>5. Tiles(y.rlist[b[i]], T[b[i]]) /\ T[b[i]] \subseteq Points
    BY <2>4 DEF Same
  <2> HIDE DEF So, R, n
  <2>6. Broken(new, y, b[i], z, T[b[i]])
    BY <2>1, <2>2, <2>5, MkrectFacts
  <2> HIDE DEF z
  <2>7. /\ z \in ListRecs
        /\ \A x \in Handles : x # b[i] => z.rlist[x] = y.rlist[x]
                                          /\ (x \in z.broken <=> x \in y.broken)
        /\ Tiles(z.rlist[b[i]], T[b[i]] \ Area(new))
        /\ b[i] \in z.broken <=> b[i] \in y.broken \/ T[b[i]] \cap Area(new) # {}
        /\ z.free + Len(z.rlist[b[i]]) = y.free + Len(y.rlist[b[i]])
    BY <2>6 DEF Broken
  <2>8. Cov(b[i], z)
    BY <2>4, <2>7 DEF Cov, Same
  <2>9. ASSUME NEW x \in Handles, x # b[i]
        PROVE  (Same(x, y) => Same(x, z)) /\ (Cov(x, y) => Cov(x, z))
    BY <2>7, <2>9 DEF Cov, Same
  <2>10. So(i, z)
    <3>1. \A x \in Handles : (\A j \in 1 .. i - 1 : b[j] # x) => Same(x, y)
      BY <2>1 DEF So
    <3>2. \A j \in 1 .. i - 1 : Cov(b[j], y)
      BY <2>1 DEF So
    <3>3. \A x \in Handles : (\A j \in 1 .. i : b[j] # x) => Same(x, z)
      BY <3>1, <2>2, <2>9
    <3>4. \A j \in 1 .. i : Cov(b[j], z)
      BY <3>2, <2>2, <2>3, <2>8, <2>9
    <3>5. Pool(z) = Pool(y)
      BY <2>1, <2>2, <2>7, PoolStep
    <3>6. Pool(y) = Pool(l)
      BY <2>1 DEF So
    <3> QED
      BY <3>3, <3>4, <3>5, <3>6 DEF So
  <2>11. Step(LayKind(new), y, b[i]) = z
    BY DEF Step, LayKind, z
  <2>12. <<i, z>> \in R
    BY <2>2, <2>7, <2>10 DEF R
  <2> QED
    BY <2>11, <2>12
<1>3. <<n, cut>> \in R
  <2> HIDE DEF R, n
  <2>1. ASSUME NEW i \in 1 .. Len(b), NEW y, <<i - 1, y>> \in R
        PROVE  <<i, Step(LayKind(new), y, b[i])>> \in R
    BY <1>2, <2>1 DEF n
  <2>2. <<Len(b), cut>> \in R
    BY <1>1, <2>1, RunReach, Zenon
  <2> QED
    BY <2>2 DEF n
<1>4. cut \in ListRecs /\ So(n, cut)
  BY <1>3
<1> QED
  BY <1>4 DEF Covered

LEMMA DumpFacts ==
  ASSUME NEW l \in ListRecs, NEW wh \in Handles
  PROVE  /\ Dump(l, wh) \in ListRecs
         /\ Dump(l, wh).rlist[wh] = <<>> /\ wh \notin Dump(l, wh).broken
         /\ Pool(Dump(l, wh)) = Pool(l)
         /\ \A x \in Handles \ {wh} :
              /\ Dump(l, wh).rlist[x] = l.rlist[x]
              /\ x \in Dump(l, wh).broken <=> x \in l.broken
<1> DEFINE d == Dump(l, wh)
<1>1. /\ l.rlist \in [Handles -> Seq(Sized)] /\ l.broken \in SUBSET Handles
      /\ l.free \in Int /\ l.least \in Int
  BY DEF ListRecs
<1> HIDE DEF Sized
<1>2. Len(l.rlist[wh]) \in Nat /\ <<>> \in Seq(Sized)
  BY <1>1
<1>3. d = [l EXCEPT !.rlist = [l.rlist EXCEPT ![wh] = <<>>], !.broken = l.broken \ {wh},
                    !.free = l.free + Len(l.rlist[wh])]
  BY DEF Dump
<1>4. /\ d.rlist = [l.rlist EXCEPT ![wh] = <<>>] /\ d.broken = l.broken \ {wh}
      /\ d \in ListRecs /\ d.free = l.free + Len(l.rlist[wh])
  <2>1. [l.rlist EXCEPT ![wh] = <<>>] \in [Handles -> Seq(Sized)]
    BY <1>1, <1>2
  <2>2. l.broken \ {wh} \in SUBSET Handles /\ l.free + Len(l.rlist[wh]) \in Int
    BY <1>1, <1>2
  <2> HIDE DEF d
  <2> QED
    BY <1>3, <2>1, <2>2 DEF ListRecs
<1> HIDE DEF d
<1>5. /\ d.rlist[wh] = <<>> /\ wh \notin d.broken
      /\ \A x \in Handles \ {wh} : d.rlist[x] = l.rlist[x] /\ (x \in d.broken <=> x \in l.broken)
  BY <1>1, <1>4
<1>6. Pool(d) = Pool(l)
  <2>1. d.free + Len(d.rlist[wh]) = l.free + Len(l.rlist[wh])
    BY <1>1, <1>2, <1>4, <1>5
  <2> QED
    BY <2>1, <1>4, <1>5, PoolStep
<1> QED
  BY <1>4, <1>5, <1>6 DEF d

Alone(m, cut, wh, new) ==
  /\ m \in ListRecs /\ m.rlist[wh] = <<new>> /\ m.broken = cut.broken
  /\ cut.rlist[wh] = <<>> => Pool(m) = Pool(cut)
  /\ \A x \in Handles \ {wh} : m.rlist[x] = cut.rlist[x]

LEMMA PlacedFacts ==
  ASSUME NEW l, NEW wh \in Handles, NEW new \in Sized, NEW cut \in ListRecs,
         NEW m, m = Placed(l, wh, new, cut)
  PROVE  Alone(m, cut, wh, new)
<1>1. /\ cut.rlist \in [Handles -> Seq(Sized)] /\ cut.broken \in SUBSET Handles
      /\ cut.free \in Int /\ cut.least \in Int
  BY DEF ListRecs
<1>2. HasSize(new)
  BY Fields DEF HasSize
<1>3. m = [cut EXCEPT !.rlist = [cut.rlist EXCEPT ![wh] = <<new>>],
                      !.free = cut.free - 1, !.least = Smaller(cut.least, cut.free - 1)]
  BY <1>2 DEF Placed
<1> HIDE DEF Sized
<1>4. /\ m \in ListRecs /\ m.rlist = [cut.rlist EXCEPT ![wh] = <<new>>]
      /\ m.broken = cut.broken /\ m.free = cut.free - 1
  <2>1. [cut.rlist EXCEPT ![wh] = <<new>>] \in [Handles -> Seq(Sized)]
    BY <1>1
  <2>2. cut.free - 1 \in Int
    BY <1>1
  <2>3. Smaller(cut.least, cut.free - 1) \in Int
    BY <1>1, <2>2, SmallerInt
  <2> QED
    BY <1>1, <1>3, <2>1, <2>2, <2>3 DEF ListRecs
<1>5. m.rlist[wh] = <<new>> /\ \A x \in Handles \ {wh} : m.rlist[x] = cut.rlist[x]
  BY <1>1, <1>4
<1>6. ASSUME cut.rlist[wh] = <<>>
      PROVE  Pool(m) = Pool(cut)
  <2>1. m.free + Len(m.rlist[wh]) = cut.free + Len(cut.rlist[wh])
    <3>1. Len(m.rlist[wh]) = 1 /\ Len(cut.rlist[wh]) = 0
      BY <1>5, <1>6
    <3> QED
      BY <1>1, <1>4, <3>1
  <2>2. m \in ListRecs /\ \A x \in Handles \ {wh} : m.rlist[x] = cut.rlist[x]
    BY <1>4, <1>5
  <2> QED
    BY <2>1, <2>2, PoolStep
<1> QED
  BY <1>4, <1>5, <1>6 DEF Alone

(* wh has its place to itself, and the areas T of b are less by it.        *)
Over(new, l, m, wh, b, T) ==
  /\ m \in ListRecs /\ m.rlist[wh] = <<new>> /\ wh \notin m.broken
  /\ Pool(m) = Pool(l)
  /\ \A x \in Handles \ {wh} : (\A j \in 1 .. Len(b) : b[j] # x) => m.rlist[x] = l.rlist[x]
  /\ \A j \in 1 .. Len(b) :
       /\ Tiles(m.rlist[b[j]], T[b[j]] \ Area(new))
       /\ b[j] \in m.broken <=> b[j] \in l.broken \/ T[b[j]] \cap Area(new) # {}

(* Those of b own the areas T; wh is not among them.                       *)
Stacked(l, b, T, wh) ==
  /\ \A j \in 1 .. Len(b) : /\ b[j] \in Handles \ {wh}
                            /\ T[b[j]] \subseteq Points
                            /\ Tiles(l.rlist[b[j]], T[b[j]])
  /\ \A i, j \in 1 .. Len(b) : b[i] = b[j] => i = j

LEMMA NewrectFacts ==
  ASSUME NEW ord, NEW size, NEW l \in ListRecs, NEW wh \in Handles, NEW b,
         b = Below(ord, wh), Len(b) \in Nat, DOMAIN b = 1 .. Len(b), NEW T,
         NEW new \in Sized, new = TrueSize(size[wh]), Stacked(l, b, T, wh)
  PROVE  Over(new, l, newrect(ord, size, l, wh), wh, b, T)
<1> DEFINE d == Dump(l, wh)
           m == newrect(ord, size, l, wh)
<1>1. PICK cut : Runs(LayKind(new), d, b, cut) /\ m = Placed(l, wh, new, cut)
  BY NewrectRuns
<1>2. /\ d \in ListRecs
      /\ \A j \in 1 .. Len(b) : /\ d.rlist[b[j]] = l.rlist[b[j]]
                                /\ b[j] \in d.broken <=> b[j] \in l.broken
      /\ d.rlist[wh] = <<>> /\ wh \notin d.broken /\ Pool(d) = Pool(l)
      /\ \A x \in Handles \ {wh} : d.rlist[x] = l.rlist[x]
  <2>1. \A j \in 1 .. Len(b) : b[j] \in Handles \ {wh}
    BY DEF Stacked
  <2> QED
    BY <2>1, DumpFacts
<1> HIDE DEF m, d
<1>3. Covered(new, d, cut, b, T)
  <2>1. \A j \in 1 .. Len(b) : /\ b[j] \in Handles
                               /\ T[b[j]] \subseteq Points
                               /\ Tiles(d.rlist[b[j]], T[b[j]])
    BY <1>2 DEF Stacked
  <2>2. \A i, j \in 1 .. Len(b) : b[i] = b[j] => i = j
    BY DEF Stacked
  <2> QED
    BY <1>1, <1>2, <2>1, <2>2, LayFacts
<1>4. /\ cut \in ListRecs /\ wh \notin cut.broken /\ cut.rlist[wh] = <<>>
      /\ Pool(cut) = Pool(l)
      /\ \A x \in Handles \ {wh} : (\A j \in 1 .. Len(b) : b[j] # x) =>
           cut.rlist[x] = l.rlist[x]
      /\ \A j \in 1 .. Len(b) :
           /\ Tiles(cut.rlist[b[j]], T[b[j]] \ Area(new))
           /\ b[j] \in cut.broken <=> b[j] \in l.broken \/ T[b[j]] \cap Area(new) # {}
  <2>1. \A j \in 1 .. Len(b) : b[j] # wh
    BY DEF Stacked
  <2> QED
    BY <1>2, <1>3, <2>1 DEF Covered
<1>5. \A j \in 1 .. Len(b) : b[j] \in Handles \ {wh}
  BY DEF Stacked
<1>6. Alone(m, cut, wh, new)
  <2>1. cut \in ListRecs /\ m = Placed(l, wh, new, cut)
    BY <1>1, <1>4
  <2> QED
    BY <2>1, PlacedFacts
<1>7. Over(new, l, m, wh, b, T)
  BY <1>4, <1>5, <1>6 DEF Over, Alone
<1> QED
  BY <1>7 DEF m

(***************************************************************************)
(* everyobj() with newrect(): the lists of all windows.                    *)
(***************************************************************************)
Ordered(ord) ==
  /\ ord \in Seq(Windows)
  /\ \A i, j \in 1 .. Len(ord) : ord[i] = ord[j] => i = j

All(ord) == <<DESKWH>> \o ord

LEMMA AllFacts ==
  ASSUME NEW ord, Ordered(ord)
  PROVE  /\ Len(ord) \in Nat /\ DOMAIN ord = 1 .. Len(ord)
         /\ Len(All(ord)) = Len(ord) + 1
         /\ DOMAIN All(ord) = 1 .. Len(ord) + 1
         /\ All(ord)[1] = DESKWH
         /\ \A i \in 1 .. Len(ord) : ord[i] \in Windows /\ All(ord)[i + 1] = ord[i]
         /\ \A i \in 1 .. Len(ord) + 1 : All(ord)[i] \in Handles
         /\ \A i, j \in 1 .. Len(ord) + 1 : All(ord)[i] = All(ord)[j] => i = j
<1> DEFINE q == All(ord)
<1>1. /\ Len(ord) \in Nat /\ DOMAIN ord = 1 .. Len(ord)
      /\ \A i \in 1 .. Len(ord) : ord[i] \in Windows
  BY DEF Ordered
<1>2. /\ Len(q) = Len(ord) + 1 /\ DOMAIN q = 1 .. Len(ord) + 1
      /\ q[1] = DESKWH /\ \A i \in 1 .. Len(ord) : q[i + 1] = ord[i]
  <2>1. ord \in Seq(Windows)
    BY DEF Ordered
  <2> QED
    BY <2>1 DEF All
<1> HIDE DEF q
<1>3. ASSUME NEW i \in 1 .. Len(ord) + 1
      PROVE  \/ i = 1
             \/ i - 1 \in 1 .. Len(ord) /\ q[i] = ord[i - 1]
  <2>1. i = 1 \/ (i - 1 \in 1 .. Len(ord) /\ (i - 1) + 1 = i)
    BY <1>1
  <2> QED
    BY <2>1, <1>2
<1>4. \A i \in 1 .. Len(ord) + 1 : q[i] \in Handles
  BY <1>1, <1>2, <1>3 DEF Handles
<1>5. DESKWH \notin Windows
  BY DEF DESKWH, Windows
<1>6. ASSUME NEW i \in 1 .. Len(ord) + 1, NEW j \in 1 .. Len(ord) + 1, q[i] = q[j]
      PROVE  i = j
  <2>1. CASE i = 1 \/ j = 1
    BY <2>1, <1>1, <1>2, <1>3, <1>5, <1>6
  <2>2. CASE i # 1 /\ j # 1
    <3>1. /\ i - 1 \in 1 .. Len(ord) /\ j - 1 \in 1 .. Len(ord)
          /\ ord[i - 1] = ord[j - 1]
      BY <2>2, <1>3, <1>6
    <3>2. i - 1 = j - 1
      BY <3>1 DEF Ordered
    <3> QED
      BY <3>2
  <2> QED
    BY <2>1, <2>2
<1> QED
  BY <1>1, <1>2, <1>4, <1>6 DEF q

LEMMA PositionIs ==
  ASSUME NEW ord, Ordered(ord), NEW i \in 1 .. Len(ord)
  PROVE  Position(ord, ord[i]) = i /\ ord[i] \in Range(ord)
<1>1. DOMAIN ord = 1 .. Len(ord)
  BY AllFacts
<1>2. \A j \in DOMAIN ord : ord[j] = ord[i] <=> j = i
  BY <1>1 DEF Ordered
<1> QED
  BY <1>1, <1>2 DEF Position, Range

LEMMA BelowFacts ==
  ASSUME NEW ord, Ordered(ord), NEW i \in 1 .. Len(ord) + 1
  PROVE  LET b == Below(ord, All(ord)[i])
         IN  /\ Len(b) = i - 1 /\ DOMAIN b = 1 .. i - 1
             /\ \A j \in 1 .. i - 1 : b[j] = All(ord)[j]
<1> DEFINE q == All(ord)
           b == Below(ord, q[i])
<1>1. /\ Len(ord) \in Nat
      /\ q[1] = DESKWH
      /\ \A k \in 1 .. Len(ord) : ord[k] \in Windows /\ q[k + 1] = ord[k]
      /\ i \in Int /\ i >= 1 /\ i <= Len(ord) + 1
  BY AllFacts
<1> HIDE DEF q
<1>2. CASE i = 1
  <2>1. b = <<>>
    BY <1>1, <1>2 DEF Below
  <2> QED
    BY <2>1, <1>2 DEF q
<1>3. CASE i # 1
  <2> DEFINE s == SubSeq(ord, 1, i - 2)
  <2>1. /\ i - 1 \in 1 .. Len(ord) /\ i - 2 \in Nat /\ i - 2 <= Len(ord)
        /\ i - 1 - 1 = i - 2 /\ (i - 1) + 1 = i /\ (i - 2) + 1 = i - 1
    BY <1>1, <1>3
  <2>2. q[i] = ord[i - 1] /\ q[i] \in Windows
    BY <1>1, <2>1
  <2>3. Position(ord, q[i]) = i - 1 /\ q[i] \in Range(ord) /\ q[i] # DESKWH
    BY <2>1, <2>2, PositionIs DEF DESKWH, Windows
  <2>4. b = <<DESKWH>> \o s
    BY <2>1, <2>3 DEF Below
  <2>5. ord \in Seq(Windows)
    BY DEF Ordered
  <2>6. s \in Seq(Windows) /\ Len(s) = i - 2 /\ \A k \in 1 .. i - 2 : s[k] = ord[k]
    BY <2>1, <2>5
  <2> HIDE DEF s
  <2>7. /\ Len(b) = i - 1 /\ DOMAIN b = 1 .. i - 1 /\ b[1] = DESKWH
        /\ \A k \in 1 .. i - 2 : b[k + 1] = s[k]
    <3>1. LET t == <<DESKWH>> \o s
          IN  /\ Len(t) = i - 1 /\ DOMAIN t = 1 .. i - 1 /\ t[1] = DESKWH
              /\ \A k \in 1 .. i - 2 : t[k + 1] = s[k]
      BY <2>1, <2>6
    <3> QED
      BY <3>1, <2>4
  <2>8. ASSUME NEW j \in 1 .. i - 1
        PROVE  b[j] = q[j]
    <3>1. j = 1 \/ (j - 1 \in 1 .. i - 2 /\ (j - 1) + 1 = j /\ j - 1 \in 1 .. Len(ord))
      BY <2>1, <1>1
    <3> QED
      BY <3>1, <2>6, <2>7, <1>1
  <2> QED
    BY <2>7, <2>8 DEF q
<1> QED
  BY <1>2, <1>3

NextKind(ord, size) == [kind |-> "next", ord |-> ord, size |-> size]

LEMMA RebuildRuns ==
  ASSUME NEW ord, NEW size, NEW l, NEW s, s = All(ord),
         Len(s) \in Nat, DOMAIN s = 1 .. Len(s)
  PROVE  Runs(NextKind(ord, size), l, s, Rebuild(ord, size, l))
<1> DEFINE n == Len(s)
           E(g) == [u \in SUBSET (1 .. n) |->
                      IF u = {} THEN l
                      ELSE newrect(ord, size, g[u \ {Max(u)}], s[Max(u)])]
           it == CHOOSE g : g = E(g)
<1>1. PICK g : Ran(NextKind(ord, size), l, s, SUBSET (1 .. n), g)
  BY RunExists
<1>2. ASSUME NEW h
      PROVE  [u \in SUBSET (1 .. n) |-> RunStep(NextKind(ord, size), l, s, h, u)] = E(h)
  BY DEF RunStep, Step, NextKind
<1>3. g = E(g)
  BY <1>1, <1>2 DEF Ran
<1>4. Rebuild(ord, size, l) = it[1 .. n]
  BY DEF Rebuild, FoldLeft, MapThenFoldSet, All
<1> HIDE DEF E
<1>5. it = E(it)
  BY <1>3
<1> HIDE DEF it, n
<1>6. Ran(NextKind(ord, size), l, s, SUBSET (1 .. n), it)
  BY <1>2, <1>5 DEF Ran
<1>7. Runs(NextKind(ord, size), l, s, it[1 .. n])
  BY <1>6 DEF Runs, n
<1> QED
  BY <1>4, <1>7

Place(ord, size, j) == TrueSize(size[All(ord)[j]])

(* What those up to i leave of the j-th.                                   *)
Visible(ord, size, i, j) ==
  {p \in Points : /\ inside(p, Place(ord, size, j))
                  /\ ~ \E m \in j + 1 .. i : inside(p, Place(ord, size, m))}

Overlaid(ord, size, i, j) ==
  \E m \in j + 1 .. i : Overlap(Place(ord, size, m), Place(ord, size, j))

(* The lists of the first i are right.                                     *)
Right(ord, size, i, l) ==
  \A j \in 1 .. i :
    /\ Tiles(l.rlist[All(ord)[j]], Visible(ord, size, i, j))
    /\ All(ord)[j] \in l.broken <=> Overlaid(ord, size, i, j)

LEMMA VisibleFacts ==
  ASSUME NEW ord, NEW size, NEW n \in Nat, \A j \in 1 .. n : Place(ord, size, j) \in Sized,
         NEW i \in 1 .. n
  PROVE  /\ Visible(ord, size, i, i) = Area(Place(ord, size, i))
         /\ ~Overlaid(ord, size, i, i)
         /\ \A j \in 1 .. i - 1 :
              /\ Visible(ord, size, i, j)
                   = Visible(ord, size, i - 1, j) \ Area(Place(ord, size, i))
              /\ Overlaid(ord, size, i, j)
                   <=> \/ Overlaid(ord, size, i - 1, j)
                       \/ Visible(ord, size, i - 1, j) \cap Area(Place(ord, size, i)) # {}
<1> DEFINE T(j) == Place(ord, size, j)
           V(k, j) == Visible(ord, size, k, j)
<1>1. i + 1 .. i = {}
  OBVIOUS
<1>2. V(i, i) = Area(T(i)) /\ ~Overlaid(ord, size, i, i)
  BY <1>1 DEF Visible, Area, Overlaid
<1>3. ASSUME NEW j \in 1 .. i - 1
      PROVE  /\ V(i, j) = V(i - 1, j) \ Area(T(i))
             /\ Overlaid(ord, size, i, j)
                  <=> Overlaid(ord, size, i - 1, j) \/ V(i - 1, j) \cap Area(T(i)) # {}
  <2> HIDE DEF T
  <2>1. /\ \A m : m \in j + 1 .. i <=> (m \in j + 1 .. i - 1 \/ m = i)
        /\ \A m \in j + 1 .. i : m \in 1 .. n
        /\ j \in 1 .. n
    OBVIOUS
  <2>2. V(i, j) = V(i - 1, j) \ Area(T(i))
    BY <2>1 DEF Visible, Area, T
  <2>3. \A m \in 1 .. n : T(m) \in Sized
    BY DEF T
  <2>4. \A m \in 1 .. n : Overlap(T(m), T(j)) <=> Area(T(m)) \cap Area(T(j)) # {}
    BY <2>1, <2>3, OverlapMeets
  <2>5. Overlaid(ord, size, i, j)
          <=> Overlaid(ord, size, i - 1, j) \/ Overlap(T(i), T(j))
    BY <2>1 DEF Overlaid, T
  <2>6. V(i - 1, j) \subseteq Area(T(j))
    BY DEF Visible, Area, T
  <2>7. ASSUME NEW p \in Area(T(i)) \cap Area(T(j)), p \notin V(i - 1, j)
        PROVE  Overlaid(ord, size, i - 1, j)
    <3>1. PICK m \in j + 1 .. i - 1 : inside(p, T(m))
      BY <2>7 DEF Visible, Area, T
    <3>2. p \in Area(T(m)) \cap Area(T(j)) /\ m \in 1 .. n
      BY <3>1, <2>1 DEF Area
    <3>3. Overlap(T(m), T(j))
      BY <3>2, <2>4
    <3> QED
      BY <3>3 DEF Overlaid, T
  <2>8. i \in 1 .. n
    OBVIOUS
  <2> QED
    BY <2>2, <2>4, <2>5, <2>6, <2>7, <2>8
<1> QED
  BY <1>2, <1>3

Stepped(ord, size, i, y, z) ==
  /\ z \in ListRecs /\ Right(ord, size, i, z) /\ Pool(z) = Pool(y)
  /\ \A x \in Handles : (\A j \in 1 .. i : All(ord)[j] # x) => z.rlist[x] = y.rlist[x]

LEMMA NextRight ==
  ASSUME NEW ord, Ordered(ord), NEW size, NEW y \in ListRecs, NEW i \in 1 .. Len(ord) + 1,
         \A j \in 1 .. Len(ord) + 1 : Place(ord, size, j) \in Sized,
         Right(ord, size, i - 1, y), NEW z, z = newrect(ord, size, y, All(ord)[i])
  PROVE  Stepped(ord, size, i, y, z)
<1> DEFINE q == All(ord)
           new == Place(ord, size, i)
           b == Below(ord, q[i])
           T == [x \in Handles |->
                   Visible(ord, size, i - 1, CHOOSE j \in 1 .. i - 1 : q[j] = x)]
<1>1. /\ Len(ord) \in Nat
      /\ \A j \in 1 .. Len(ord) + 1 : q[j] \in Handles
      /\ \A j, k \in 1 .. Len(ord) + 1 : q[j] = q[k] => j = k
      /\ i \in Int /\ i >= 1 /\ i <= Len(ord) + 1
  BY AllFacts
<1>2. /\ Len(b) = i - 1 /\ DOMAIN b = 1 .. i - 1
      /\ \A j \in 1 .. i - 1 : b[j] = q[j]
  BY BelowFacts
<1>3. /\ \A j \in 1 .. i - 1 : j \in 1 .. Len(ord) + 1 /\ j # i
      /\ \A j : j \in 1 .. i <=> (j \in 1 .. i - 1 \/ j = i)
      /\ i - 1 \in Nat /\ Len(ord) + 1 \in Nat
  BY <1>1
<1> HIDE DEF q, b
<1>4. ASSUME NEW j \in 1 .. i - 1
      PROVE  T[q[j]] = Visible(ord, size, i - 1, j)
  <2>1. q[j] \in Handles /\ \A k \in 1 .. i - 1 : q[k] = q[j] <=> k = j
    BY <1>1, <1>3
  <2>2. (CHOOSE k \in 1 .. i - 1 : q[k] = q[j]) = j
    BY <2>1
  <2> QED
    BY <2>1, <2>2
<1> HIDE DEF T
<1>5. Stacked(y, b, T, q[i])
  <2>1. ASSUME NEW j \in 1 .. Len(b)
        PROVE  /\ b[j] \in Handles \ {q[i]}
               /\ T[b[j]] \subseteq Points
               /\ Tiles(y.rlist[b[j]], T[b[j]])
    <3>1. j \in 1 .. i - 1 /\ b[j] = q[j] /\ T[b[j]] = Visible(ord, size, i - 1, j)
      BY <1>2, <1>4
    <3>2. q[j] \in Handles /\ q[j] # q[i]
      BY <3>1, <1>1, <1>3
    <3>3. Tiles(y.rlist[q[j]], Visible(ord, size, i - 1, j))
      BY <3>1 DEF Right, q
    <3> QED
      BY <3>1, <3>2, <3>3 DEF Visible
  <2>2. \A j, k \in 1 .. Len(b) : b[j] = b[k] => j = k
    BY <1>1, <1>2, <1>3
  <2> QED
    BY <2>1, <2>2 DEF Stacked
<1>6. Over(new, y, z, q[i], b, T)
  <2>1. /\ q[i] \in Handles /\ new \in Sized /\ new = TrueSize(size[q[i]])
        /\ b = Below(ord, q[i]) /\ Len(b) \in Nat /\ DOMAIN b = 1 .. Len(b)
        /\ z = newrect(ord, size, y, q[i])
    BY <1>1, <1>2, <1>3 DEF Place, q, b
  <2> HIDE DEF new
  <2> QED
    BY <2>1, <1>5, NewrectFacts
<1>7. /\ Visible(ord, size, i, i) = Area(new)
      /\ ~Overlaid(ord, size, i, i)
      /\ \A j \in 1 .. i - 1 :
           /\ Visible(ord, size, i, j) = Visible(ord, size, i - 1, j) \ Area(new)
           /\ Overlaid(ord, size, i, j)
                <=> \/ Overlaid(ord, size, i - 1, j)
                    \/ Visible(ord, size, i - 1, j) \cap Area(new) # {}
  <2> DEFINE n == Len(ord) + 1
  <2>1. n \in Nat /\ i \in 1 .. n /\ \A j \in 1 .. n : Place(ord, size, j) \in Sized
    BY <1>3
  <2> HIDE DEF n
  <2> QED
    BY <2>1, VisibleFacts
<1> HIDE DEF new
<1>8. ASSUME NEW j \in 1 .. i
      PROVE  /\ Tiles(z.rlist[q[j]], Visible(ord, size, i, j))
             /\ q[j] \in z.broken <=> Overlaid(ord, size, i, j)
  <2>1. CASE j = i
    <3>1. Tiles(<<new>>, Area(new))
      BY TilesOne DEF new
    <3> QED
      BY <2>1, <3>1, <1>6, <1>7 DEF Over
  <2>2. CASE j \in 1 .. i - 1
    <3>1. /\ Tiles(z.rlist[b[j]], T[b[j]] \ Area(new))
          /\ b[j] \in z.broken <=> b[j] \in y.broken \/ T[b[j]] \cap Area(new) # {}
      BY <2>2, <1>2, <1>6 DEF Over
    <3>2. q[j] \in y.broken <=> Overlaid(ord, size, i - 1, j)
      BY <2>2 DEF Right, q
    <3>3. b[j] = q[j] /\ T[q[j]] = Visible(ord, size, i - 1, j)
      BY <2>2, <1>2, <1>4
    <3> QED
      BY <2>2, <3>1, <3>2, <3>3, <1>7
  <2> QED
    BY <2>1, <2>2, <1>3
<1>9. z \in ListRecs /\ Pool(z) = Pool(y)
  BY <1>6 DEF Over
<1>10. \A x \in Handles : (\A j \in 1 .. i : q[j] # x) => z.rlist[x] = y.rlist[x]
  <2>1. \A j \in 1 .. Len(b) : j \in 1 .. i /\ b[j] = q[j]
    BY <1>2, <1>3
  <2>2. i \in 1 .. i
    BY <1>1
  <2> QED
    BY <2>1, <2>2, <1>6 DEF Over
<1> QED
  BY <1>8, <1>9, <1>10 DEF Stepped, Right, q

LEMMA RebuildFacts ==
  ASSUME NEW ord, Ordered(ord), NEW size, NEW l \in ListRecs,
         \A j \in 1 .. Len(ord) + 1 : Place(ord, size, j) \in Sized
  PROVE  /\ Rebuild(ord, size, l) \in ListRecs
         /\ Right(ord, size, Len(ord) + 1, Rebuild(ord, size, l))
         /\ Pool(Rebuild(ord, size, l)) = Pool(l)
         /\ \A x \in Handles : (\A j \in 1 .. Len(ord) + 1 : All(ord)[j] # x) =>
              Rebuild(ord, size, l).rlist[x] = l.rlist[x]
<1> DEFINE s == All(ord)
           n == Len(s)
           k == NextKind(ord, size)
           m == Rebuild(ord, size, l)
           Rest(i, y) == \A x \in Handles : (\A j \in 1 .. i : s[j] # x) =>
                           y.rlist[x] = l.rlist[x]
           So(i, y) == Right(ord, size, i, y) /\ Pool(y) = Pool(l) /\ Rest(i, y)
           R == {x \in (0 .. n) \X ListRecs : So(x[1], x[2])}
<1>1. n = Len(ord) + 1 /\ n \in Nat /\ DOMAIN s = 1 .. n
  BY AllFacts
<1> HIDE DEF k, m, s
<1>2. Runs(k, l, s, m)
  BY <1>1, RebuildRuns DEF k, m, s
<1> HIDE DEF n
<1>3. <<0, l>> \in R
  <2>1. So(0, l)
    BY DEF Right
  <2> QED
    BY <2>1, <1>1
<1>4. ASSUME NEW i \in 1 .. n, NEW y, <<i - 1, y>> \in R
      PROVE  <<i, Step(k, y, s[i])>> \in R
  <2> DEFINE z == newrect(ord, size, y, s[i])
  <2>1. y \in ListRecs /\ So(i - 1, y) /\ i \in 0 .. n
        /\ i \in 1 .. Len(ord) + 1
    BY <1>4, <1>1
  <2> HIDE DEF z
  <2>2. /\ z \in ListRecs /\ Right(ord, size, i, z) /\ Pool(z) = Pool(y)
        /\ \A x \in Handles : (\A j \in 1 .. i : s[j] # x) => z.rlist[x] = y.rlist[x]
    <3>1. Right(ord, size, i - 1, y)
      BY <2>1
    <3>2. z = newrect(ord, size, y, All(ord)[i])
      BY DEF z, s
    <3> HIDE DEF So, R
    <3>3. Stepped(ord, size, i, y, z)
      BY <2>1, <3>1, <3>2, NextRight
    <3> QED
      BY <3>3 DEF Stepped, s
  <2>4. Rest(i, z)
    <3>1. \A j \in 1 .. i - 1 : j \in 1 .. i
      OBVIOUS
    <3> QED
      BY <2>1, <2>2, <3>1
  <2>5. So(i, z)
    BY <2>1, <2>2, <2>4
  <2>3. Step(k, y, s[i]) = z
    BY DEF Step, k, NextKind, z
  <2> HIDE DEF So
  <2> QED
    BY <2>1, <2>2, <2>3, <2>5
<1>5. <<n, m>> \in R
  <2> HIDE DEF R
  <2>1. ASSUME NEW i \in 1 .. Len(s), NEW y, <<i - 1, y>> \in R
        PROVE  <<i, Step(k, y, s[i])>> \in R
    BY <1>4, <2>1 DEF n
  <2>2. Len(s) \in Nat
    BY <1>1 DEF n
  <2>3. <<Len(s), m>> \in R
    BY <1>2, <1>3, <2>1, <2>2, RunReach, Zenon
  <2> QED
    BY <2>3 DEF n
<1>6. m \in ListRecs /\ So(n, m)
  BY <1>5
<1> QED
  BY <1>1, <1>6 DEF m, s

(***************************************************************************)
(* From the lists to the pixels.                                           *)
(***************************************************************************)
LEMMA TilesCount ==
  ASSUME NEW s, NEW A, Tiles(s, A), NEW p \in Points
  PROVE  /\ \A i \in DOMAIN s : s[i].w > 0 /\ s[i].h > 0
         /\ Cardinality({i \in DOMAIN s : inside(p, s[i])}) = IF p \in A THEN 1 ELSE 0
<1>1. s \in Seq(Sized)
  BY DEF Tiles
<1>2. DOMAIN s = 1 .. Len(s) /\ \A i \in DOMAIN s : s[i] \in Sized
  <2> HIDE DEF Sized
  <2> QED
    BY <1>1
<1> DEFINE I == {i \in DOMAIN s : inside(p, s[i])}
<1>3. CASE p \in A
  <2>1. PICK i \in 1 .. Len(s) : inside(p, s[i])
    BY <1>3 DEF Tiles
  <2>2. \A j \in 1 .. Len(s) : inside(p, s[j]) => j = i
    BY <2>1 DEF Tiles
  <2>3. I = {i}
    BY <1>2, <2>1, <2>2
  <2>4. Cardinality({i}) = 1
    BY FS_Singleton
  <2> QED
    BY <1>2, <1>3, <2>3, <2>4, Fields
<1>4. CASE p \notin A
  <2>1. \A i \in 1 .. Len(s) : ~inside(p, s[i])
    BY <1>4 DEF Tiles
  <2>2. I = {}
    BY <1>2, <2>1
  <2>3. Cardinality({}) = 0
    BY FS_EmptySet
  <2> QED
    BY <1>2, <1>4, <2>2, <2>3, Fields
<1> QED
  BY <1>3, <1>4

LEMMA ScreenFacts ==
  /\ Width \in Nat /\ Height \in Nat /\ MenuHeight \in Nat /\ Shadow \in Nat
  /\ Width > 0 /\ MenuHeight < Height
  /\ gl_rscreen \in Sized /\ gl_rfull \in Sized
  /\ Screen \subseteq Points
  /\ \A p \in Screen : inside(p, TrueSize(gl_rscreen)) /\ inside(p, gl_rfull)
  /\ \A p \in Points : inside(p, gl_rfull) => p \in Screen
<1>1. /\ Width \in Nat /\ Height \in Nat /\ MenuHeight \in Nat /\ Shadow \in Nat
      /\ Width > 0 /\ MenuHeight < Height
  BY WindowRectsAssumption
<1>2. /\ gl_rscreen = [x |-> 0, y |-> 0, w |-> Width, h |-> Height]
      /\ gl_rfull = [x |-> 0, y |-> MenuHeight, w |-> Width, h |-> Height - MenuHeight]
  BY DEF gl_rscreen, gl_rfull, Rect
<1>3. gl_rscreen \in Sized /\ gl_rfull \in Sized
  BY <1>1, <1>2 DEF Sized, GRECT
<1>4. TrueSize(gl_rscreen) = [x |-> 0, y |-> 0, w |-> Width + Shadow, h |-> Height + Shadow]
  <2>1. HasSize(gl_rscreen)
    BY <1>1, <1>2 DEF HasSize
  <2>2. TrueSize(gl_rscreen) = [gl_rscreen EXCEPT !.w = gl_rscreen.w + Shadow,
                                                  !.h = gl_rscreen.h + Shadow]
    BY <2>1 DEF TrueSize, Grow
  <2> QED
    BY <2>2, <1>2
<1>5. ASSUME NEW p \in Screen
      PROVE  /\ p \in Points
             /\ inside(p, TrueSize(gl_rscreen)) /\ inside(p, gl_rfull)
  <2>1. /\ p[1] \in Int /\ p[1] >= 0 /\ p[1] < Width
        /\ p[2] \in Int /\ p[2] >= MenuHeight /\ p[2] < Height /\ p \in Points
    BY <1>1 DEF Screen, Points
  <2>2. inside(p, gl_rfull)
    BY <2>1, <1>1, <1>2 DEF inside
  <2>3. inside(p, TrueSize(gl_rscreen))
    BY <2>1, <1>1, <1>4 DEF inside
  <2> QED
    BY <2>1, <2>2, <2>3
<1>6. ASSUME NEW p \in Points, inside(p, gl_rfull)
      PROVE  p \in Screen
  <2>1. p[1] \in Int /\ p[2] \in Int /\ p = <<p[1], p[2]>>
    BY DEF Points
  <2>2. p[1] \in 0 .. Width - 1 /\ p[2] \in MenuHeight .. Height - 1
    BY <2>1, <1>1, <1>2, <1>6 DEF inside
  <2> QED
    BY <2>1, <2>2 DEF Screen
<1> QED
  BY <1>1, <1>3, <1>5, <1>6

LEMMA TrueSizeFacts ==
  ASSUME NEW r \in Sized
  PROVE  TrueSize(r) \in Sized
<1>1. r.x \in Int /\ r.y \in Int /\ r.w \in Int /\ r.h \in Int /\ r.w > 0 /\ r.h > 0
      /\ r \in GRECT
  BY Fields DEF Sized
<1>2. TrueSize(r) = [r EXCEPT !.w = r.w + Shadow, !.h = r.h + Shadow]
  BY <1>1 DEF TrueSize, HasSize, Grow
<1>3. Shadow \in Nat
  BY ScreenFacts
<1>4. r.w + Shadow \in Int /\ r.h + Shadow \in Int /\ r.w + Shadow > 0 /\ r.h + Shadow > 0
  BY <1>1, <1>3
<1>5. TrueSize(r) = [x |-> r.x, y |-> r.y, w |-> r.w + Shadow, h |-> r.h + Shadow]
  BY <1>1, <1>2 DEF GRECT
<1> QED
  BY <1>1, <1>4, <1>5 DEF Sized, GRECT

(* Owner() and OwnersExact of any order, sizes and lists.                  *)
OwnerOf(ord, over) ==
  IF over = {} THEN DESKWH ELSE ord[CHOOSE i \in over : \A j \in over : j <= i]

OwnerIn(ord, size, p) ==
  OwnerOf(ord, {i \in DOMAIN ord : inside(p, TrueSize(size[ord[i]]))})

LEMMA OwnerFacts ==
  ASSUME NEW ord, Ordered(ord), NEW size, size[DESKWH] = gl_rscreen,
         NEW p \in Screen, NEW j \in 1 .. Len(ord) + 1
  PROVE  p \in Visible(ord, size, Len(ord) + 1, j) <=> All(ord)[j] = OwnerIn(ord, size, p)
<1> DEFINE q == All(ord)
           n == Len(ord)
           T(m) == Place(ord, size, m)
           over == {i \in DOMAIN ord : inside(p, TrueSize(size[ord[i]]))}
<1>1. /\ n \in Nat /\ DOMAIN ord = 1 .. n /\ q[1] = DESKWH
      /\ \A i \in 1 .. n : q[i + 1] = ord[i] /\ i + 1 \in 1 .. n + 1
      /\ \A i, k \in 1 .. n + 1 : q[i] = q[k] => i = k
      /\ 1 \in 1 .. n + 1 /\ j \in 1 .. n + 1 /\ j \in Int /\ j >= 1 /\ j <= n + 1
  BY AllFacts
<1>2. p \in Points /\ inside(p, TrueSize(gl_rscreen))
  BY ScreenFacts
<1> HIDE DEF q, n
<1>3. p \in Visible(ord, size, n + 1, j)
        <=> inside(p, T(j)) /\ \A m \in j + 1 .. n + 1 : ~inside(p, T(m))
  BY <1>2 DEF Visible
<1>4. /\ inside(p, T(1))
      /\ \A i \in 1 .. n : i \in over <=> inside(p, T(i + 1))
  BY <1>1, <1>2 DEF Place, q
<1>5. over \subseteq 1 .. n
  BY <1>1
<1> HIDE DEF over, T
<1>6. CASE over = {}
  <2>1. OwnerIn(ord, size, p) = q[1]
    BY <1>1, <1>6 DEF OwnerIn, OwnerOf, over
  <2>2. ASSUME NEW m \in 1 .. n + 1, m # 1
        PROVE  ~inside(p, T(m))
    <3>1. m - 1 \in 1 .. n /\ (m - 1) + 1 = m
      BY <2>2, <1>1
    <3> QED
      BY <3>1, <1>4, <1>6
  <2>3. \A m \in 2 .. n + 1 : m \in 1 .. n + 1 /\ m # 1
    BY <1>1
  <2>4. 1 + 1 = 2
    OBVIOUS
  <2>5. j = 1 <=> p \in Visible(ord, size, n + 1, j)
    <3>1. CASE j = 1
      BY <3>1, <1>3, <1>4, <2>2, <2>3, <2>4
    <3>2. CASE j # 1
      BY <3>2, <1>1, <1>3, <2>2
    <3> QED
      BY <3>1, <3>2
  <2>6. j = 1 <=> q[j] = q[1]
    BY <1>1
  <2> QED
    BY <2>1, <2>5, <2>6 DEF q, n
<1>7. CASE over # {}
  <2>1. over \in SUBSET (1 .. n)
    BY <1>5
  <2>2. \E i \in over : \A k \in over : k <= i
    <3>1. Max(over) \in over /\ \A k \in over : k <= Max(over)
      BY <1>1, <1>7, <2>1, MaxFacts
    <3> QED
      BY <3>1
  <2>3. PICK i \in over : /\ \A k \in over : k <= i
                          /\ OwnerIn(ord, size, p) = ord[i]
    <3> DEFINE i == CHOOSE i \in over : \A k \in over : k <= i
    <3>1. i \in over /\ \A k \in over : k <= i
      BY <2>2
    <3>2. OwnerIn(ord, size, p) = ord[i]
      BY <1>7 DEF OwnerIn, OwnerOf, over
    <3> QED
      BY <3>1, <3>2
  <2>4. i \in 1 .. n /\ i + 1 \in 1 .. n + 1 /\ q[i + 1] = ord[i]
    BY <2>1, <1>1
  <2>5. inside(p, T(i + 1))
    BY <2>4, <1>4
  <2>6. ASSUME NEW m \in 1 .. n + 1, m > i + 1
        PROVE  ~inside(p, T(m))
    <3>1. m - 1 \in 1 .. n /\ (m - 1) + 1 = m /\ ~(m - 1 <= i)
      BY <2>4, <2>6, <1>1
    <3>2. m - 1 \notin over
      BY <2>3, <3>1
    <3> QED
      BY <3>1, <3>2, <1>4
  <2>7. ASSUME j = i + 1
        PROVE  p \in Visible(ord, size, n + 1, j)
    <3>1. \A m \in j + 1 .. n + 1 : m \in 1 .. n + 1 /\ m > i + 1
      BY <2>4, <2>7, <1>1
    <3> QED
      BY <3>1, <1>3, <2>5, <2>6, <2>7
  <2>8. ASSUME p \in Visible(ord, size, n + 1, j)
        PROVE  j = i + 1
    <3>1. ~(i + 1 \in j + 1 .. n + 1)
      BY <1>3, <2>5, <2>8
    <3>2. ~(j > i + 1)
      BY <1>1, <1>3, <2>6, <2>8
    <3> QED
      BY <3>1, <3>2, <2>4, <1>1
  <2>9. q[j] = q[i + 1] <=> j = i + 1
    BY <1>1, <2>4
  <2> QED
    BY <2>3, <2>4, <2>7, <2>8, <2>9 DEF q, n
<1> QED
  BY <1>6, <1>7

(* OwnersExact of any order, sizes and lists.                              *)
Exact(ord, size, l) ==
  /\ \A h \in {DESKWH} \cup Range(ord) :
       \A i \in DOMAIN l.rlist[h] : l.rlist[h][i].w > 0 /\ l.rlist[h][i].h > 0
  /\ \A p \in Screen : \A h \in {DESKWH} \cup Range(ord) :
       Cardinality({i \in DOMAIN l.rlist[h] : inside(p, l.rlist[h][i])})
         = IF h = OwnerIn(ord, size, p) THEN 1 ELSE 0
  /\ \A i \in DOMAIN ord :
       ord[i] \in l.broken
         <=> \E j \in i + 1 .. Len(ord) :
               Overlap(TrueSize(size[ord[j]]), TrueSize(size[ord[i]]))

LEMMA NowExact == OwnersExact <=> Exact(order, curr, lists)
<1>1. Now.order = order /\ Now.size = curr
  BY DEF Now, Tree
<1>2. \A p : Owner(Now, p) = OwnerIn(order, curr, p)
  BY <1>1 DEF Owner, OwnerIn, OwnerOf
<1> QED
  BY <1>2 DEF OwnersExact, Exact

LEMMA HandleOf ==
  ASSUME NEW ord, Ordered(ord), NEW h \in {DESKWH} \cup Range(ord)
  PROVE  \E j \in 1 .. Len(ord) + 1 : h = All(ord)[j]
<1>1. /\ Len(ord) \in Nat /\ DOMAIN ord = 1 .. Len(ord) /\ All(ord)[1] = DESKWH
      /\ \A i \in 1 .. Len(ord) : All(ord)[i + 1] = ord[i]
  BY AllFacts
<1>2. CASE h = DESKWH
  BY <1>1, <1>2
<1>3. CASE h \in Range(ord)
  <2>1. PICK i \in 1 .. Len(ord) : h = ord[i]
    BY <1>1, <1>3 DEF Range
  <2>2. i + 1 \in 1 .. Len(ord) + 1
    BY <1>1
  <2> QED
    BY <2>1, <2>2, <1>1
<1> QED
  BY <1>2, <1>3

LEMMA RightExact ==
  ASSUME NEW ord, Ordered(ord), NEW size, size[DESKWH] = gl_rscreen,
         NEW l \in ListRecs, Right(ord, size, Len(ord) + 1, l)
  PROVE  Exact(ord, size, l)
<1> DEFINE n == Len(ord)
           q == All(ord)
           V(j) == Visible(ord, size, n + 1, j)
<1>1. /\ n \in Nat /\ DOMAIN ord = 1 .. n
      /\ \A i \in 1 .. n : q[i + 1] = ord[i] /\ i + 1 \in 1 .. n + 1
  BY AllFacts
<1>2. \A j \in 1 .. n + 1 : /\ Tiles(l.rlist[q[j]], V(j))
                            /\ q[j] \in l.broken <=> Overlaid(ord, size, n + 1, j)
  BY DEF Right
<1> HIDE DEF q, n, V
<1>3. ASSUME NEW h \in {DESKWH} \cup Range(ord), NEW p \in Screen
      PROVE  /\ \A i \in DOMAIN l.rlist[h] : l.rlist[h][i].w > 0 /\ l.rlist[h][i].h > 0
             /\ Cardinality({i \in DOMAIN l.rlist[h] : inside(p, l.rlist[h][i])})
                  = IF h = OwnerIn(ord, size, p) THEN 1 ELSE 0
  <2>1. PICK j \in 1 .. n + 1 : h = q[j]
    BY HandleOf DEF n, q
  <2>2. p \in Points
    BY ScreenFacts
  <2>3. Tiles(l.rlist[h], V(j))
    BY <1>2, <2>1
  <2>4. p \in V(j) <=> h = OwnerIn(ord, size, p)
    BY <2>1, OwnerFacts DEF n, q, V
  <2>5. /\ \A i \in DOMAIN l.rlist[h] : l.rlist[h][i].w > 0 /\ l.rlist[h][i].h > 0
        /\ Cardinality({i \in DOMAIN l.rlist[h] : inside(p, l.rlist[h][i])})
             = IF p \in V(j) THEN 1 ELSE 0
    BY <2>2, <2>3, TilesCount, Zenon
  <2> QED
    BY <2>4, <2>5
<1>4. \E p : p \in Screen
  <2>1. 0 \in 0 .. Width - 1 /\ MenuHeight \in MenuHeight .. Height - 1
    BY ScreenFacts
  <2>2. <<0, MenuHeight>> \in (0 .. Width - 1) \X (MenuHeight .. Height - 1)
    BY <2>1
  <2> QED
    BY <2>2 DEF Screen
<1>5. ASSUME NEW i \in DOMAIN ord
      PROVE  ord[i] \in l.broken
               <=> \E j \in i + 1 .. Len(ord) :
                     Overlap(TrueSize(size[ord[j]]), TrueSize(size[ord[i]]))
  <2> DEFINE T(m) == Place(ord, size, m)
  <2>1. i \in 1 .. n /\ q[i + 1] = ord[i] /\ i + 1 \in 1 .. n + 1
    BY <1>1
  <2>2. ord[i] \in l.broken <=> \E m \in (i + 1) + 1 .. n + 1 : Overlap(T(m), T(i + 1))
    BY <1>2, <2>1 DEF Overlaid
  <2>3. \A j \in 1 .. n : T(j + 1) = TrueSize(size[ord[j]])
    BY <1>1 DEF Place, q
  <2> HIDE DEF T
  <2>4. ASSUME NEW m \in (i + 1) + 1 .. n + 1
        PROVE  m - 1 \in i + 1 .. n /\ m - 1 \in 1 .. n /\ T(m) = TrueSize(size[ord[m - 1]])
    <3>1. m - 1 \in i + 1 .. n /\ m - 1 \in 1 .. n /\ (m - 1) + 1 = m
      BY <2>1, <1>1
    <3> QED
      BY <3>1, <2>3
  <2>5. ASSUME NEW j \in i + 1 .. n
        PROVE  j + 1 \in (i + 1) + 1 .. n + 1 /\ T(j + 1) = TrueSize(size[ord[j]])
    <3>1. j + 1 \in (i + 1) + 1 .. n + 1 /\ j \in 1 .. n
      BY <2>1, <1>1
    <3> QED
      BY <3>1, <2>3
  <2>6. T(i + 1) = TrueSize(size[ord[i]])
    BY <2>1, <2>3
  <2>7. (\E m \in (i + 1) + 1 .. n + 1 : Overlap(T(m), T(i + 1)))
          <=> \E j \in i + 1 .. n :
                Overlap(TrueSize(size[ord[j]]), TrueSize(size[ord[i]]))
    BY <2>4, <2>5, <2>6
  <2> QED
    BY <2>2, <2>7 DEF n
<1> QED
  BY <1>3, <1>4, <1>5 DEF Exact

LEMMA ExactSame ==
  ASSUME NEW ord, Ordered(ord), NEW size, NEW l, Exact(ord, size, l),
         NEW size2, NEW l2,
         \A h \in {DESKWH} \cup Range(ord) :
           /\ l2.rlist[h] = l.rlist[h] /\ size2[h] = size[h]
           /\ h \in l2.broken <=> h \in l.broken
  PROVE  Exact(ord, size2, l2)
<1>1. \A i \in DOMAIN ord : ord[i] \in {DESKWH} \cup Range(ord)
  BY DEF Range
<1>2. \A i \in DOMAIN ord : size2[ord[i]] = size[ord[i]]
                            /\ (ord[i] \in l2.broken <=> ord[i] \in l.broken)
  BY <1>1
<1>3. \A p : OwnerIn(ord, size2, p) = OwnerIn(ord, size, p)
  <2> TAKE p
  <2>1. {i \in DOMAIN ord : inside(p, TrueSize(size2[ord[i]]))}
          = {i \in DOMAIN ord : inside(p, TrueSize(size[ord[i]]))}
    BY <1>2
  <2> QED
    BY <2>1 DEF OwnerIn
<1>4. \A h \in {DESKWH} \cup Range(ord) :
        \A i \in DOMAIN l2.rlist[h] : l2.rlist[h][i].w > 0 /\ l2.rlist[h][i].h > 0
  BY DEF Exact
<1>5. ASSUME NEW p \in Screen, NEW h \in {DESKWH} \cup Range(ord)
      PROVE  Cardinality({i \in DOMAIN l2.rlist[h] : inside(p, l2.rlist[h][i])})
               = IF h = OwnerIn(ord, size2, p) THEN 1 ELSE 0
  <2>1. l2.rlist[h] = l.rlist[h]
    OBVIOUS
  <2>2. Cardinality({i \in DOMAIN l.rlist[h] : inside(p, l.rlist[h][i])})
          = IF h = OwnerIn(ord, size, p) THEN 1 ELSE 0
    BY DEF Exact
  <2> QED
    BY <2>1, <2>2, <1>3
<1>6. ASSUME NEW i \in DOMAIN ord
      PROVE  ord[i] \in l2.broken
               <=> \E j \in i + 1 .. Len(ord) :
                     Overlap(TrueSize(size2[ord[j]]), TrueSize(size2[ord[i]]))
  <2>1. \A j \in i + 1 .. Len(ord) : j \in DOMAIN ord
    <3>1. Len(ord) \in Nat /\ DOMAIN ord = 1 .. Len(ord)
      BY AllFacts
    <3> QED
      BY <3>1
  <2> QED
    BY <1>2, <2>1 DEF Exact
<1> QED
  BY <1>4, <1>5, <1>6 DEF Exact

(***************************************************************************)
(* The tree of windows.                                                    *)
(***************************************************************************)
Tiled(list) == \E A : A \subseteq Points /\ Tiles(list, A)

(* A window that is not open has a place only if programs give it one      *)
(* early; the lists of closed windows are tiles as well, and no rectangle  *)
(* is on two lists or on none.                                             *)
Formed(cr, ord, size, l) ==
  /\ Ordered(ord) /\ cr \subseteq Windows /\ Range(ord) \subseteq cr
  /\ size \in [Handles -> GRECT] /\ size[DESKWH] = gl_rscreen
  /\ \A h \in Windows : \/ size[h] \in Sized /\ (h \in Range(ord) \/ Early)
                        \/ size[h] = gl_rzero /\ h \notin Range(ord)
  /\ l \in ListRecs /\ Pool(l) = NUM_ORECT
  /\ \A h \in Handles : Tiled(l.rlist[h])

Shape == Formed(created, order, curr, lists)

Inv == Shape /\ (Early = FALSE => OwnersExact)

LEMMA RangeIs ==
  ASSUME NEW ord, Ordered(ord)
  PROVE  /\ \A h : h \in Range(ord) <=> \E i \in 1 .. Len(ord) : h = ord[i]
         /\ Range(ord) \subseteq Windows
<1>1. DOMAIN ord = 1 .. Len(ord) /\ \A i \in 1 .. Len(ord) : ord[i] \in Windows
  BY AllFacts
<1> QED
  BY <1>1 DEF Range

LEMMA AppendFacts ==
  ASSUME NEW ord, Ordered(ord), NEW h \in Windows, h \notin Range(ord)
  PROVE  /\ Ordered(Append(ord, h))
         /\ Range(Append(ord, h)) = Range(ord) \cup {h}
<1> DEFINE u == Append(ord, h)
           n == Len(ord)
<1>1. ord \in Seq(Windows) /\ n \in Nat
  BY DEF Ordered
<1>2. /\ u \in Seq(Windows) /\ Len(u) = n + 1 /\ u[n + 1] = h
      /\ \A i \in 1 .. n : u[i] = ord[i]
  BY <1>1
<1>3. \A i \in 1 .. n : ord[i] # h
  BY RangeIs
<1> HIDE DEF u, n
<1>4. \A i : i \in 1 .. n + 1 <=> i \in 1 .. n \/ i = n + 1
  BY <1>1
<1>5. \A i, j \in 1 .. n + 1 : u[i] = u[j] => i = j
  BY <1>2, <1>3, <1>4 DEF Ordered, n
<1>6. Ordered(u)
  BY <1>2, <1>5 DEF Ordered
<1>7. \A x : x \in Range(u) <=> x \in Range(ord) \/ x = h
  <2>1. \A x : x \in Range(u) <=> \E i \in 1 .. n + 1 : x = u[i]
    BY <1>2, <1>6, RangeIs
  <2>2. \A x : x \in Range(ord) <=> \E i \in 1 .. n : x = ord[i]
    BY RangeIs DEF n
  <2> QED
    BY <2>1, <2>2, <1>2, <1>4
<1> QED
  BY <1>6, <1>7 DEF u

LEMMA DeleteFacts ==
  ASSUME NEW ord, Ordered(ord), NEW h \in Range(ord)
  PROVE  /\ Ordered(ob_delete(ord, h))
         /\ Range(ob_delete(ord, h)) = Range(ord) \ {h}
<1> DEFINE n == Len(ord)
           u == ob_delete(ord, h)
<1>1. PICK k \in 1 .. n : h = ord[k]
  BY RangeIs
<1>2. ord \in Seq(Windows) /\ n \in Nat
  BY DEF Ordered
<1>3. Position(ord, h) = k
  BY <1>1, PositionIs
<1> DEFINE a == SubSeq(ord, 1, k - 1)
           b == SubSeq(ord, k + 1, n)
<1>4. u = a \o b
  BY <1>3 DEF ob_delete, RemoveAt
<1>5. /\ a \in Seq(Windows) /\ Len(a) = k - 1 /\ \A i \in 1 .. k - 1 : a[i] = ord[i]
      /\ b \in Seq(Windows) /\ Len(b) = n - k /\ \A i \in 1 .. n - k : b[i] = ord[k + i]
  BY <1>1, <1>2
<1> HIDE DEF a, b, u
<1>6. /\ u \in Seq(Windows) /\ Len(u) = n - 1
      /\ \A i \in 1 .. k - 1 : u[i] = ord[i]
      /\ \A i \in 1 .. n - k : u[(k - 1) + i] = ord[k + i]
  <2>1. /\ a \o b \in Seq(Windows) /\ Len(a \o b) = Len(a) + Len(b)
        /\ \A i \in 1 .. Len(a) : (a \o b)[i] = a[i]
        /\ \A i \in 1 .. Len(b) : (a \o b)[Len(a) + i] = b[i]
    <3>1. a \in Seq(Windows) /\ b \in Seq(Windows)
      BY <1>5
    <3> QED
      BY <3>1
  <2>2. (k - 1) + (n - k) = n - 1
    BY <1>1, <1>2
  <2> HIDE DEF n
  <2>3. u \in Seq(Windows) /\ Len(u) = n - 1
    BY <2>1, <2>2, <1>4, <1>5
  <2>4. \A i \in 1 .. k - 1 : u[i] = ord[i]
    BY <2>1, <1>4, <1>5
  <2>5. \A i \in 1 .. n - k : u[(k - 1) + i] = ord[k + i]
    BY <2>1, <1>4, <1>5
  <2> QED
    BY <2>3, <2>4, <2>5
<1> HIDE DEF n
<1>7. ASSUME NEW i \in 1 .. n - 1
      PROVE  \/ i < k /\ i \in 1 .. n /\ u[i] = ord[i]
             \/ i >= k /\ i + 1 \in 1 .. n /\ u[i] = ord[i + 1]
  <2>1. CASE i < k
    <3>1. i \in 1 .. k - 1 /\ i \in 1 .. n
      BY <2>1, <1>1, <1>2
    <3> QED
      BY <3>1, <2>1, <1>6
  <2>2. CASE i >= k
    <3>1. /\ i - (k - 1) \in 1 .. n - k /\ i + 1 \in 1 .. n
          /\ (k - 1) + (i - (k - 1)) = i /\ k + (i - (k - 1)) = i + 1
      BY <2>2, <1>1, <1>2
    <3> QED
      BY <3>1, <2>2, <1>6
  <2> QED
    BY <2>1, <2>2, <1>1
<1>8. \A i, j \in 1 .. n : ord[i] = ord[j] => i = j
  BY DEF Ordered, n
<1>9. ASSUME NEW i \in 1 .. n - 1, NEW j \in 1 .. n - 1, u[i] = u[j]
      PROVE  i = j
  <2>1. /\ i \in Int /\ j \in Int /\ k \in Int
        /\ \/ i < k /\ i \in 1 .. n /\ u[i] = ord[i]
           \/ i >= k /\ i + 1 \in 1 .. n /\ u[i] = ord[i + 1]
        /\ \/ j < k /\ j \in 1 .. n /\ u[j] = ord[j]
           \/ j >= k /\ j + 1 \in 1 .. n /\ u[j] = ord[j + 1]
    BY <1>1, <1>7
  <2> QED
    BY <2>1, <1>8, <1>9
<1>10. Ordered(u)
  BY <1>6, <1>9 DEF Ordered
<1>11. ASSUME NEW x
       PROVE  x \in Range(u) <=> x \in Range(ord) /\ x # h
  <2>1. x \in Range(u) <=> \E i \in 1 .. n - 1 : x = u[i]
    BY <1>6, <1>10, RangeIs
  <2>2. x \in Range(ord) <=> \E i \in 1 .. n : x = ord[i]
    BY RangeIs DEF n
  <2>3. ASSUME NEW i \in 1 .. n - 1, x = u[i]
        PROVE  x \in Range(ord) /\ x # h
    <3>1. CASE i < k /\ i \in 1 .. n /\ u[i] = ord[i]
      <4>1. i # k
        BY <3>1, <1>1
      <4> QED
        BY <3>1, <4>1, <2>2, <2>3, <1>1, <1>8
    <3>2. CASE i >= k /\ i + 1 \in 1 .. n /\ u[i] = ord[i + 1]
      <4>1. i + 1 # k
        BY <3>2, <1>1
      <4> QED
        BY <3>2, <4>1, <2>2, <2>3, <1>1, <1>8
    <3> QED
      BY <3>1, <3>2, <1>7
  <2>4. ASSUME NEW i \in 1 .. n, x = ord[i], x # h
        PROVE  \E j \in 1 .. n - 1 : x = u[j]
    <3>1. CASE i < k
      <4>1. i \in 1 .. n - 1 /\ i \in 1 .. k - 1
        BY <3>1, <1>1, <1>2 DEF n
      <4> QED
        BY <4>1, <2>4, <1>6
    <3>2. CASE i > k
      <4>1. i - 1 \in 1 .. n - 1 /\ i - k \in 1 .. n - k
            /\ (k - 1) + (i - k) = i - 1 /\ k + (i - k) = i
        BY <3>2, <1>1, <1>2 DEF n
      <4> QED
        BY <4>1, <2>4, <1>6
    <3>3. i # k
      BY <2>4, <1>1
    <3>4. i \in Int /\ k \in Int
      BY <1>1
    <3> QED
      BY <3>1, <3>2, <3>3, <3>4
  <2> QED
    BY <2>1, <2>2, <2>3, <2>4
<1> QED
  BY <1>10, <1>11 DEF u

LEMMA PlacesSized ==
  ASSUME NEW ord, Ordered(ord), NEW size, size[DESKWH] = gl_rscreen,
         \A h \in Range(ord) : size[h] \in Sized
  PROVE  \A j \in 1 .. Len(ord) + 1 : Place(ord, size, j) \in Sized
<1> TAKE j \in 1 .. Len(ord) + 1
<1>1. /\ Len(ord) \in Nat /\ All(ord)[1] = DESKWH
      /\ \A i \in 1 .. Len(ord) : All(ord)[i + 1] = ord[i]
  BY AllFacts
<1>2. size[All(ord)[j]] \in Sized
  <2>1. CASE j = 1
    BY <2>1, <1>1, ScreenFacts
  <2>2. CASE j # 1
    <3>1. j - 1 \in 1 .. Len(ord) /\ (j - 1) + 1 = j
      BY <2>2, <1>1
    <3>2. All(ord)[j] = ord[j - 1] /\ ord[j - 1] \in Range(ord)
      BY <3>1, <1>1, RangeIs
    <3> QED
      BY <3>2
  <2> QED
    BY <2>1, <2>2
<1> HIDE DEF Sized
<1> QED
  BY <1>2, TrueSizeFacts DEF Place

LEMMA ZeroFacts == gl_rzero \in GRECT /\ ~HasSize(gl_rzero) /\ TrueSize(gl_rzero) = gl_rzero
BY DEF gl_rzero, Rect, GRECT, HasSize, TrueSize

(* A call that draws: h is left in the order ord, or out of it, with the   *)
(* place pt.                                                               *)
LEMMA DrawChange ==
  ASSUME Shape, NEW h \in Windows, NEW pt, NEW ord, Ordered(ord),
         \/ pt \in Sized /\ h \in Range(ord)
         \/ pt = gl_rzero /\ h \notin Range(ord),
         \A x \in Windows \ {h} : x \in Range(ord) <=> x \in Range(order),
         Range(ord) \subseteq created, draw_change(h, pt, ord), UNCHANGED created
  PROVE  Inv'
<1> DEFINE size == [curr EXCEPT ![h] = pt]
           l == Rebuild(ord, size, lists)
<1>1. order' = ord /\ curr' = size /\ lists' = l
  BY DEF draw_change, Update, Change, Leave, Tree
<1>2. /\ curr \in [Handles -> GRECT] /\ curr[DESKWH] = gl_rscreen
      /\ \A x \in Windows : \/ curr[x] \in Sized /\ (x \in Range(order) \/ Early)
                            \/ curr[x] = gl_rzero /\ x \notin Range(order)
      /\ lists \in ListRecs /\ created \subseteq Windows /\ Pool(lists) = NUM_ORECT
      /\ \A x \in Handles : Tiled(lists.rlist[x])
  BY DEF Shape, Formed
<1>3. DESKWH \notin Windows /\ \A x \in Windows : x \in Handles
  BY DEF DESKWH, Windows, Handles
<1>4. pt \in GRECT
  BY ZeroFacts DEF Sized
<1> HIDE DEF Sized
<1>5. /\ size \in [Handles -> GRECT] /\ size[DESKWH] = gl_rscreen
      /\ size[h] = pt /\ \A x \in Windows \ {h} : size[x] = curr[x]
  BY <1>2, <1>3, <1>4 DEF Handles
<1> HIDE DEF size
<1>6. \A x \in Windows : \/ size[x] \in Sized /\ (x \in Range(ord) \/ Early)
                         \/ size[x] = gl_rzero /\ x \notin Range(ord)
  BY <1>2, <1>5
<1>7. \A x \in Range(ord) : size[x] \in Sized
  BY <1>6, RangeIs
<1>8. \A j \in 1 .. Len(ord) + 1 : Place(ord, size, j) \in Sized
  BY <1>5, <1>7, PlacesSized
<1>9. /\ l \in ListRecs /\ Right(ord, size, Len(ord) + 1, l) /\ Pool(l) = NUM_ORECT
      /\ \A x \in Handles : (\A j \in 1 .. Len(ord) + 1 : All(ord)[j] # x) =>
           l.rlist[x] = lists.rlist[x]
  BY <1>2, <1>8, RebuildFacts
<1> HIDE DEF l
<1>10. Exact(ord, size, l)
  BY <1>5, <1>9, RightExact
<1>11. ASSUME NEW x \in Handles
       PROVE  Tiled(l.rlist[x])
  <2>1. CASE \A j \in 1 .. Len(ord) + 1 : All(ord)[j] # x
    BY <2>1, <1>2, <1>9
  <2>2. ASSUME NEW j \in 1 .. Len(ord) + 1, All(ord)[j] = x
        PROVE  Tiled(l.rlist[x])
    <3>1. Tiles(l.rlist[x], Visible(ord, size, Len(ord) + 1, j))
      BY <2>2, <1>9 DEF Right
    <3>2. Visible(ord, size, Len(ord) + 1, j) \subseteq Points
      BY DEF Visible
    <3> QED
      BY <3>1, <3>2 DEF Tiled
  <2> QED
    BY <2>1, <2>2
<1>12. Shape'
  <2>1. Formed(created', order', curr', lists')
    BY <1>1, <1>2, <1>5, <1>6, <1>9, <1>11 DEF Formed
  <2> QED
    BY <2>1 DEF Shape
<1>13. OwnersExact'
  <2>1. (OwnersExact <=> Exact(order, curr, lists))'
    BY NowExact, PTL
  <2>2. Exact(order', curr', lists')
    BY <1>1, <1>10
  <2> QED
    BY <2>1, <2>2
<1> QED
  BY <1>12, <1>13 DEF Inv

LEMMA InitExact ==
  ASSUME Init
  PROVE  Inv
<1>1. DESKWH \in Handles /\ DESKWH \notin Windows
  BY DEF Handles, DESKWH, Windows
<1>2. Ordered(order) /\ Len(order) = 0 /\ DOMAIN order = {} /\ Range(order) = {}
  BY DEF Init, Ordered, Range
<1>3. /\ curr = [h \in Handles |-> IF h = DESKWH THEN gl_rscreen ELSE gl_rzero]
      /\ lists.rlist = [h \in Handles |-> IF h = DESKWH THEN <<gl_rfull>> ELSE <<>>]
      /\ lists.broken = {} /\ lists.free = NUM_ORECT - 1
  BY DEF Init, Handles
<1>4. /\ gl_rscreen \in Sized /\ gl_rfull \in Sized
      /\ gl_rscreen \in GRECT /\ gl_rzero \in GRECT
  BY ScreenFacts, ZeroFacts DEF Sized
<1> HIDE DEF Sized
<1>5. lists \in ListRecs
  <2>1. /\ NUM_ORECT - 1 \in Int
        /\ [h \in Handles |-> IF h = DESKWH THEN <<gl_rfull>> ELSE <<>>]
             \in [Handles -> Seq(Sized)]
    BY <1>4, WindowRectsAssumption
  <2> DEFINE f == [h \in Handles |-> IF h = DESKWH THEN <<gl_rfull>> ELSE <<>>]
  <2>2. lists = [rlist |-> f, broken |-> {}, free |-> NUM_ORECT - 1,
                 least |-> NUM_ORECT - 1]
    BY DEF Init, Handles
  <2> HIDE DEF f
  <2> QED
    BY <2>1, <2>2 DEF ListRecs, f
<1>6. lists.rlist[DESKWH] = <<gl_rfull>> /\ curr[DESKWH] = gl_rscreen
      /\ \A x \in Handles \ {DESKWH} : lists.rlist[x] = <<>>
  BY <1>1, <1>3
<1>7. Tiles(<<gl_rfull>>, Area(gl_rfull))
  BY <1>4, TilesOne
<1>8. \A x \in Handles : Tiled(lists.rlist[x])
  <2>1. Tiled(<<gl_rfull>>)
    BY <1>7 DEF Tiled, Area
  <2>2. Tiled(<<>>)
    BY TilesNone DEF Tiled
  <2> QED
    BY <2>1, <2>2, <1>6
<1>9. Pool(lists) = NUM_ORECT
  <2> DEFINE l == [lists EXCEPT !.rlist[DESKWH] = <<>>, !.free = NUM_ORECT]
             f == [lists.rlist EXCEPT ![DESKWH] = <<>>]
  <2>1. /\ lists.rlist \in [Handles -> Seq(Sized)] /\ lists.broken \in SUBSET Handles
        /\ lists.least \in Int /\ NUM_ORECT \in Int
    BY <1>5, WindowRectsAssumption DEF ListRecs
  <2>2. l = [lists EXCEPT !.rlist = f, !.free = NUM_ORECT]
    OBVIOUS
  <2>3. f \in [Handles -> Seq(Sized)] /\ \A x \in Handles : f[x] = <<>>
    BY <1>1, <1>6, <2>1
  <2> HIDE DEF l, f
  <2>4. l \in ListRecs /\ l.rlist = f /\ l.free = NUM_ORECT
    BY <1>5, <2>1, <2>2, <2>3 DEF ListRecs
  <2>5. \A x \in Handles : Len(l.rlist[x]) = 0
    BY <2>3, <2>4
  <2>6. Held(l) = 0
    BY <2>5, HeldNone
  <2>7. Pool(l) = NUM_ORECT
    BY <2>1, <2>4, <2>6 DEF Pool
  <2>8. lists.free + Len(lists.rlist[DESKWH]) = l.free + Len(l.rlist[DESKWH])
    <3>1. Len(lists.rlist[DESKWH]) = 1 /\ Len(l.rlist[DESKWH]) = 0
      BY <1>1, <1>6, <2>5
    <3> QED
      BY <3>1, <1>3, <2>1, <2>4
  <2>9. \A x \in Handles \ {DESKWH} : lists.rlist[x] = l.rlist[x]
    BY <1>6, <2>3, <2>4
  <2> QED
    BY <1>1, <1>5, <2>4, <2>7, <2>8, <2>9, PoolStep
<1>10. Shape
  <2>1. \A h \in Windows : h \in Handles /\ h # DESKWH
    BY <1>1 DEF Handles
  <2>2. \A h \in Windows : curr[h] = gl_rzero /\ ~IsOpen(h)
    BY <2>1, <1>2, <1>3 DEF IsOpen
  <2>3. curr \in [Handles -> GRECT]
    BY <1>3, <1>4
  <2>4. created = {}
    BY DEF Init
  <2> QED
    BY <2>2, <2>3, <2>4, <1>2, <1>5, <1>6, <1>8, <1>9 DEF Shape, Formed
<1>11. Exact(order, curr, lists)
  <2>2. ASSUME NEW p \in Screen
        PROVE  /\ OwnerIn(order, curr, p) = DESKWH /\ p \in Points
               /\ p \in Area(gl_rfull)
    <3>1. OwnerIn(order, curr, p) = DESKWH
      BY <1>2 DEF OwnerIn, OwnerOf
    <3> QED
      BY <3>1, ScreenFacts DEF Area
  <2>3. ASSUME NEW p \in Screen
        PROVE  /\ \A i \in DOMAIN lists.rlist[DESKWH] :
                    lists.rlist[DESKWH][i].w > 0 /\ lists.rlist[DESKWH][i].h > 0
               /\ Cardinality({i \in DOMAIN lists.rlist[DESKWH] :
                                 inside(p, lists.rlist[DESKWH][i])}) = 1
    <3>1. p \in Points /\ p \in Area(gl_rfull)
      BY <2>2
    <3>2. /\ \A i \in DOMAIN <<gl_rfull>> : <<gl_rfull>>[i].w > 0 /\ <<gl_rfull>>[i].h > 0
          /\ Cardinality({i \in DOMAIN <<gl_rfull>> : inside(p, <<gl_rfull>>[i])})
               = IF p \in Area(gl_rfull) THEN 1 ELSE 0
      BY <1>7, <3>1, TilesCount, Zenon
    <3> QED
      BY <3>1, <3>2, <1>6
  <2>4. Screen # {}
    <3>1. 0 \in 0 .. Width - 1 /\ MenuHeight \in MenuHeight .. Height - 1
      BY ScreenFacts
    <3>2. <<0, MenuHeight>> \in (0 .. Width - 1) \X (MenuHeight .. Height - 1)
      BY <3>1
    <3> QED
      BY <3>2 DEF Screen
  <2> QED
    BY <1>2, <2>2, <2>3, <2>4 DEF Exact
<1> QED
  BY <1>10, <1>11, NowExact DEF Inv

(* A call that leaves the open windows alone.                              *)
LEMMA Quiet ==
  ASSUME Shape, OwnersExact, UNCHANGED order,
         \A x \in {DESKWH} \cup Range(order) :
           /\ lists'.rlist[x] = lists.rlist[x] /\ curr'[x] = curr[x]
           /\ x \in lists'.broken <=> x \in lists.broken
  PROVE  OwnersExact'
<1>1. Ordered(order) /\ Exact(order, curr, lists)
  BY NowExact DEF Shape, Formed
<1>2. Exact(order, curr', lists')
  BY <1>1, ExactSame
<1>3. (OwnersExact <=> Exact(order, curr, lists))'
  BY NowExact, PTL
<1> QED
  BY <1>2, <1>3

(* A window that is not open loses its mark, once its list is as in l.     *)
LEMMA Unmarked ==
  ASSUME NEW l \in ListRecs, NEW h \in Handles,
         \A x \in Handles : Tiled(l.rlist[x]),
         NEW m, m = [l EXCEPT !.broken = @ \ {h}]
  PROVE  /\ m \in ListRecs /\ m.rlist = l.rlist /\ m.broken = l.broken \ {h}
         /\ Pool(m) = Pool(l) /\ \A x \in Handles : Tiled(m.rlist[x])
<1>1. /\ l.rlist \in [Handles -> Seq(Sized)] /\ l.broken \in SUBSET Handles
      /\ l.free \in Int /\ l.least \in Int
  BY DEF ListRecs
<1> HIDE DEF Sized
<1>2. m \in ListRecs /\ m.rlist = l.rlist /\ m.broken = l.broken \ {h} /\ m.free = l.free
  <2>1. l.broken \ {h} \in SUBSET Handles
    BY <1>1
  <2> QED
    BY <1>1, <2>1 DEF ListRecs
<1>3. Pool(m) = Pool(l)
  BY <1>2, PoolStep
<1>4. \A x \in Handles : Tiled(m.rlist[x])
  BY <1>2
<1> QED
  BY <1>2, <1>3, <1>4

LEMMA CreateStep ==
  ASSUME Inv, NEW h \in Windows, wm_create(h)
  PROVE  Inv'
<1>1. /\ h \notin created /\ created' = created \cup {h}
      /\ curr' = [curr EXCEPT ![h] = gl_rzero]
      /\ lists' = [lists EXCEPT !.broken = @ \ {h}]
      /\ order' = order
  BY DEF wm_create
<1>2. /\ Ordered(order) /\ created \subseteq Windows /\ Range(order) \subseteq created
      /\ curr \in [Handles -> GRECT] /\ curr[DESKWH] = gl_rscreen
      /\ \A x \in Windows : \/ curr[x] \in Sized /\ (x \in Range(order) \/ Early)
                            \/ curr[x] = gl_rzero /\ x \notin Range(order)
      /\ lists \in ListRecs /\ Pool(lists) = NUM_ORECT
      /\ \A x \in Handles : Tiled(lists.rlist[x])
  BY DEF Inv, Shape, Formed
<1>3. DESKWH # h /\ h \in Handles /\ h \notin Range(order)
      /\ \A x \in Windows : x \in Handles
  BY <1>1, <1>2 DEF DESKWH, Windows, Handles
<1> HIDE DEF Sized
<1>4. /\ curr' \in [Handles -> GRECT] /\ curr'[DESKWH] = gl_rscreen
      /\ curr'[h] = gl_rzero /\ \A x \in Handles \ {h} : curr'[x] = curr[x]
  BY <1>1, <1>2, <1>3, ZeroFacts DEF Handles
<1>5. /\ lists' \in ListRecs /\ lists'.rlist = lists.rlist
      /\ lists'.broken = lists.broken \ {h} /\ Pool(lists') = NUM_ORECT
      /\ \A x \in Handles : Tiled(lists'.rlist[x])
  BY <1>1, <1>2, <1>3, Unmarked
<1>6. \A x \in Windows : \/ curr'[x] \in Sized /\ (x \in Range(order) \/ Early)
                         \/ curr'[x] = gl_rzero /\ x \notin Range(order)
  BY <1>2, <1>3, <1>4
<1>7. Shape'
  <2>1. Formed(created', order', curr', lists')
    BY <1>1, <1>2, <1>4, <1>5, <1>6 DEF Formed
  <2> QED
    BY <2>1 DEF Shape
<1>8. \A x \in {DESKWH} \cup Range(order) : x \in Handles \ {h}
  BY <1>2, <1>3 DEF Handles
<1>9. OwnersExact => OwnersExact'
  BY <1>1, <1>4, <1>5, <1>8, Quiet DEF Inv
<1> QED
  BY <1>7, <1>9 DEF Inv

LEMMA DumpTiled ==
  ASSUME NEW l \in ListRecs, NEW h \in Handles, \A x \in Handles : Tiled(l.rlist[x])
  PROVE  \A x \in Handles : Tiled(Dump(l, h).rlist[x])
<1>1. /\ Dump(l, h).rlist[h] = <<>>
      /\ \A x \in Handles \ {h} : Dump(l, h).rlist[x] = l.rlist[x]
  BY DumpFacts
<1>2. Tiled(<<>>)
  BY TilesNone DEF Tiled
<1> QED
  BY <1>1, <1>2

(* The place of a window that is not open, over the lists of all others.   *)
LEMMA LaidOverAll ==
  ASSUME NEW ord, Ordered(ord), NEW size, NEW l \in ListRecs, NEW h \in Windows,
         h \notin Range(ord), size[h] \in Sized, \A x \in Handles : Tiled(l.rlist[x]),
         NEW m, m = newrect(ord, size, l, h)
  PROVE  /\ m \in ListRecs /\ Pool(m) = Pool(l)
         /\ \A x \in Handles : Tiled(m.rlist[x])
<1> DEFINE b == All(ord)
           T == [x \in Handles |-> CHOOSE A : A \subseteq Points /\ Tiles(l.rlist[x], A)]
           new == TrueSize(size[h])
<1>1. /\ Len(b) = Len(ord) + 1 /\ DOMAIN b = 1 .. Len(b) /\ Len(b) \in Nat
      /\ \A j \in 1 .. Len(b) : b[j] \in Handles
      /\ \A i, j \in 1 .. Len(b) : b[i] = b[j] => i = j
  BY AllFacts
<1>2. h \in Handles /\ h # DESKWH
  BY DEF Handles, Windows, DESKWH
<1>3. b = Below(ord, h)
  BY <1>2 DEF Below, All
<1>4. \A x \in Handles : T[x] \subseteq Points /\ Tiles(l.rlist[x], T[x])
  <2> TAKE x \in Handles
  <2>1. \E A : A \subseteq Points /\ Tiles(l.rlist[x], A)
    BY DEF Tiled
  <2> QED
    BY <2>1
<1>5. new \in Sized
  BY TrueSizeFacts
<1> HIDE DEF T, new, Sized
<1>6. \A j \in 1 .. Len(b) : b[j] # h
  <2>1. /\ Len(ord) \in Nat /\ b[1] = DESKWH
        /\ \A i \in 1 .. Len(ord) : b[i + 1] = ord[i]
    BY AllFacts
  <2> HIDE DEF b
  <2> TAKE j \in 1 .. Len(b)
  <2>2. CASE j = 1
    BY <2>1, <2>2, <1>2
  <2>3. CASE j # 1
    <3>1. j - 1 \in 1 .. Len(ord) /\ (j - 1) + 1 = j
      BY <2>1, <2>3, <1>1
    <3> QED
      BY <3>1, <2>1, RangeIs
  <2> QED
    BY <2>2, <2>3
<1> HIDE DEF b
<1>7. Stacked(l, b, T, h)
  BY <1>1, <1>4, <1>6 DEF Stacked
<1>8. Over(new, l, m, h, b, T)
  BY <1>1, <1>2, <1>3, <1>5, <1>7, NewrectFacts DEF new
<1>9. ASSUME NEW x \in Handles
      PROVE  Tiled(m.rlist[x])
  <2>1. CASE x = h
    <3>1. Tiles(<<new>>, Area(new)) /\ Area(new) \subseteq Points
      BY <1>5, TilesOne DEF Area
    <3> QED
      BY <2>1, <3>1, <1>8 DEF Over, Tiled
  <2>2. ASSUME NEW j \in 1 .. Len(b), b[j] = x
        PROVE  Tiled(m.rlist[x])
    <3>1. Tiles(m.rlist[x], T[x] \ Area(new)) /\ T[x] \ Area(new) \subseteq Points
      BY <2>2, <1>4, <1>8 DEF Over
    <3> QED
      BY <3>1 DEF Tiled
  <2>3. CASE x # h /\ \A j \in 1 .. Len(b) : b[j] # x
    BY <2>3, <1>8 DEF Over
  <2> QED
    BY <2>1, <2>2, <2>3
<1> QED
  BY <1>8, <1>9 DEF Over

LEMMA DeleteStep ==
  ASSUME Inv, NEW h \in Windows, wm_delete(h)
  PROVE  Inv'
<1> DEFINE l == newrect(order, curr, lists, h)
<1>1. /\ h \in created /\ h \notin Range(order) /\ created' = created \ {h}
      /\ curr' = [curr EXCEPT ![h] = gl_rzero] /\ order' = order
      /\ lists' = [l EXCEPT !.broken = @ \ {h}]
  BY DEF wm_delete, IsOpen
<1>2. /\ Ordered(order) /\ created \subseteq Windows /\ Range(order) \subseteq created
      /\ curr \in [Handles -> GRECT] /\ curr[DESKWH] = gl_rscreen
      /\ \A x \in Windows : \/ curr[x] \in Sized /\ (x \in Range(order) \/ Early)
                            \/ curr[x] = gl_rzero /\ x \notin Range(order)
      /\ lists \in ListRecs /\ Pool(lists) = NUM_ORECT
      /\ \A x \in Handles : Tiled(lists.rlist[x])
  BY DEF Inv, Shape, Formed
<1>3. DESKWH # h /\ h \in Handles /\ \A x \in Windows : x \in Handles
  BY DEF DESKWH, Windows, Handles
<1>4. curr[h] = gl_rzero => l = Dump(lists, h)
  BY ZeroFacts DEF newrect
<1> HIDE DEF Sized, l
<1>5. /\ l \in ListRecs /\ Pool(l) = NUM_ORECT
      /\ \A x \in Handles : Tiled(l.rlist[x])
  <2>1. CASE curr[h] = gl_rzero
    <3>1. l = Dump(lists, h)
      BY <2>1, <1>4
    <3>2. Dump(lists, h) \in ListRecs /\ Pool(Dump(lists, h)) = Pool(lists)
      BY <1>2, <1>3, DumpFacts
    <3>3. \A x \in Handles : Tiled(Dump(lists, h).rlist[x])
      BY <1>2, <1>3, DumpTiled
    <3> QED
      BY <3>1, <3>2, <3>3, <1>2
  <2>2. CASE curr[h] \in Sized
    BY <2>2, <1>1, <1>2, LaidOverAll DEF l
  <2> QED
    BY <2>1, <2>2, <1>2
<1>6. /\ lists' \in ListRecs /\ lists'.rlist = l.rlist
      /\ lists'.broken = l.broken \ {h} /\ Pool(lists') = NUM_ORECT
      /\ \A x \in Handles : Tiled(lists'.rlist[x])
  BY <1>1, <1>3, <1>5, Unmarked
<1>7. /\ curr' \in [Handles -> GRECT] /\ curr'[DESKWH] = gl_rscreen
      /\ curr'[h] = gl_rzero /\ \A x \in Handles \ {h} : curr'[x] = curr[x]
  BY <1>1, <1>2, <1>3, ZeroFacts DEF Handles
<1>8. \A x \in Windows : \/ curr'[x] \in Sized /\ (x \in Range(order) \/ Early)
                         \/ curr'[x] = gl_rzero /\ x \notin Range(order)
  BY <1>1, <1>2, <1>3, <1>7
<1>9. Range(order) \subseteq created' /\ created' \subseteq Windows
  BY <1>1, <1>2
<1>10. Shape'
  <2>1. Formed(created', order', curr', lists')
    BY <1>1, <1>2, <1>6, <1>7, <1>8, <1>9 DEF Formed
  <2> QED
    BY <2>1 DEF Shape
<1>11. ASSUME Early = FALSE, OwnersExact
       PROVE  OwnersExact'
  <2>1. l = Dump(lists, h)
    BY <1>1, <1>2, <1>4, <1>11
  <2>2. \A x \in Handles \ {h} : /\ l.rlist[x] = lists.rlist[x]
                                 /\ x \in l.broken <=> x \in lists.broken
    BY <2>1, <1>2, <1>3, DumpFacts
  <2>3. \A x \in {DESKWH} \cup Range(order) : x \in Handles \ {h}
    BY <1>1, <1>2, <1>3 DEF Handles
  <2> QED
    BY <2>2, <2>3, <1>1, <1>6, <1>7, <1>11, Quiet DEF Inv
<1> QED
  BY <1>10, <1>11 DEF Inv

LEMMA StillStep ==
  ASSUME Inv, UNCHANGED <<created, order, curr, lists>>
  PROVE  Inv'
<1>1. Shape'
  BY DEF Inv, Shape, Formed
<1>2. OwnersExact => OwnersExact'
  BY Quiet DEF Inv
<1> QED
  BY <1>1, <1>2 DEF Inv

LEMMA DrawSteps ==
  ASSUME Inv, NEW h \in Windows,
         \/ wm_close(h) \/ wm_mktop(h)
         \/ \E pt \in Places[h] : wm_open(h, pt) \/ wm_set_size(h, pt)
  PROVE  Inv'
<1>1. /\ Ordered(order) /\ created \subseteq Windows /\ Range(order) \subseteq created
      /\ \A x \in Range(order) : curr[x] \in Sized
  BY DEF Inv, Shape, Formed
<1>2. \A pt \in Places[h] : pt \in Sized
  <2>1. \A pt \in Places[h] : pt \in UNION {Places[x] : x \in Windows}
    OBVIOUS
  <2> QED
    BY <2>1, WindowRectsAssumption DEF Sized
<1> HIDE DEF Sized
<1>3. CASE wm_close(h)
  <2> DEFINE ord == ob_delete(order, h)
  <2>1. h \in Range(order) /\ draw_change(h, gl_rzero, ord) /\ UNCHANGED created
    BY <1>3 DEF wm_close, IsOpen
  <2>2. Ordered(ord) /\ Range(ord) = Range(order) \ {h}
    BY <1>1, <2>1, DeleteFacts
  <2> HIDE DEF ord
  <2>3. h \notin Range(ord) /\ Range(ord) \subseteq created
        /\ \A x \in Windows \ {h} : x \in Range(ord) <=> x \in Range(order)
    BY <1>1, <2>2
  <2> QED
    BY <2>1, <2>2, <2>3, DrawChange DEF Inv
<1>4. CASE wm_mktop(h)
  <2> DEFINE ord == ob_order(order, h)
             o == ob_delete(order, h)
  <2>1. h \in Range(order) /\ draw_change(h, curr[h], ord) /\ UNCHANGED created
    BY <1>4 DEF wm_mktop, IsOpen
  <2>2. Ordered(o) /\ Range(o) = Range(order) \ {h}
    BY <1>1, <2>1, DeleteFacts
  <2>3. Ordered(ord) /\ Range(ord) = Range(o) \cup {h}
    <3>1. h \notin Range(o)
      BY <2>2
    <3> QED
      BY <2>2, <3>1, AppendFacts DEF ob_order
  <2> HIDE DEF ord, o
  <2>4. h \in Range(ord) /\ Range(ord) \subseteq created /\ curr[h] \in Sized
        /\ \A x \in Windows \ {h} : x \in Range(ord) <=> x \in Range(order)
    BY <1>1, <2>1, <2>2, <2>3
  <2> QED
    BY <2>1, <2>3, <2>4, DrawChange DEF Inv
<1>5. ASSUME NEW pt \in Places[h], wm_open(h, pt)
      PROVE  Inv'
  <2> DEFINE ord == Append(order, h)
  <2>1. h \in created /\ h \notin Range(order) /\ draw_change(h, pt, ord) /\ UNCHANGED created
    BY <1>5 DEF wm_open, IsOpen
  <2>2. Ordered(ord) /\ Range(ord) = Range(order) \cup {h}
    BY <1>1, <2>1, AppendFacts
  <2> HIDE DEF ord
  <2>3. h \in Range(ord) /\ Range(ord) \subseteq created /\ pt \in Sized
        /\ \A x \in Windows \ {h} : x \in Range(ord) <=> x \in Range(order)
    BY <1>1, <1>2, <2>1, <2>2
  <2> QED
    BY <2>1, <2>2, <2>3, DrawChange DEF Inv
<1>6. ASSUME NEW pt \in Places[h], wm_set_size(h, pt)
      PROVE  Inv'
  <2>1. h \in created /\ (Early \/ IsOpen(h)) /\ UNCHANGED created
    BY <1>6 DEF wm_set_size
  <2>2. pt \in Sized
    BY <1>2
  <2>3. CASE IsOpen(h)
    <3>1. h \in Range(order) /\ draw_change(h, pt, order)
      BY <1>6, <2>3 DEF wm_set_size, IsOpen
    <3> QED
      BY <1>1, <2>1, <2>2, <3>1, DrawChange DEF Inv
  <2>4. CASE ~IsOpen(h)
    <3>1. curr' = [curr EXCEPT ![h] = pt] /\ UNCHANGED <<order, lists>>
      BY <1>6, <2>4 DEF wm_set_size
    <3>2. Early /\ h \notin Range(order)
      BY <2>1, <2>4 DEF IsOpen
    <3>3. Formed(created, order, curr, lists) /\ pt \in GRECT /\ h # DESKWH
      BY <2>2 DEF Inv, Shape, Sized, Windows, DESKWH
    <3>4. /\ curr' \in [Handles -> GRECT] /\ curr'[h] = pt
          /\ \A x \in Handles \ {h} : curr'[x] = curr[x]
      BY <3>1, <3>3 DEF Formed, Handles
    <3>5. DESKWH \in Handles \ {h} /\ \A x \in Windows \ {h} : x \in Handles \ {h}
      BY <3>3 DEF Handles
    <3>6. curr'[DESKWH] = gl_rscreen
          /\ \A x \in Windows : \/ curr'[x] \in Sized /\ (x \in Range(order) \/ Early)
                                \/ curr'[x] = gl_rzero /\ x \notin Range(order)
      BY <2>2, <3>2, <3>3, <3>4, <3>5 DEF Formed
    <3>7. Formed(created', order', curr', lists')
      BY <2>1, <3>1, <3>3, <3>4, <3>6 DEF Formed
    <3>8. Early # FALSE
      BY <3>2
    <3> QED
      BY <3>7, <3>8 DEF Inv, Shape
  <2> QED
    BY <2>3, <2>4
<1> QED
  BY <1>3, <1>4, <1>5, <1>6

LEMMA Always == Spec => []Inv
<1>1. Init => Inv
  BY InitExact
<1>2. Inv /\ [Next]_vars => Inv'
  <2> SUFFICES ASSUME Inv, [Next]_vars
               PROVE  Inv'
    OBVIOUS
  <2>1. CASE UNCHANGED vars
    BY <2>1, StillStep DEF vars
  <2>2. ASSUME NEW h \in Windows, wm_create(h)
        PROVE  Inv'
    BY <2>2, CreateStep
  <2>3. ASSUME NEW h \in Windows, wm_delete(h)
        PROVE  Inv'
    BY <2>3, DeleteStep
  <2>4. ASSUME NEW h \in Windows, redraw(h)
        PROVE  Inv'
    BY <2>4, StillStep DEF redraw
  <2>5. ASSUME NEW h \in Windows,
               \/ wm_close(h) \/ wm_mktop(h)
               \/ \E pt \in Places[h] : wm_open(h, pt) \/ wm_set_size(h, pt)
        PROVE  Inv'
    BY <2>5, DrawSteps
  <2>6. ASSUME NEW r \in Dialogs, fm_dial(r)
        PROVE  Inv'
    <3>1. UNCHANGED <<created, order, curr, lists>>
      BY <2>6 DEF fm_dial, Leave, Now, Tree
    <3> QED
      BY <3>1, StillStep
  <2> QED
    BY <2>1, <2>2, <2>3, <2>4, <2>5, <2>6 DEF Next
<1> QED
  BY <1>1, <1>2, PTL DEF Spec

(* OwnersExact of the model: after every call of the window manager each   *)
(* pixel of the screen is in exactly one rectangle of the window that is   *)
(* topmost there (of the desktop, where there is none) and in no rectangle *)
(* of another open window, and VF_BROKEN marks exactly the windows that    *)
(* another one lies over; for any number of windows, any places and any    *)
(* size of the screen. Programs give a window no place before they open it *)
(* (Early), because wm_delete() lays that place over the open windows.     *)
THEOREM RectanglesExact ==
  ASSUME Early = FALSE
  PROVE  Spec => []OwnersExact
<1>1. Inv => OwnersExact
  BY DEF Inv
<1> QED
  BY <1>1, Always, PTL

(* OrectsAccounted of the model: newrect(), mkrect() and wm_delete() lose  *)
(* no rectangle of the pool and put none on two lists, for any number of   *)
(* windows and any places, those given to a window that is not open        *)
(* included.                                                               *)
THEOREM RectanglesKept == Spec => []OrectsAccounted
<1>1. Inv => OrectsAccounted
  BY DEF Inv, Shape, Formed, Pool, Held, OrectsAccounted
<1> QED
  BY <1>1, Always, PTL

(***************************************************************************)
(* Which window a pixel belongs to, in two orders that differ in one       *)
(* window only.                                                            *)
(***************************************************************************)
Hits(size, h, p) == inside(p, TrueSize(size[h]))

\* k is below h.
Under(ord, k, h) ==
  \E i, j \in 1 .. Len(ord) : i < j /\ ord[i] = k /\ ord[j] = h

LEMMA UnderFacts ==
  ASSUME NEW ord, Ordered(ord), NEW k \in Range(ord), NEW h \in Range(ord)
  PROVE  /\ k = h \/ Under(ord, k, h) \/ Under(ord, h, k)
         /\ ~(Under(ord, k, h) /\ Under(ord, h, k))
         /\ ~Under(ord, h, h)
<1>1. PICK i \in 1 .. Len(ord) : k = ord[i]
  BY RangeIs
<1>2. PICK j \in 1 .. Len(ord) : h = ord[j]
  BY RangeIs
<1>3. \A m, n \in 1 .. Len(ord) : ord[m] = ord[n] => m = n
  BY DEF Ordered
<1>4. Under(ord, k, h) <=> i < j
  BY <1>1, <1>2, <1>3 DEF Under
<1>5. Under(ord, h, k) <=> j < i
  BY <1>1, <1>2, <1>3 DEF Under
<1>6. ~Under(ord, h, h)
  BY <1>2, <1>3 DEF Under
<1>7. i \in Int /\ j \in Int
  OBVIOUS
<1> QED
  BY <1>1, <1>2, <1>4, <1>5, <1>6, <1>7

LEMMA LastFacts ==
  ASSUME NEW ord, Ordered(ord), ord # <<>>
  PROVE  /\ Last(ord) \in Range(ord) /\ Last(ord) \in Windows
         /\ Len(ord) \in 1 .. Len(ord) /\ Last(ord) = ord[Len(ord)]
         /\ \A k \in Range(ord) : k = Last(ord) \/ Under(ord, k, Last(ord))
<1>1. Len(ord) \in Nat /\ DOMAIN ord = 1 .. Len(ord) /\ ord \in Seq(Windows)
  BY AllFacts DEF Ordered
<1>2. Len(ord) # 0
  BY <1>1
<1>3. Len(ord) \in 1 .. Len(ord)
  BY <1>1, <1>2
<1>4. Last(ord) = ord[Len(ord)]
  BY DEF Last
<1>5. Last(ord) \in Range(ord) /\ Last(ord) \in Windows
  BY <1>3, <1>4, RangeIs
<1>6. ASSUME NEW k \in Range(ord)
      PROVE  k = Last(ord) \/ Under(ord, k, Last(ord))
  <2>1. PICK i \in 1 .. Len(ord) : k = ord[i]
    BY RangeIs
  <2>2. i \in Int /\ i <= Len(ord) /\ Len(ord) \in Int
    BY <2>1, <1>1
  <2>3. i = Len(ord) \/ i < Len(ord)
    BY <2>2
  <2> QED
    BY <2>1, <2>3, <1>3, <1>4 DEF Under
<1> QED
  BY <1>3, <1>4, <1>5, <1>6

LEMMA OwnerIs ==
  ASSUME NEW ord, Ordered(ord), NEW size, NEW p, NEW o, o = OwnerIn(ord, size, p)
  PROVE  \/ o = DESKWH /\ \A k \in Range(ord) : ~Hits(size, k, p)
         \/ /\ o \in Range(ord) /\ o \in Windows /\ o # DESKWH /\ Hits(size, o, p)
            /\ \A k \in Range(ord) : Hits(size, k, p) => k = o \/ Under(ord, k, o)
<1> DEFINE over == {i \in DOMAIN ord : inside(p, TrueSize(size[ord[i]]))}
<1>1. Len(ord) \in Nat /\ DOMAIN ord = 1 .. Len(ord)
  BY AllFacts
<1>2. \A i \in 1 .. Len(ord) : i \in over <=> Hits(size, ord[i], p)
  BY <1>1 DEF Hits
<1>3. over \in SUBSET (1 .. Len(ord))
  BY <1>1
<1>4. o = OwnerOf(ord, over)
  BY DEF OwnerIn
<1> HIDE DEF over
<1>5. CASE over = {}
  <2>1. o = DESKWH
    BY <1>4, <1>5 DEF OwnerOf
  <2>2. \A k \in Range(ord) : ~Hits(size, k, p)
    BY <1>2, <1>5, RangeIs
  <2> QED
    BY <2>1, <2>2
<1>6. CASE over # {}
  <2>1. Max(over) \in over /\ \A j \in over : j <= Max(over)
    BY <1>1, <1>3, <1>6, MaxFacts
  <2>2. PICK i \in over : o = ord[i] /\ \A j \in over : j <= i
    <3> DEFINE i == CHOOSE i \in over : \A j \in over : j <= i
    <3>1. i \in over /\ \A j \in over : j <= i
      BY <2>1
    <3>2. o = ord[i]
      BY <1>4, <1>6 DEF OwnerOf
    <3> QED
      BY <3>1, <3>2
  <2>3. i \in 1 .. Len(ord)
    BY <1>3, <2>2
  <2>4. o \in Range(ord) /\ Hits(size, o, p) /\ o \in Windows
    BY <2>2, <2>3, <1>2, RangeIs
  <2>5. ASSUME NEW k \in Range(ord), Hits(size, k, p)
        PROVE  k = o \/ Under(ord, k, o)
    <3>1. PICK j \in 1 .. Len(ord) : k = ord[j]
      BY RangeIs
    <3>2. j \in over
      BY <3>1, <2>5, <1>2
    <3>3. j <= i
      BY <3>2, <2>2
    <3>4. j = i \/ j < i
      BY <3>3, <2>3
    <3> QED
      BY <3>1, <3>4, <2>2, <2>3 DEF Under
  <2> QED
    BY <2>4, <2>5 DEF DESKWH, Windows
<1> QED
  BY <1>5, <1>6

LEMMA OwnerAlone ==
  ASSUME NEW ord, Ordered(ord), NEW size, NEW p, NEW h \in Range(ord),
         Hits(size, h, p),
         \A k \in Range(ord) : Hits(size, k, p) => k = h \/ Under(ord, k, h)
  PROVE  OwnerIn(ord, size, p) = h
<1> DEFINE o == OwnerIn(ord, size, p)
<1>1. /\ o \in Range(ord) /\ Hits(size, o, p)
      /\ \A k \in Range(ord) : Hits(size, k, p) => k = o \/ Under(ord, k, o)
  BY OwnerIs
<1> HIDE DEF o
<1>2. (h = o \/ Under(ord, h, o)) /\ (o = h \/ Under(ord, o, h))
  BY <1>1
<1>3. ~(Under(ord, h, o) /\ Under(ord, o, h))
  BY <1>1, UnderFacts
<1> QED
  BY <1>2, <1>3 DEF o

\* The order, and the places, of the windows other than h are the same.
Alike(ord, size, ord2, size2, h) ==
  /\ Range(ord) \ {h} = Range(ord2) \ {h}
  /\ \A k \in Range(ord) \ {h} : size2[k] = size[k]
  /\ \A k, m \in Range(ord) \ {h} : Under(ord, k, m) <=> Under(ord2, k, m)

LEMMA OwnerKept ==
  ASSUME NEW ord, Ordered(ord), NEW size, NEW ord2, Ordered(ord2), NEW size2,
         NEW h, Alike(ord, size, ord2, size2, h), NEW p,
         OwnerIn(ord, size, p) # h, OwnerIn(ord2, size2, p) # h
  PROVE  OwnerIn(ord, size, p) = OwnerIn(ord2, size2, p)
<1> DEFINE o == OwnerIn(ord, size, p)
           q == OwnerIn(ord2, size2, p)
<1>1. \/ o = DESKWH /\ \A k \in Range(ord) : ~Hits(size, k, p)
      \/ /\ o \in Range(ord) /\ o # DESKWH /\ Hits(size, o, p)
         /\ \A k \in Range(ord) : Hits(size, k, p) => k = o \/ Under(ord, k, o)
  BY OwnerIs
<1>2. \/ q = DESKWH /\ \A k \in Range(ord2) : ~Hits(size2, k, p)
      \/ /\ q \in Range(ord2) /\ q # DESKWH /\ Hits(size2, q, p)
         /\ \A k \in Range(ord2) : Hits(size2, k, p) => k = q \/ Under(ord2, k, q)
  BY OwnerIs
<1>3. o # h /\ q # h
  OBVIOUS
<1> HIDE DEF o, q
<1>4. \A k \in Range(ord) \ {h} : Hits(size, k, p) <=> Hits(size2, k, p)
  BY DEF Alike, Hits
<1>5. \A k : k # h => (k \in Range(ord) <=> k \in Range(ord2))
  BY DEF Alike
<1>6. CASE o = DESKWH /\ q = DESKWH
  BY <1>6 DEF o, q
<1>7. CASE o \in Range(ord) /\ q \in Range(ord2) /\ Hits(size, o, p) /\ Hits(size2, q, p)
           /\ o # DESKWH /\ q # DESKWH
  <2>1. o \in Range(ord) \ {h} /\ q \in Range(ord) \ {h} /\ o \in Range(ord2) /\ q \in Range(ord)
    BY <1>3, <1>5, <1>7
  <2>2. (q = o \/ Under(ord, q, o)) /\ (o = q \/ Under(ord2, o, q))
    BY <1>1, <1>2, <1>4, <1>7, <2>1
  <2>3. Under(ord2, o, q) <=> Under(ord, o, q)
    BY <2>1 DEF Alike
  <2>4. ~(Under(ord, q, o) /\ Under(ord, o, q))
    BY <2>1, UnderFacts
  <2> QED
    BY <2>2, <2>3, <2>4 DEF o, q
<1> QED
  BY <1>1, <1>2, <1>3, <1>4, <1>5, <1>6, <1>7

\* h, in the same order, is over p before and after.
LEMMA OwnerStays ==
  ASSUME NEW ord, Ordered(ord), NEW size, NEW size2, NEW h \in Range(ord),
         Alike(ord, size, ord, size2, h), NEW p, Hits(size, h, p) <=> Hits(size2, h, p)
  PROVE  OwnerIn(ord, size, p) = OwnerIn(ord, size2, p)
<1>1. \A k \in Range(ord) : Hits(size, k, p) <=> Hits(size2, k, p)
  BY DEF Alike, Hits
<1>2. \A i \in DOMAIN ord : ord[i] \in Range(ord)
  BY DEF Range
<1>3. {i \in DOMAIN ord : inside(p, TrueSize(size[ord[i]]))}
        = {i \in DOMAIN ord : inside(p, TrueSize(size2[ord[i]]))}
  BY <1>1, <1>2 DEF Hits
<1> QED
  BY <1>3 DEF OwnerIn

LEMMA AppendUnder ==
  ASSUME NEW ord, Ordered(ord), NEW h \in Windows, h \notin Range(ord)
  PROVE  /\ Last(Append(ord, h)) = h /\ Append(ord, h) # <<>>
         /\ \A k, m \in Range(ord) : Under(Append(ord, h), k, m) <=> Under(ord, k, m)
<1> DEFINE u == Append(ord, h)
           n == Len(ord)
<1>1. ord \in Seq(Windows) /\ n \in Nat
  BY DEF Ordered
<1>2. /\ u \in Seq(Windows) /\ Len(u) = n + 1 /\ u[n + 1] = h /\ u # <<>>
      /\ \A i \in 1 .. n : u[i] = ord[i]
  BY <1>1
<1> HIDE DEF u
<1>3. Last(u) = h
  BY <1>2 DEF Last
<1>4. \A i \in 1 .. n : i \in 1 .. n + 1
  BY <1>1
<1> HIDE DEF n
<1>5. ASSUME NEW k \in Range(ord), NEW m \in Range(ord)
      PROVE  Under(u, k, m) <=> Under(ord, k, m)
  <2>1. ASSUME Under(ord, k, m)
        PROVE  Under(u, k, m)
    <3>1. PICK i, j \in 1 .. n : i < j /\ ord[i] = k /\ ord[j] = m
      BY <2>1 DEF Under, n
    <3>2. i \in 1 .. n + 1 /\ j \in 1 .. n + 1 /\ u[i] = k /\ u[j] = m
      BY <3>1, <1>2, <1>4
    <3> QED
      BY <3>1, <3>2, <1>2 DEF Under
  <2>2. ASSUME Under(u, k, m)
        PROVE  Under(ord, k, m)
    <3>1. PICK i, j \in 1 .. n + 1 : i < j /\ u[i] = k /\ u[j] = m
      BY <2>2, <1>2 DEF Under
    <3>2. k # h /\ m # h
      OBVIOUS
    <3>3. i # n + 1 /\ j # n + 1
      BY <3>1, <3>2, <1>2
    <3>4. i \in 1 .. n /\ j \in 1 .. n
      BY <3>1, <3>3, <1>1 DEF n
    <3>5. ord[i] = k /\ ord[j] = m
      BY <3>1, <3>4, <1>2
    <3> QED
      BY <3>1, <3>4, <3>5 DEF Under, n
  <2> QED
    BY <2>1, <2>2
<1> QED
  BY <1>2, <1>3, <1>5 DEF u

\* Where the elements are, when the one at k has been taken out.
LEMMA DeleteIs ==
  ASSUME NEW ord, Ordered(ord), NEW k \in 1 .. Len(ord),
         NEW u, u = ob_delete(ord, ord[k])
  PROVE  /\ Len(u) = Len(ord) - 1
         /\ \A i \in 1 .. Len(ord) - 1 : u[i] = IF i < k THEN ord[i] ELSE ord[i + 1]
<1> DEFINE n == Len(ord)
           a == SubSeq(ord, 1, k - 1)
           b == SubSeq(ord, k + 1, n)
<1>1. ord \in Seq(Windows) /\ n \in Nat
  BY DEF Ordered
<1>2. u = a \o b
  BY PositionIs DEF ob_delete, RemoveAt
<1>3. /\ a \in Seq(Windows) /\ Len(a) = k - 1 /\ \A i \in 1 .. k - 1 : a[i] = ord[i]
      /\ b \in Seq(Windows) /\ Len(b) = n - k /\ \A i \in 1 .. n - k : b[i] = ord[k + i]
  BY <1>1
<1> HIDE DEF a, b, n
<1>4. /\ Len(a \o b) = Len(a) + Len(b)
      /\ \A i \in 1 .. Len(a) : (a \o b)[i] = a[i]
      /\ \A i \in 1 .. Len(b) : (a \o b)[Len(a) + i] = b[i]
  <2>1. a \in Seq(Windows) /\ b \in Seq(Windows)
    BY <1>3
  <2> QED
    BY <2>1
<1>5. (k - 1) + (n - k) = n - 1 /\ k \in Int /\ k \in 1 .. n
  BY <1>1 DEF n
<1>6. Len(u) = n - 1
  BY <1>2, <1>3, <1>4, <1>5
<1>7. ASSUME NEW i \in 1 .. n - 1
      PROVE  u[i] = IF i < k THEN ord[i] ELSE ord[i + 1]
  <2>1. CASE i < k
    <3>1. i \in 1 .. k - 1
      BY <2>1, <1>5
    <3> QED
      BY <3>1, <2>1, <1>2, <1>3, <1>4
  <2>2. CASE ~(i < k)
    <3>1. i - (k - 1) \in 1 .. n - k /\ (k - 1) + (i - (k - 1)) = i
          /\ k + (i - (k - 1)) = i + 1
      BY <2>2, <1>1, <1>5
    <3>2. u[(k - 1) + (i - (k - 1))] = ord[k + (i - (k - 1))]
      BY <3>1, <1>2, <1>3, <1>4
    <3> QED
      BY <3>1, <3>2, <2>2
  <2> QED
    BY <2>1, <2>2
<1> QED
  BY <1>6, <1>7 DEF n

LEMMA DeleteUnder ==
  ASSUME NEW ord, Ordered(ord), NEW h \in Range(ord)
  PROVE  /\ \A x, y \in Range(ord) \ {h} :
              Under(ob_delete(ord, h), x, y) <=> Under(ord, x, y)
         /\ ob_delete(ord, h) # <<>> /\ h # Last(ord)
              => Last(ob_delete(ord, h)) = Last(ord)
<1> DEFINE u == ob_delete(ord, h)
           n == Len(ord)
<1>1. PICK k \in 1 .. n : h = ord[k]
  BY RangeIs
<1>2. n \in Nat /\ \A i, j \in 1 .. n : ord[i] = ord[j] => i = j
  BY DEF Ordered
<1>3. Len(u) = n - 1 /\ \A i \in 1 .. n - 1 : u[i] = IF i < k THEN ord[i] ELSE ord[i + 1]
  BY <1>1, DeleteIs
<1>4. k \in Int /\ k >= 1 /\ k <= n
  BY <1>2
<1> HIDE DEF u, n
<1>5. ASSUME NEW x, NEW y, Under(u, x, y)
      PROVE  Under(ord, x, y)
  <2>1. PICK i, j \in 1 .. n - 1 : i < j /\ u[i] = x /\ u[j] = y
    BY <1>3, <1>5 DEF Under
  <2> DEFINE s(e) == IF e < k THEN e ELSE e + 1
  <2>2. s(i) \in 1 .. n /\ s(j) \in 1 .. n /\ s(i) < s(j)
    BY <2>1, <1>2, <1>4
  <2>3. ord[s(i)] = x /\ ord[s(j)] = y
    BY <2>1, <1>3
  <2> QED
    BY <2>2, <2>3 DEF Under, n
<1>6. ASSUME NEW x \in Range(ord) \ {h}, NEW y \in Range(ord) \ {h}, Under(ord, x, y)
      PROVE  Under(u, x, y)
  <2>1. PICK i, j \in 1 .. n : i < j /\ ord[i] = x /\ ord[j] = y
    BY <1>6 DEF Under, n
  <2>2. i # k /\ j # k
    BY <2>1, <1>1
  <2> DEFINE s(e) == IF e < k THEN e ELSE e - 1
  <2>3. \A e \in 1 .. n : e # k => s(e) \in 1 .. n - 1 /\ u[s(e)] = ord[e]
    <3> TAKE e \in 1 .. n
    <3> HAVE e # k
    <3>1. CASE e < k
      <4>1. e \in 1 .. n - 1
        BY <3>1, <1>4, <1>2
      <4> QED
        BY <4>1, <3>1, <1>3
    <3>2. CASE e > k
      <4>1. e - 1 \in 1 .. n - 1 /\ ~(e - 1 < k) /\ (e - 1) + 1 = e /\ ~(e < k)
        BY <3>2, <1>4, <1>2
      <4> QED
        BY <4>1, <1>3
    <3> QED
      BY <3>1, <3>2, <1>4
  <2>4. s(i) < s(j)
    BY <2>1, <2>2, <1>4
  <2> HIDE DEF s
  <2>5. s(i) \in 1 .. n - 1 /\ s(j) \in 1 .. n - 1 /\ u[s(i)] = x /\ u[s(j)] = y
    BY <2>1, <2>2, <2>3
  <2> QED
    BY <2>4, <2>5, <1>3 DEF Under
<1>7. ASSUME u # <<>>, h # Last(ord)
      PROVE  Last(u) = Last(ord)
  <2>1. Ordered(u)
    BY DeleteFacts DEF u
  <2>2. Len(u) \in 1 .. Len(u) /\ Last(u) = u[Len(u)]
    BY <2>1, <1>7, LastFacts
  <2>3. n - 1 \in 1 .. n - 1 /\ n >= 1
    BY <2>2, <1>2, <1>3
  <2>4. Last(ord) = ord[n]
    BY DEF Last, n
  <2>5. k # n
    BY <2>4, <1>1, <1>7
  <2>6. ~(n - 1 < k) /\ (n - 1) + 1 = n
    BY <2>5, <1>4, <1>2
  <2> QED
    BY <2>2, <2>3, <2>4, <2>6, <1>3
<1> QED
  BY <1>5, <1>6, <1>7 DEF u

(***************************************************************************)
(* Rectangles: what unions, common parts and shadows contain.              *)
(***************************************************************************)
LEMMA RectFields ==
  ASSUME NEW r \in GRECT
  PROVE  r.x \in Int /\ r.y \in Int /\ r.w \in Int /\ r.h \in Int
BY DEF GRECT

LEMMA PointFields ==
  ASSUME NEW p \in Points
  PROVE  p[1] \in Int /\ p[2] \in Int
BY DEF Points

LEMMA RectMade ==
  ASSUME NEW x \in Int, NEW y \in Int, NEW w \in Int, NEW h \in Int
  PROVE  /\ Rect(x, y, w, h) \in GRECT
         /\ Rect(x, y, w, h).x = x /\ Rect(x, y, w, h).y = y
         /\ Rect(x, y, w, h).w = w /\ Rect(x, y, w, h).h = h
BY DEF Rect, GRECT

\* The left, the upper, the right and the lower edge.
LEMMA UnionEdges ==
  ASSUME NEW a \in GRECT, NEW b \in GRECT, NEW u, u = rc_union(a, b)
  PROVE  /\ u \in GRECT
         /\ u.x = Smaller(a.x, b.x) /\ u.y = Smaller(a.y, b.y)
         /\ u.x + u.w = Larger(a.x + a.w, b.x + b.w)
         /\ u.y + u.h = Larger(a.y + a.h, b.y + b.h)
<1>1. /\ a.x \in Int /\ a.y \in Int /\ a.w \in Int /\ a.h \in Int
      /\ b.x \in Int /\ b.y \in Int /\ b.w \in Int /\ b.h \in Int
  BY RectFields
<1> DEFINE l == Smaller(a.x, b.x)
           t == Smaller(a.y, b.y)
           r == Larger(a.x + a.w, b.x + b.w)
           o == Larger(a.y + a.h, b.y + b.h)
<1>2. l \in Int /\ t \in Int
  BY <1>1, Extremes
<1>3. r \in Int /\ o \in Int
  <2>1. a.x + a.w \in Int /\ b.x + b.w \in Int /\ a.y + a.h \in Int /\ b.y + b.h \in Int
    BY <1>1
  <2> QED
    BY <2>1, Extremes
<1>4. u = Rect(l, t, r - l, o - t)
  BY DEF rc_union
<1> HIDE DEF l, t, r, o
<1> DEFINE w == r - l
           v == o - t
<1>5. w \in Int /\ v \in Int /\ l + w = r /\ t + v = o /\ u = Rect(l, t, w, v)
  BY <1>2, <1>3, <1>4
<1> HIDE DEF w, v
<1>6. /\ u \in GRECT /\ u.x = l /\ u.y = t /\ u.w = w /\ u.h = v
  <2>1. w \in Int /\ v \in Int
    BY <1>5
  <2> DEFINE s == Rect(l, t, w, v)
  <2>2. s \in GRECT /\ s.x = l /\ s.y = t /\ s.w = w /\ s.h = v
    BY <2>1, <1>2, RectMade
  <2>3. u = s
    BY <1>5
  <2> HIDE DEF s
  <2> QED
    BY <2>2, <2>3
<1> QED
  BY <1>5, <1>6 DEF l, t, r, o

LEMMA CommonEdges ==
  ASSUME NEW a \in GRECT, NEW b \in GRECT, NEW u, u = rc_intersect(a, b)
  PROVE  /\ u \in GRECT
         /\ u.x = Larger(a.x, b.x) /\ u.y = Larger(a.y, b.y)
         /\ u.x + u.w = Smaller(a.x + a.w, b.x + b.w)
         /\ u.y + u.h = Smaller(a.y + a.h, b.y + b.h)
<1>1. /\ a.x \in Int /\ a.y \in Int /\ a.w \in Int /\ a.h \in Int
      /\ b.x \in Int /\ b.y \in Int /\ b.w \in Int /\ b.h \in Int
  BY RectFields
<1> DEFINE l == Larger(a.x, b.x)
           t == Larger(a.y, b.y)
           r == Smaller(a.x + a.w, b.x + b.w)
           o == Smaller(a.y + a.h, b.y + b.h)
<1>2. l \in Int /\ t \in Int
  BY <1>1, Extremes
<1>3. r \in Int /\ o \in Int
  <2>1. a.x + a.w \in Int /\ b.x + b.w \in Int /\ a.y + a.h \in Int /\ b.y + b.h \in Int
    BY <1>1
  <2> QED
    BY <2>1, Extremes
<1>4. u = Rect(l, t, r - l, o - t)
  BY DEF rc_intersect
<1> HIDE DEF l, t, r, o
<1> DEFINE w == r - l
           v == o - t
<1>5. w \in Int /\ v \in Int /\ l + w = r /\ t + v = o /\ u = Rect(l, t, w, v)
  BY <1>2, <1>3, <1>4
<1> HIDE DEF w, v
<1>6. /\ u \in GRECT /\ u.x = l /\ u.y = t /\ u.w = w /\ u.h = v
  <2>1. w \in Int /\ v \in Int
    BY <1>5
  <2> DEFINE s == Rect(l, t, w, v)
  <2>2. s \in GRECT /\ s.x = l /\ s.y = t /\ s.w = w /\ s.h = v
    BY <2>1, <1>2, RectMade
  <2>3. u = s
    BY <1>5
  <2> HIDE DEF s
  <2> QED
    BY <2>2, <2>3
<1> QED
  BY <1>5, <1>6 DEF l, t, r, o

LEMMA InUnion ==
  ASSUME NEW a \in GRECT, NEW b \in GRECT, NEW p \in Points, inside(p, a) \/ inside(p, b)
  PROVE  inside(p, rc_union(a, b))
<1> DEFINE u == rc_union(a, b)
<1>1. /\ a.x \in Int /\ a.y \in Int /\ a.w \in Int /\ a.h \in Int
      /\ b.x \in Int /\ b.y \in Int /\ b.w \in Int /\ b.h \in Int
      /\ p[1] \in Int /\ p[2] \in Int
  BY RectFields, PointFields
<1>2. /\ u.x = Smaller(a.x, b.x) /\ u.y = Smaller(a.y, b.y)
      /\ u.x + u.w = Larger(a.x + a.w, b.x + b.w)
      /\ u.y + u.h = Larger(a.y + a.h, b.y + b.h)
  BY UnionEdges
<1> HIDE DEF u
<1>3. /\ p[1] >= u.x /\ p[2] >= u.y
      /\ p[1] < u.x + u.w /\ p[2] < u.y + u.h
  BY <1>1, <1>2 DEF Smaller, Larger, inside
<1> QED
  BY <1>3 DEF inside, u

LEMMA InCommon ==
  ASSUME NEW a \in GRECT, NEW b \in GRECT, NEW p \in Points
  PROVE  /\ inside(p, rc_intersect(a, b)) <=> inside(p, a) /\ inside(p, b)
         /\ inside(p, a) /\ inside(p, b) => Meets(a, b)
         /\ Meets(a, b) => rc_intersect(a, b) \in Sized
<1> DEFINE u == rc_intersect(a, b)
<1>1. /\ a.x \in Int /\ a.y \in Int /\ a.w \in Int /\ a.h \in Int
      /\ b.x \in Int /\ b.y \in Int /\ b.w \in Int /\ b.h \in Int
      /\ p[1] \in Int /\ p[2] \in Int
  BY RectFields, PointFields
<1>2. /\ u \in GRECT
      /\ u.x = Larger(a.x, b.x) /\ u.y = Larger(a.y, b.y)
      /\ u.x + u.w = Smaller(a.x + a.w, b.x + b.w)
      /\ u.y + u.h = Smaller(a.y + a.h, b.y + b.h)
  BY CommonEdges
<1>3. Meets(a, b) <=> u.w > 0 /\ u.h > 0
  BY DEF Meets
<1> HIDE DEF u
<1>4. u.x \in Int /\ u.y \in Int /\ u.w \in Int /\ u.h \in Int
  BY <1>2, RectFields
<1>5. inside(p, u) <=> inside(p, a) /\ inside(p, b)
  BY <1>1, <1>2 DEF Smaller, Larger, inside
<1>6. inside(p, u) => u.w > 0 /\ u.h > 0
  BY <1>1, <1>4 DEF inside
<1>7. Meets(a, b) => u \in Sized
  BY <1>2, <1>3 DEF Sized
<1> QED
  BY <1>3, <1>5, <1>6, <1>7 DEF u

LEMMA GrowEdges ==
  ASSUME NEW r \in GRECT
  PROVE  /\ Grow(r, Shadow) \in GRECT
         /\ Grow(r, Shadow).x = r.x /\ Grow(r, Shadow).y = r.y
         /\ Grow(r, Shadow).w = r.w + Shadow /\ Grow(r, Shadow).h = r.h + Shadow
<1>1. r.x \in Int /\ r.y \in Int /\ r.w \in Int /\ r.h \in Int /\ Shadow \in Int
  BY RectFields, ScreenFacts
<1>2. Grow(r, Shadow) = [x |-> r.x, y |-> r.y, w |-> r.w + Shadow, h |-> r.h + Shadow]
  <2>1. Grow(r, Shadow) = [r EXCEPT !.w = r.w + Shadow, !.h = r.h + Shadow]
    BY DEF Grow
  <2>2. r = [x |-> r.x, y |-> r.y, w |-> r.w, h |-> r.h]
    BY DEF GRECT
  <2> QED
    BY <2>1, <2>2
<1> QED
  BY <1>1, <1>2 DEF GRECT

LEMMA InGrown ==
  ASSUME NEW a \in GRECT, NEW p \in Points
  PROVE  /\ inside(p, a) => inside(p, Grow(a, Shadow))
         /\ \A b \in GRECT : inside(p, Grow(a, Shadow)) =>
              /\ inside(p, Grow(rc_union(a, b), Shadow))
              /\ inside(p, Grow(rc_union(b, a), Shadow))
<1>1. /\ a.x \in Int /\ a.y \in Int /\ a.w \in Int /\ a.h \in Int
      /\ p[1] \in Int /\ p[2] \in Int /\ Shadow \in Nat
  BY RectFields, PointFields, ScreenFacts
<1>2. inside(p, Grow(a, Shadow))
        <=> /\ p[1] >= a.x /\ p[1] < a.x + a.w + Shadow
            /\ p[2] >= a.y /\ p[2] < a.y + a.h + Shadow
  <2>1. /\ a.x + (a.w + Shadow) = a.x + a.w + Shadow
        /\ a.y + (a.h + Shadow) = a.y + a.h + Shadow
    BY <1>1
  <2> QED
    BY <2>1, GrowEdges DEF inside
<1>3. inside(p, a) => inside(p, Grow(a, Shadow))
  BY <1>1, <1>2 DEF inside
<1>4. ASSUME NEW b \in GRECT, NEW u \in GRECT, inside(p, Grow(a, Shadow)),
             u = rc_union(a, b) \/ u = rc_union(b, a)
      PROVE  inside(p, Grow(u, Shadow))
  <2>1. /\ b.x \in Int /\ b.y \in Int /\ b.w \in Int /\ b.h \in Int
        /\ u.x \in Int /\ u.y \in Int /\ u.w \in Int /\ u.h \in Int
    BY RectFields
  <2>2. u.x <= a.x /\ u.y <= a.y /\ u.x + u.w >= a.x + a.w /\ u.y + u.h >= a.y + a.h
    <3>1. CASE u = rc_union(a, b)
      BY <3>1, <1>1, <2>1, UnionEdges DEF Smaller, Larger
    <3>2. CASE u = rc_union(b, a)
      BY <3>2, <1>1, <2>1, UnionEdges DEF Smaller, Larger
    <3> QED
      BY <3>1, <3>2, <1>4
  <2>3. /\ p[1] >= u.x /\ p[1] < u.x + (u.w + Shadow)
        /\ p[2] >= u.y /\ p[2] < u.y + (u.h + Shadow)
    BY <1>1, <1>2, <1>4, <2>1, <2>2
  <2> QED
    BY <2>3, GrowEdges DEF inside
<1>5. \A b \in GRECT : rc_union(a, b) \in GRECT /\ rc_union(b, a) \in GRECT
  BY UnionEdges
<1> QED
  BY <1>3, <1>4, <1>5

LEMMA SizedFacts ==
  ASSUME NEW r \in Sized
  PROVE  /\ r \in GRECT /\ HasSize(r) /\ TrueSize(r) = Grow(r, Shadow) /\ r # gl_rzero
<1>1. r \in GRECT /\ r.w \in Int /\ r.h \in Int /\ r.w > 0 /\ r.h > 0
  BY Fields DEF Sized
<1>2. HasSize(r)
  BY <1>1 DEF HasSize
<1> QED
  BY <1>1, <1>2, ZeroFacts DEF TrueSize

LEMMA OutOfZero ==
  ASSUME NEW p \in Points
  PROVE  ~inside(p, gl_rzero) /\ gl_rzero.x = 0 /\ gl_rzero.y = 0
         /\ gl_rzero.w = 0 /\ gl_rzero.h = 0
<1>1. gl_rzero.x = 0 /\ gl_rzero.y = 0 /\ gl_rzero.w = 0 /\ gl_rzero.h = 0
  BY DEF gl_rzero, Rect
<1> QED
  BY <1>1, PointFields DEF inside

UnionKind == [kind |-> "union"]

LEMMA UnionRuns ==
  ASSUME NEW s, Len(Tail(s)) \in Nat, DOMAIN Tail(s) = 1 .. Len(Tail(s))
  PROVE  Runs(UnionKind, Head(s), Tail(s), w_union(s))
<1> DEFINE q == Tail(s)
           n == Len(q)
           base == Head(s)
           E(g) == [u \in SUBSET (1 .. n) |->
                      IF u = {} THEN base
                      ELSE rc_union(g[u \ {Max(u)}], q[Max(u)])]
           it == CHOOSE g : g = E(g)
<1>1. PICK g : Ran(UnionKind, base, q, SUBSET (1 .. n), g)
  BY RunExists
<1>2. ASSUME NEW h
      PROVE  [u \in SUBSET (1 .. n) |-> RunStep(UnionKind, base, q, h, u)] = E(h)
  BY DEF RunStep, Step, UnionKind
<1>3. g = E(g)
  BY <1>1, <1>2 DEF Ran
<1>4. w_union(s) = it[1 .. n]
  BY DEF w_union, FoldLeft, MapThenFoldSet
<1> HIDE DEF E
<1>5. it = E(it)
  BY <1>3
<1> HIDE DEF it, base, n
<1>6. Ran(UnionKind, base, q, SUBSET (1 .. n), it)
  BY <1>2, <1>5 DEF Ran
<1>7. Runs(UnionKind, base, q, it[1 .. n])
  BY <1>6 DEF Runs, n
<1> QED
  BY <1>4, <1>7 DEF base

LEMMA UnionSized ==
  ASSUME NEW a \in Sized, NEW b \in Sized
  PROVE  rc_union(a, b) \in Sized
<1> DEFINE u == rc_union(a, b)
<1>1. a \in GRECT /\ b \in GRECT
  BY SizedFacts
<1>2. /\ a.x \in Int /\ a.y \in Int /\ a.w \in Int /\ a.h \in Int /\ a.w > 0 /\ a.h > 0
      /\ b.x \in Int /\ b.y \in Int /\ b.w \in Int /\ b.h \in Int /\ b.w > 0 /\ b.h > 0
  BY Fields
<1>3. /\ u \in GRECT
      /\ u.x = Smaller(a.x, b.x) /\ u.y = Smaller(a.y, b.y)
      /\ u.x + u.w = Larger(a.x + a.w, b.x + b.w)
      /\ u.y + u.h = Larger(a.y + a.h, b.y + b.h)
  BY <1>1, UnionEdges
<1> HIDE DEF u
<1>4. u.x \in Int /\ u.y \in Int /\ u.w \in Int /\ u.h \in Int
  BY <1>3, RectFields
<1>5. u.w > 0 /\ u.h > 0
  BY <1>2, <1>3, <1>4 DEF Smaller, Larger
<1> QED
  BY <1>3, <1>5 DEF Sized, u

\* The union of the rectangles of a list contains each of them.
LEMMA UnionFacts ==
  ASSUME NEW s \in Seq(Sized), s # <<>>
  PROVE  /\ w_union(s) \in Sized
         /\ \A p \in Points : \A i \in DOMAIN s : inside(p, s[i]) => inside(p, w_union(s))
<1> HIDE DEF Sized
<1>1. /\ Len(s) \in Nat /\ Len(s) >= 1 /\ DOMAIN s = 1 .. Len(s)
      /\ Tail(s) \in Seq(Sized) /\ Len(Tail(s)) = Len(s) - 1
      /\ DOMAIN Tail(s) = 1 .. Len(Tail(s)) /\ Head(s) = s[1]
      /\ \A i \in 1 .. Len(s) - 1 : Tail(s)[i] = s[i + 1]
      /\ \A i \in 1 .. Len(s) : s[i] \in Sized
  OBVIOUS
<1> DEFINE n == Len(s) - 1
           R == {z \in (0 .. n) \X Sized :
                   \A p \in Points : \A i \in 1 .. z[1] + 1 :
                     inside(p, s[i]) => inside(p, z[2])}
<1>2. n \in Nat /\ Len(Tail(s)) = n
  BY <1>1
<1>3. Runs(UnionKind, Head(s), Tail(s), w_union(s))
  BY <1>1, <1>2, UnionRuns
<1>4. <<0, Head(s)>> \in R
  <2>1. s[1] \in Sized /\ 0 \in 0 .. n /\ \A i \in 1 .. 0 + 1 : i = 1
    BY <1>1, <1>2
  <2> QED
    BY <2>1, <1>1
<1>5. ASSUME NEW i \in 1 .. Len(Tail(s)), NEW y, <<i - 1, y>> \in R
      PROVE  <<i, Step(UnionKind, y, Tail(s)[i])>> \in R
  <2> HIDE DEF n
  <2>1. /\ i \in 0 .. n /\ i \in 1 .. Len(s) - 1 /\ (i - 1) + 1 = i
        /\ i + 1 \in 1 .. Len(s) /\ i \in Nat
    BY <1>1, <1>2
  <2>2. y \in Sized /\ \A p \in Points : \A j \in 1 .. i : inside(p, s[j]) => inside(p, y)
    BY <1>5, <2>1
  <2> DEFINE z == Step(UnionKind, y, Tail(s)[i])
  <2>3. z = rc_union(y, s[i + 1]) /\ s[i + 1] \in Sized
    BY <1>1, <2>1 DEF Step, UnionKind
  <2> HIDE DEF z
  <2>4. z \in Sized
    BY <2>2, <2>3, UnionSized
  <2>5. ASSUME NEW p \in Points, NEW j \in 1 .. i + 1, inside(p, s[j])
        PROVE  inside(p, z)
    <3>1. j \in 1 .. i \/ j = i + 1
      BY <2>1
    <3>2. inside(p, y) \/ inside(p, s[i + 1])
      BY <3>1, <2>2, <2>5
    <3>3. y \in GRECT /\ s[i + 1] \in GRECT
      BY <2>2, <2>3, SizedFacts
    <3> QED
      BY <3>2, <3>3, <2>3, InUnion
  <2> QED
    BY <2>1, <2>4, <2>5 DEF z
<1> HIDE DEF R
<1>6. <<Len(Tail(s)), w_union(s)>> \in R
  <2> DEFINE q == Tail(s)
             base == Head(s)
             r == w_union(s)
  <2>1. /\ Len(q) \in Nat /\ Runs(UnionKind, base, q, r) /\ <<0, base>> \in R
        /\ \A i \in 1 .. Len(q) : \A y : <<i - 1, y>> \in R => <<i, Step(UnionKind, y, q[i])>> \in R
    BY <1>2, <1>3, <1>4, <1>5
  <2> HIDE DEF q, base, r, n
  <2>2. <<Len(q), r>> \in R
    BY <2>1, RunReach
  <2> QED
    BY <2>2 DEF q, r
<1>7. w_union(s) \in Sized
      /\ \A p \in Points : \A i \in 1 .. n + 1 : inside(p, s[i]) => inside(p, w_union(s))
  BY <1>2, <1>6 DEF R
<1>8. n + 1 = Len(s)
  BY <1>1
<1> QED
  BY <1>1, <1>7, <1>8

LEMMA HandlesApart == DESKWH \notin Windows /\ NIL \notin Windows /\ NIL # DESKWH
BY DEF DESKWH, NIL, Windows

(***************************************************************************)
(* What is drawn. A tree is sound if its lists are exact; a pixel is fine  *)
(* if it is as ScreenRight says.                                           *)
(***************************************************************************)
Sound(t) ==
  /\ Ordered(t.order)
  /\ \A h \in Handles : t.size[h] \in GRECT /\ t.rlist[h] \in Seq(Sized)
  /\ \A h \in Range(t.order) : t.size[h] \in Sized
  /\ t.top = IF t.order = <<>> THEN NIL ELSE Last(t.order)
  /\ \A p \in Screen : \A h \in {DESKWH} \cup Range(t.order) :
       Owns(t, h, p) <=> h = Owner(t, p)

Fine(pic, ask, t, p) ==
  \/ pic[p] = Due(t, p)
  \/ LET h == Owner(t, p)
     IN h # DESKWH /\ inside(p, Work(t.size, h)) /\ inside(p, ask[h])

AskedSized(ask) ==
  DOMAIN ask = Windows /\ \A h \in Windows : ask[h] \in Sized \/ ask[h] = gl_rzero

LEMMA OwnerTree ==
  ASSUME NEW t, NEW p
  PROVE  Owner(t, p) = OwnerIn(t.order, t.size, p)
BY DEF Owner, OwnerIn, OwnerOf

LEMMA SoundTree ==
  ASSUME NEW cr, NEW ord, NEW size, NEW l, Formed(cr, ord, size, l), Exact(ord, size, l)
  PROVE  Sound(Tree(ord, size, l))
<1> DEFINE t == Tree(ord, size, l)
<1>1. /\ t.order = ord /\ t.size = size /\ t.rlist = l.rlist
      /\ t.top = IF ord = <<>> THEN NIL ELSE Last(ord)
  BY DEF Tree
<1>2. /\ Ordered(ord) /\ size \in [Handles -> GRECT]
      /\ \A h \in Windows : size[h] \in Sized \/ h \notin Range(ord)
      /\ l \in ListRecs
  BY DEF Formed
<1> HIDE DEF t, Sized
<1>3. l.rlist \in [Handles -> Seq(Sized)]
  BY <1>2 DEF ListRecs
<1>4. \A h \in Range(ord) : size[h] \in Sized
  BY <1>2, RangeIs
<1>5. ASSUME NEW p \in Screen, NEW h \in {DESKWH} \cup Range(ord)
      PROVE  Owns(t, h, p) <=> h = Owner(t, p)
  <2> DEFINE I == {i \in DOMAIN l.rlist[h] : inside(p, l.rlist[h][i])}
  <2>1. Cardinality(I) = IF h = Owner(t, p) THEN 1 ELSE 0
    BY <1>1, OwnerTree DEF Exact
  <2>2. Owns(t, h, p) <=> I # {}
    BY <1>1 DEF Owns
  <2> HIDE DEF I
  <2>3. Cardinality({}) = 0
    BY FS_EmptySet
  <2>4. IsFiniteSet(I)
    <3>1. h \in Handles
      BY <1>2, RangeIs DEF Handles
    <3>2. l.rlist[h] \in Seq(Sized)
      BY <3>1, <1>3
    <3>3. DOMAIN l.rlist[h] = 1 .. Len(l.rlist[h]) /\ Len(l.rlist[h]) \in Nat
      BY <3>2
    <3>4. IsFiniteSet(1 .. Len(l.rlist[h])) /\ I \subseteq 1 .. Len(l.rlist[h])
      BY <3>3, FS_Interval DEF I
    <3> QED
      BY <3>4, FS_Subset
  <2>5. Cardinality(I) = 0 => I = {}
    BY <2>4, FS_EmptySet
  <2> QED
    BY <2>1, <2>2, <2>3, <2>5
<1>6. \A h \in Handles : t.size[h] \in GRECT /\ t.rlist[h] \in Seq(Sized)
  BY <1>1, <1>2, <1>3
<1> QED
  BY <1>1, <1>2, <1>4, <1>5, <1>6 DEF Sound, t

LEMMA OwnerHandle ==
  ASSUME NEW t, Sound(t), NEW p
  PROVE  \/ Owner(t, p) = DESKWH /\ \A k \in Range(t.order) : ~Hits(t.size, k, p)
         \/ /\ Owner(t, p) \in Range(t.order) /\ Owner(t, p) \in Windows
            /\ Owner(t, p) # DESKWH /\ Hits(t.size, Owner(t, p), p)
            /\ \A k \in Range(t.order) :
                 Hits(t.size, k, p) => k = Owner(t, p) \/ Under(t.order, k, Owner(t, p))
<1>1. Ordered(t.order)
  BY DEF Sound
<1>2. Owner(t, p) = OwnerIn(t.order, t.size, p)
  BY OwnerTree
<1> QED
  BY <1>1, <1>2, OwnerIs

LEMMA DueFrame ==
  ASSUME NEW t, NEW p, Owner(t, p) # DESKWH, ~inside(p, Work(t.size, Owner(t, p)))
  PROVE  Due(t, p) = Frame(t, Owner(t, p), p)
BY DEF Due

LEMMA DueDesk ==
  ASSUME NEW t, NEW p, Owner(t, p) = DESKWH
  PROVE  Due(t, p) = Background(p)
BY DEF Due

LEMMA DueInside ==
  ASSUME NEW t, NEW p, Owner(t, p) # DESKWH, inside(p, Work(t.size, Owner(t, p)))
  PROVE  Due(t, p) = Inside(t, Owner(t, p), p)
BY DEF Due

LEMMA FramesDrawn ==
  ASSUME NEW t, Sound(t), NEW pic, NEW ws, ws \subseteq Range(t.order), NEW clip,
         NEW p \in Screen
  PROVE  DrawFrames(pic, t, ws, clip)[p]
           = IF /\ Owner(t, p) \in ws /\ ~inside(p, Work(t.size, Owner(t, p)))
                /\ inside(p, clip)
             THEN Due(t, p) ELSE pic[p]
<1> DEFINE o == Owner(t, p)
           owners == {h \in ws : Owns(t, h, p) /\ ~inside(p, Work(t.size, h))}
<1>1. DrawFrames(pic, t, ws, clip)[p]
        = IF inside(p, clip) /\ owners # {}
          THEN Frame(t, CHOOSE h \in owners : TRUE, p) ELSE pic[p]
  BY DEF DrawFrames
<1>2. \A h \in ws : Owns(t, h, p) <=> h = o
  BY DEF Sound
<1>3. DESKWH \notin ws
  <2>1. Ordered(t.order)
    BY DEF Sound
  <2> QED
    BY <2>1, RangeIs DEF DESKWH, Windows
<1>4. CASE o \in ws /\ ~inside(p, Work(t.size, o))
  <2>1. owners = {o}
    BY <1>2, <1>4
  <2>2. (CHOOSE h \in owners : TRUE) = o
    BY <2>1
  <2>3. Due(t, p) = Frame(t, o, p)
    BY <1>3, <1>4, DueFrame
  <2> QED
    BY <1>1, <1>4, <2>1, <2>2, <2>3
<1>5. CASE ~(o \in ws /\ ~inside(p, Work(t.size, o)))
  <2>1. owners = {}
    BY <1>2, <1>5
  <2> QED
    BY <1>1, <1>5, <2>1
<1> QED
  BY <1>4, <1>5

\* Nothing but what is due is drawn.
LEMMA FramesRight ==
  ASSUME NEW t, Sound(t), NEW pic, NEW ws, ws \subseteq Range(t.order), NEW clip,
         NEW p \in Screen, NEW ask
  PROVE  /\ DrawFrames(pic, t, ws, clip)[p] = Due(t, p)
              \/ DrawFrames(pic, t, ws, clip)[p] = pic[p]
         /\ Fine(pic, ask, t, p) => Fine(DrawFrames(pic, t, ws, clip), ask, t, p)
BY FramesDrawn DEF Fine

LEMMA DeskDrawn ==
  ASSUME NEW t, Sound(t), NEW pic, NEW clip, NEW p \in Screen, NEW ask
  PROVE  /\ w_drawdesk(pic, t, clip)[p] = Due(t, p)
              \/ w_drawdesk(pic, t, clip)[p] = pic[p]
         /\ Owner(t, p) = DESKWH /\ inside(p, clip)
              => Fine(w_drawdesk(pic, t, clip), ask, t, p)
         /\ Fine(pic, ask, t, p) => Fine(w_drawdesk(pic, t, clip), ask, t, p)
<1>1. w_drawdesk(pic, t, clip)[p]
        = IF inside(p, clip) /\ Owner(t, p) = DESKWH THEN Background(p) ELSE pic[p]
  BY DEF w_drawdesk, Sound
<1>2. Owner(t, p) = DESKWH => Due(t, p) = Background(p)
  BY DueDesk
<1> QED
  BY <1>1, <1>2 DEF Fine

LEMMA WorkRect ==
  ASSUME NEW t, Sound(t), NEW h \in Windows
  PROVE  /\ h \in Handles /\ Work(t.size, h) \in GRECT
         /\ Work(t.size, h).x = t.size[h].x + 1 /\ Work(t.size, h).y = t.size[h].y + 1
         /\ Work(t.size, h).w = t.size[h].w - 2 /\ Work(t.size, h).h = t.size[h].h - 2
<1>1. h \in Handles /\ h # DESKWH
  BY DEF Handles, DESKWH, Windows
<1>2. t.size[h] \in GRECT
  BY <1>1 DEF Sound
<1>3. /\ t.size[h].x \in Int /\ t.size[h].y \in Int
      /\ t.size[h].w \in Int /\ t.size[h].h \in Int
  BY <1>2, RectFields
<1> DEFINE x == t.size[h].x + 1
           y == t.size[h].y + 1
           w == t.size[h].w - 2
           v == t.size[h].h - 2
           r == Rect(x, y, w, v)
<1>4. x \in Int /\ y \in Int /\ w \in Int /\ v \in Int
  BY <1>3
<1>5. Work(t.size, h) = r
  BY <1>1 DEF Work, wm_calc
<1> HIDE DEF x, y, w, v
<1>6. r \in GRECT /\ r.x = x /\ r.y = y /\ r.w = w /\ r.h = v
  BY <1>4, RectMade
<1> HIDE DEF r
<1> QED
  BY <1>1, <1>5, <1>6 DEF x, y, w, v

\* A redraw asks for all of the work area that the window owns in clip.
LEMMA RedrawAsks ==
  ASSUME NEW t, Sound(t), AskedSized(asked), NEW h \in Windows, NEW clip \in GRECT,
         NEW d, d = w_redraw(t, h, clip)
  PROVE  /\ d \in Sized \/ d = gl_rzero
         /\ \A p \in Points : inside(p, asked[h]) => inside(p, d)
         /\ \A p \in Points :
              inside(p, clip) /\ inside(p, Work(t.size, h)) /\ Owns(t, h, p) => inside(p, d)
<1> DEFINE work == Work(t.size, h)
           r == rc_intersect(clip, work)
           u == w_union(t.rlist[h])
           both == rc_intersect(u, r)
<1>1. h \in Handles /\ work \in GRECT
  BY WorkRect
<1>2. t.rlist[h] \in Seq(Sized)
  BY <1>1 DEF Sound
<1>3. r \in GRECT
  BY <1>1, CommonEdges
<1>4. asked[h] \in Sized \/ asked[h] = gl_rzero
  BY DEF AskedSized
<1> DEFINE go == Meets(clip, work) /\ t.rlist[h] # <<>> /\ Meets(u, r)
<1>5. d = IF go THEN IF HasSize(asked[h]) THEN rc_union(both, asked[h]) ELSE both
          ELSE asked[h]
  BY DEF w_redraw
<1> HIDE DEF work, r, u, both, go, Sized
<1>6. t.rlist[h] # <<>> =>
        /\ u \in Sized /\ u \in GRECT
        /\ \A p \in Points : Owns(t, h, p) => inside(p, u)
  <2> SUFFICES ASSUME t.rlist[h] # <<>>
               PROVE  /\ u \in Sized /\ u \in GRECT
                      /\ \A p \in Points : Owns(t, h, p) => inside(p, u)
    OBVIOUS
  <2>1. u \in Sized
        /\ \A p \in Points : \A i \in DOMAIN t.rlist[h] :
             inside(p, t.rlist[h][i]) => inside(p, u)
    BY <1>2, UnionFacts DEF u
  <2> QED
    BY <2>1, SizedFacts DEF Owns
<1>7. ASSUME go
      PROVE  both \in Sized /\ both \in GRECT
             /\ \A p \in Points : inside(p, both) <=> inside(p, u) /\ inside(p, r)
  <2>1. u \in GRECT /\ Meets(u, r)
    BY <1>6, <1>7 DEF go
  <2>2. \A p \in Points : inside(p, both) <=> inside(p, u) /\ inside(p, r)
    BY <2>1, <1>3, InCommon DEF both
  <2>3. <<0, 0>> \in Points
    BY DEF Points
  <2>4. both \in Sized
    BY <2>1, <2>3, <1>3, InCommon DEF both
  <2> QED
    BY <2>2, <2>4, SizedFacts
<1>8. \A p \in Points : inside(p, r) <=> inside(p, clip) /\ inside(p, work)
  BY <1>1, InCommon DEF r
<1>9. ASSUME NEW p \in Points, inside(p, clip), inside(p, work), Owns(t, h, p)
      PROVE  go /\ inside(p, u) /\ inside(p, r)
  <2>1. t.rlist[h] # <<>>
    BY <1>9 DEF Owns
  <2>2. u \in GRECT /\ inside(p, u)
    BY <2>1, <1>6, <1>9
  <2>3. Meets(clip, work) /\ inside(p, r)
    BY <1>1, <1>8, <1>9, InCommon
  <2>4. Meets(u, r)
    BY <2>2, <2>3, <1>3, InCommon
  <2> QED
    BY <2>1, <2>2, <2>3, <2>4 DEF go
<1>10. CASE ~go
  BY <1>4, <1>5, <1>9, <1>10 DEF work
<1>11. CASE go /\ HasSize(asked[h])
  <2>1. asked[h] \in Sized /\ asked[h] \in GRECT
    BY <1>4, <1>11, ZeroFacts, SizedFacts
  <2>2. d = rc_union(both, asked[h]) /\ both \in Sized /\ both \in GRECT
    BY <1>5, <1>7, <1>11
  <2>3. d \in Sized
    BY <2>1, <2>2, UnionSized
  <2>4. \A p \in Points : inside(p, asked[h]) \/ inside(p, both) => inside(p, d)
    BY <2>1, <2>2, InUnion
  <2> QED
    BY <2>3, <2>4, <1>7, <1>9, <1>11 DEF work
<1>12. CASE go /\ ~HasSize(asked[h])
  <2>1. asked[h] = gl_rzero
    BY <1>4, <1>12, SizedFacts
  <2>2. d = both /\ both \in Sized
    BY <1>5, <1>7, <1>12
  <2>3. \A p \in Points : ~inside(p, asked[h])
    BY <2>1, OutOfZero
  <2> QED
    BY <2>2, <2>3, <1>7, <1>9, <1>12 DEF work
<1> QED
  BY <1>10, <1>11, <1>12

\* The windows that w_update() draws.
Reached(t, start, stop, moved) ==
  Between(t, start, stop) \ (IF moved THEN {t.top} ELSE {})

LEMMA UpdateFine ==
  ASSUME NEW t, Sound(t), AskedSized(asked), NEW pic, NEW start, NEW clip \in GRECT,
         NEW stop, NEW moved, Between(t, start, stop) \subseteq Range(t.order),
         NEW u, u = w_update(pic, t, start, clip, stop, moved)
  PROVE  /\ AskedSized(u.asked)
         /\ \A p \in Screen :
              \/ Fine(pic, asked, t, p)
              \/ Owner(t, p) \in Reached(t, start, stop, moved) /\ inside(p, clip)
              => Fine(u.shown, u.asked, t, p)
<1> DEFINE c == rc_intersect(gl_rfull, clip)
           ws == Reached(t, start, stop, moved)
<1>1. /\ u.shown = DrawFrames(pic, t, ws, Grow(c, Shadow))
      /\ u.asked = [h \in Windows |-> IF h \in ws THEN w_redraw(t, h, c) ELSE asked[h]]
  BY DEF w_update, Reached
<1>2. c \in GRECT /\ gl_rfull \in GRECT
  BY ScreenFacts, SizedFacts, CommonEdges
<1>3. ws \subseteq Range(t.order) /\ ws \subseteq Windows
  <2>1. Ordered(t.order)
    BY DEF Sound
  <2> QED
    BY <2>1, RangeIs DEF Reached
<1>4. \A p \in Screen : p \in Points /\ (inside(p, clip) => inside(p, c) /\ inside(p, Grow(c, Shadow)))
  <2> TAKE p \in Screen
  <2>1. p \in Points /\ inside(p, gl_rfull)
    BY ScreenFacts
  <2>2. inside(p, c) <=> inside(p, gl_rfull) /\ inside(p, clip)
    BY <2>1, <1>2, InCommon
  <2>3. inside(p, c) => inside(p, Grow(c, Shadow))
    BY <2>1, <1>2, InGrown
  <2> QED
    BY <2>1, <2>2, <2>3
<1> HIDE DEF c, ws
<1>5. ASSUME NEW h \in Windows
      PROVE  /\ u.asked[h] \in Sized \/ u.asked[h] = gl_rzero
             /\ \A p \in Points : inside(p, asked[h]) => inside(p, u.asked[h])
             /\ \A p \in Points :
                  h \in ws /\ inside(p, c) /\ inside(p, Work(t.size, h)) /\ Owns(t, h, p)
                    => inside(p, u.asked[h])
  <2>1. CASE h \in ws
    <3>1. u.asked[h] = w_redraw(t, h, c)
      BY <2>1, <1>1
    <3> HIDE DEF Sized
    <3> QED
      BY <3>1, <1>2, RedrawAsks
  <2>2. CASE h \notin ws
    <3>1. u.asked[h] = asked[h]
      BY <2>2, <1>1
    <3> HIDE DEF Sized
    <3> QED
      BY <2>2, <3>1 DEF AskedSized
  <2> QED
    BY <2>1, <2>2
<1>6. AskedSized(u.asked)
  <2>1. DOMAIN u.asked = Windows
    BY <1>1
  <2> QED
    BY <2>1, <1>5 DEF AskedSized
<1>7. ASSUME NEW p \in Screen, Fine(pic, asked, t, p)
      PROVE  Fine(u.shown, u.asked, t, p)
  <2>1. u.shown[p] = Due(t, p) \/ u.shown[p] = pic[p]
    BY <1>1, <1>3, FramesRight
  <2>2. Owner(t, p) # DESKWH => Owner(t, p) \in Windows
    BY OwnerHandle
  <2>3. p \in Points
    BY <1>4
  <2> QED
    BY <2>1, <2>2, <2>3, <1>5, <1>7 DEF Fine
<1>8. ASSUME NEW p \in Screen, Owner(t, p) \in ws, inside(p, clip)
      PROVE  Fine(u.shown, u.asked, t, p)
  <2>1. Owner(t, p) \in Windows /\ Owner(t, p) # DESKWH
    <3>1. Owner(t, p) \in Windows
      BY <1>3, <1>8
    <3> QED
      BY <3>1, HandlesApart
  <2>2. p \in Points /\ inside(p, c) /\ inside(p, Grow(c, Shadow))
    BY <1>4, <1>8
  <2>3. Owns(t, Owner(t, p), p)
    BY <1>3, <1>8 DEF Sound
  <2>4. CASE inside(p, Work(t.size, Owner(t, p)))
    BY <2>1, <2>2, <2>3, <2>4, <1>5, <1>8 DEF Fine
  <2>5. CASE ~inside(p, Work(t.size, Owner(t, p)))
    BY <2>2, <2>5, <1>1, <1>3, <1>8, FramesDrawn DEF Fine
  <2> QED
    BY <2>4, <2>5
<1> QED
  BY <1>6, <1>7, <1>8 DEF ws

LEMMA BetweenIs ==
  ASSUME NEW t, Ordered(t.order), NEW h \in Range(t.order)
  PROVE  /\ h \in Between(t, h, DESKWH) /\ Between(t, h, DESKWH) \subseteq Range(t.order)
         /\ h \in Between(t, DESKWH, h) /\ Between(t, DESKWH, h) \subseteq Range(t.order)
         /\ \A k : Under(t.order, k, h) => k \in Between(t, DESKWH, h)
<1> DEFINE n == Len(t.order)
<1>1. n \in Nat
  BY AllFacts
<1>2. PICK i \in 1 .. n : h = t.order[i]
  BY RangeIs
<1>3. Position(t.order, h) = i
  BY <1>2, PositionIs
<1>4. h # DESKWH
  BY RangeIs, HandlesApart
<1>5. /\ Between(t, h, DESKWH) = {t.order[j] : j \in i .. n}
      /\ Between(t, DESKWH, h) = {t.order[j] : j \in 1 .. i}
  BY <1>3, <1>4 DEF Between
<1> HIDE DEF n
<1>6. i \in i .. n /\ i \in 1 .. i /\ \A j : j \in i .. n \/ j \in 1 .. i => j \in 1 .. n
  BY <1>1, <1>2
<1>7. \A j \in 1 .. n : t.order[j] \in Range(t.order)
  BY RangeIs DEF n
<1>8. \A x, y \in 1 .. n : t.order[x] = t.order[y] => x = y
  BY DEF Ordered, n
<1>9. ASSUME NEW k, Under(t.order, k, h)
      PROVE  k \in Between(t, DESKWH, h)
  <2>1. PICK x, y \in 1 .. n : x < y /\ t.order[x] = k /\ t.order[y] = h
    BY <1>9 DEF Under, n
  <2>2. y = i
    BY <2>1, <1>2, <1>8
  <2>3. x \in 1 .. i
    BY <2>1, <2>2, <1>1
  <2> QED
    BY <2>1, <2>3, <1>5
<1> QED
  BY <1>2, <1>5, <1>6, <1>7, <1>9

LEMMA BetweenAll ==
  ASSUME NEW t, Ordered(t.order)
  PROVE  Between(t, DESKWH, DESKWH) = Range(t.order)
<1>1. Between(t, DESKWH, DESKWH) = {t.order[i] : i \in 1 .. Len(t.order)}
  BY DEF Between
<1>2. \A h : h \in Range(t.order) <=> \E i \in 1 .. Len(t.order) : h = t.order[i]
  BY RangeIs
<1> QED
  BY <1>1, <1>2

\* The owner of p is among what is drawn from start up to stop.
Drawing(t, start, stop, moved, p) ==
  \/ Owner(t, p) = DESKWH /\ start = DESKWH
  \/ Owner(t, p) \in Reached(t, start, stop, moved)

LEMMA FinishFine ==
  ASSUME NEW t, Sound(t), AskedSized(asked), NEW plan, NEW clip \in GRECT,
         Between(t, plan.start, plan.stop) \subseteq Range(t.order),
         NEW u, u = Finish(t, plan, clip)
  PROVE  /\ AskedSized(u.asked)
         /\ \A p \in Screen :
              \/ Fine(plan.shown, asked, t, p)
              \/ inside(p, clip) /\ Drawing(t, plan.start, plan.stop, plan.moved, p)
              => Fine(u.shown, u.asked, t, p)
<1>1. CASE plan.start = DESKWH
  <2> DEFINE pic == w_drawdesk(plan.shown, t, clip)
  <2>1. u = w_update(pic, t, plan.start, clip, plan.stop, plan.moved)
    BY <1>1 DEF Finish
  <2>2. \A p \in Screen :
          \/ Fine(plan.shown, asked, t, p)
          \/ Owner(t, p) = DESKWH /\ inside(p, clip)
          => Fine(pic, asked, t, p)
    BY DeskDrawn
  <2> HIDE DEF pic
  <2>3. /\ AskedSized(u.asked)
        /\ \A p \in Screen :
             \/ Fine(pic, asked, t, p)
             \/ Owner(t, p) \in Reached(t, plan.start, plan.stop, plan.moved) /\ inside(p, clip)
             => Fine(u.shown, u.asked, t, p)
    BY <2>1, UpdateFine, Zenon
  <2> QED
    BY <2>2, <2>3 DEF Drawing
<1>2. CASE plan.start # DESKWH
  <2>1. u = w_update(plan.shown, t, plan.start, clip, plan.stop, plan.moved)
    BY <1>2 DEF Finish
  <2>2. /\ AskedSized(u.asked)
        /\ \A p \in Screen :
             \/ Fine(plan.shown, asked, t, p)
             \/ Owner(t, p) \in Reached(t, plan.start, plan.stop, plan.moved) /\ inside(p, clip)
             => Fine(u.shown, u.asked, t, p)
    BY <2>1, UpdateFine, Zenon
  <2> QED
    BY <2>2, <1>2 DEF Drawing
<1> QED
  BY <1>1, <1>2

\* Where another window has come to the top.
Risen(t, oldtop) == oldtop # t.top /\ t.top # NIL

\* What is fine once a plan has been drawn.
WellDrawn(t, h, c, oldtop, clip, start, stop, moved, pic, u) ==
  /\ AskedSized(u.asked)
  /\ \A p \in Screen :
       \/ Fine(pic, asked, t, p)
       \/ /\ Drawing(t, start, stop, moved, p)
          /\ \/ inside(p, Grow(clip, Shadow))
             \/ Risen(t, oldtop) /\ Hits(t.size, t.top, p)
       \/ /\ Risen(t, oldtop) /\ oldtop \notin {NIL, h} /\ c = gl_rzero
          /\ Owner(t, p) = oldtop /\ ~inside(p, Work(t.size, oldtop))
       => Fine(u.shown, u.asked, t, p)

LEMMA DrawnFine ==
  ASSUME NEW t, Sound(t), AskedSized(asked), NEW h, NEW c, NEW oldtop,
         oldtop \in Range(t.order) \cup {NIL, h},
         NEW clip \in GRECT, NEW start, start # NIL, NEW stop, NEW moved, NEW pic,
         Between(t, start, stop) \subseteq Range(t.order),
         NEW u, u = Drawn(t, h, c, oldtop, Plan(clip, start, stop, moved, pic))
  PROVE  WellDrawn(t, h, c, oldtop, clip, start, stop, moved, pic, u)
<1> DEFINE request == Plan(clip, start, stop, moved, pic)
           plan == NewTop(t, h, c, oldtop, request)
<1>1. /\ request.clip = clip /\ request.start = start /\ request.stop = stop
      /\ request.moved = moved /\ request.shown = pic
  BY DEF Plan
<1>2. u = Finish(t, plan, Grow(plan.clip, Shadow))
  BY <1>1 DEF Drawn
<1>3. Ordered(t.order)
  BY DEF Sound
<1>4. t.top # NIL => t.top \in Range(t.order) /\ t.size[t.top] \in Sized /\ t.top \in Windows
  BY <1>3, LastFacts DEF Sound
<1>5. /\ plan.start = start /\ plan.stop = stop /\ plan.moved = moved
      /\ plan.clip = IF Risen(t, oldtop) THEN rc_union(t.size[t.top], clip) ELSE clip
      /\ plan.shown = IF Risen(t, oldtop) /\ oldtop \notin {NIL, h} /\ c = gl_rzero
                      THEN DrawFrame(pic, t, oldtop) ELSE pic
  <2>1. CASE Risen(t, oldtop)
    BY <2>1 DEF NewTop, Risen, Plan
  <2>2. CASE ~Risen(t, oldtop)
    <3>1. plan = request
      BY <2>2 DEF NewTop, Risen
    <3> HIDE DEF plan, request
    <3> QED
      BY <1>1, <2>2, <3>1
  <2> QED
    BY <2>1, <2>2
<1> HIDE DEF plan, request, Sized
<1>6. plan.clip \in GRECT /\ Grow(plan.clip, Shadow) \in GRECT
  <2>1. plan.clip \in GRECT
    BY <1>4, <1>5, SizedFacts, UnionEdges DEF Risen
  <2> QED
    BY <2>1, GrowEdges
<1>7. /\ AskedSized(u.asked)
      /\ \A p \in Screen :
           \/ Fine(plan.shown, asked, t, p)
           \/ inside(p, Grow(plan.clip, Shadow)) /\ Drawing(t, start, stop, moved, p)
           => Fine(u.shown, u.asked, t, p)
  <2>1. Between(t, plan.start, plan.stop) \subseteq Range(t.order)
    BY <1>5
  <2>2. /\ AskedSized(u.asked)
        /\ \A p \in Screen :
             \/ Fine(plan.shown, asked, t, p)
             \/ inside(p, Grow(plan.clip, Shadow))
                /\ Drawing(t, plan.start, plan.stop, plan.moved, p)
             => Fine(u.shown, u.asked, t, p)
    BY <2>1, <1>2, <1>6, FinishFine, Zenon
  <2> QED
    BY <2>2, <1>5
<1>8. ASSUME NEW p \in Screen, Fine(pic, asked, t, p)
      PROVE  Fine(plan.shown, asked, t, p)
  <2>1. CASE plan.shown = DrawFrame(pic, t, oldtop) /\ oldtop \notin {NIL, h}
    <3>1. {oldtop} \subseteq Range(t.order)
      BY <2>1
    <3>2. plan.shown = DrawFrames(pic, t, {oldtop}, TrueSize(t.size[oldtop]))
      BY <2>1 DEF DrawFrame
    <3> QED
      BY <3>1, <3>2, <1>8, FramesRight
  <2>2. CASE plan.shown = pic
    BY <2>2, <1>8
  <2> QED
    BY <2>1, <2>2, <1>5
<1>9. ASSUME NEW p \in Screen, inside(p, Grow(clip, Shadow))
      PROVE  inside(p, Grow(plan.clip, Shadow))
  <2>1. p \in Points
    BY ScreenFacts
  <2>2. CASE Risen(t, oldtop)
    <3>1. t.size[t.top] \in GRECT /\ plan.clip = rc_union(t.size[t.top], clip)
      BY <2>2, <1>4, <1>5, SizedFacts DEF Risen
    <3> QED
      BY <3>1, <2>1, <1>9, InGrown
  <2>3. CASE ~Risen(t, oldtop)
    BY <2>3, <1>5, <1>9
  <2> QED
    BY <2>2, <2>3
<1>10. ASSUME NEW p \in Screen, Risen(t, oldtop), Hits(t.size, t.top, p)
       PROVE  inside(p, Grow(plan.clip, Shadow))
  <2>1. p \in Points
    BY ScreenFacts
  <2>2. t.size[t.top] \in GRECT /\ plan.clip = rc_union(t.size[t.top], clip)
        /\ inside(p, Grow(t.size[t.top], Shadow))
    BY <1>4, <1>5, <1>10, SizedFacts DEF Risen, Hits
  <2> QED
    BY <2>1, <2>2, InGrown
<1>11. ASSUME NEW p \in Screen, Risen(t, oldtop), oldtop \notin {NIL, h}, c = gl_rzero,
              Owner(t, p) = oldtop, ~inside(p, Work(t.size, oldtop))
       PROVE  Fine(plan.shown, asked, t, p)
  <2>1. {oldtop} \subseteq Range(t.order) /\ oldtop \in {oldtop}
    BY <1>11
  <2>2. plan.shown = DrawFrames(pic, t, {oldtop}, TrueSize(t.size[oldtop]))
    BY <1>5, <1>11 DEF DrawFrame
  <2>3. inside(p, TrueSize(t.size[oldtop]))
    <3>1. oldtop # DESKWH
      BY <2>1, <1>3, RangeIs, HandlesApart
    <3> QED
      BY <3>1, <1>11, OwnerHandle DEF Hits
  <2>4. plan.shown[p] = Due(t, p)
    BY <2>1, <2>2, <2>3, <1>11, FramesDrawn
  <2> QED
    BY <2>4 DEF Fine
<1> QED
  BY <1>7, <1>8, <1>9, <1>10, <1>11 DEF WellDrawn

(***************************************************************************)
(* A call that changes the place of h from c to pt, and the tree to t.     *)
(***************************************************************************)
LEMMA NowIs ==
  /\ Now.order = order /\ Now.size = curr /\ Now.rlist = lists.rlist
  /\ Now.broken = lists.broken
  /\ Now.top = IF order = <<>> THEN NIL ELSE Last(order)
BY DEF Now, Tree

Redone(t, h, c, pt) ==
  /\ Sound(Now) /\ Sound(t) /\ AskedSized(asked) /\ gl_wtop = Now.top
  /\ h \in Windows /\ c = curr[h] /\ pt = t.size[h]
  /\ Alike(order, curr, t.order, t.size, h)
  /\ \A p \in Screen : Fine(shown, asked, Now, p)

AllFine(t, u) == AskedSized(u.asked) /\ \A p \in Screen : Fine(u.shown, u.asked, t, p)

LEMMA SameDue ==
  ASSUME NEW s, NEW t, NEW p, NEW o, Owner(s, p) = o, Owner(t, p) = o,
         o # DESKWH => s.size[o] = t.size[o],
         o = DESKWH \/ inside(p, Work(t.size, o)) \/ (t.top = o <=> s.top = o)
  PROVE  Due(s, p) = Due(t, p)
         /\ \A pic, ask : Fine(pic, ask, s, p) => Fine(pic, ask, t, p)
<1>1. o # DESKWH => Work(s.size, o) = Work(t.size, o)
  BY DEF Work
<1>2. Due(s, p) = Due(t, p)
  <2>1. CASE o = DESKWH
    BY <2>1, DueDesk
  <2>2. CASE o # DESKWH /\ inside(p, Work(t.size, o))
    BY <2>2, <1>1, DueInside DEF Inside
  <2>3. CASE o # DESKWH /\ ~inside(p, Work(t.size, o))
    <3>1. Due(s, p) = Frame(s, o, p) /\ Due(t, p) = Frame(t, o, p)
      BY <2>3, <1>1, DueFrame
    <3>2. (t.top = o) = (s.top = o)
      BY <2>3
    <3> QED
      BY <2>3, <3>1, <3>2 DEF Frame
  <2> QED
    BY <2>1, <2>2, <2>3
<1> QED
  BY <1>1, <1>2 DEF Fine

LEMMA Kept ==
  ASSUME NEW t, NEW h, NEW c, NEW pt, Redone(t, h, c, pt), NEW p \in Screen,
         Owner(Now, p) # h, Owner(t, p) # h,
         \/ Owner(t, p) = DESKWH \/ inside(p, Work(t.size, Owner(t, p)))
         \/ t.top = Owner(t, p) <=> Now.top = Owner(t, p)
  PROVE  /\ Owner(Now, p) = Owner(t, p) /\ Due(Now, p) = Due(t, p)
         /\ Fine(shown, asked, t, p)
         /\ \A pic : pic[p] = shown[p] => Fine(pic, asked, t, p)
<1> DEFINE o == Owner(t, p)
<1>1. /\ Ordered(order) /\ Ordered(t.order) /\ Sound(t)
      /\ Alike(order, curr, t.order, t.size, h) /\ Fine(shown, asked, Now, p)
  BY NowIs DEF Redone, Sound
<1>2. Owner(Now, p) = OwnerIn(order, curr, p) /\ o = OwnerIn(t.order, t.size, p)
  BY NowIs, OwnerTree
<1>3. Owner(Now, p) = o
  BY <1>1, <1>2, OwnerKept
<1>4. o = DESKWH \/ o \in Range(t.order)
  BY <1>1, OwnerHandle
<1>5. o # DESKWH => Now.size[o] = t.size[o]
  BY <1>1, <1>4, NowIs DEF Alike
<1> HIDE DEF o
<1>6. /\ Due(Now, p) = Due(t, p)
      /\ \A pic, ask : Fine(pic, ask, Now, p) => Fine(pic, ask, t, p)
  BY <1>3, <1>5, SameDue DEF o
<1>7. \A pic : pic[p] = shown[p] => Fine(pic, asked, Now, p)
  BY <1>1 DEF Fine
<1> QED
  BY <1>1, <1>3, <1>6, <1>7 DEF o

\* Where h was, and is.
LEMMA WhereIs ==
  ASSUME NEW t, NEW h, NEW c, NEW pt, Redone(t, h, c, pt), NEW p \in Screen
  PROVE  /\ Owner(Now, p) = h => /\ h \in Range(order) /\ c \in Sized
                                 /\ inside(p, Grow(c, Shadow))
         /\ Owner(t, p) = h => /\ h \in Range(t.order) /\ pt \in Sized
                               /\ inside(p, Grow(pt, Shadow))
<1>1. /\ Sound(Now) /\ Sound(t) /\ h # DESKWH /\ c = Now.size[h] /\ pt = t.size[h]
      /\ Now.order = order
  BY NowIs, HandlesApart DEF Redone
<1> HIDE DEF Sized
<1>2. Owner(Now, p) = h => h \in Range(order) /\ c \in Sized /\ inside(p, TrueSize(c))
  BY <1>1, OwnerHandle DEF Sound, Hits
<1>3. Owner(t, p) = h => h \in Range(t.order) /\ pt \in Sized /\ inside(p, TrueSize(pt))
  BY <1>1, OwnerHandle DEF Sound, Hits
<1> QED
  BY <1>2, <1>3, SizedFacts

\* The clip of a window that grows or shrinks.
Resizing(c, pt) ==
  [c EXCEPT !.w = Larger(pt.w, c.w) + Shadow, !.h = Larger(pt.h, c.h) + Shadow]

LEMMA SizeClip ==
  ASSUME NEW c \in GRECT, NEW pt \in GRECT, pt.x = c.x, pt.y = c.y
  PROVE  /\ Resizing(c, pt) \in GRECT
         /\ \A p \in Points :
              inside(p, Grow(pt, Shadow)) \/ inside(p, Grow(c, Shadow))
                => inside(p, Grow(Resizing(c, pt), Shadow))
<1> DEFINE clip == Resizing(c, pt)
<1>1. /\ c.x \in Int /\ c.y \in Int /\ c.w \in Int /\ c.h \in Int
      /\ pt.x \in Int /\ pt.y \in Int /\ pt.w \in Int /\ pt.h \in Int /\ Shadow \in Nat
  BY RectFields, ScreenFacts
<1> DEFINE w == Larger(pt.w, c.w)
           v == Larger(pt.h, c.h)
<1>2. w \in Int /\ w >= pt.w /\ w >= c.w /\ v \in Int /\ v >= pt.h /\ v >= c.h
  BY <1>1, Extremes
<1>3. clip = [x |-> c.x, y |-> c.y, w |-> w + Shadow, h |-> v + Shadow]
  <2>1. c = [x |-> c.x, y |-> c.y, w |-> c.w, h |-> c.h]
    BY DEF GRECT
  <2> HIDE DEF w, v
  <2>2. clip = [c EXCEPT !.w = w + Shadow, !.h = v + Shadow]
    BY DEF w, v, Resizing
  <2> QED
    BY <2>1, <2>2
<1> HIDE DEF w, v, clip
<1>4. clip \in GRECT
  BY <1>1, <1>2, <1>3 DEF GRECT
<1>5. clip.x = c.x /\ clip.y = c.y /\ clip.w = w + Shadow /\ clip.h = v + Shadow
  <2> DEFINE s == [x |-> c.x, y |-> c.y, w |-> w + Shadow, h |-> v + Shadow]
  <2>1. s.x = c.x /\ s.y = c.y /\ s.w = w + Shadow /\ s.h = v + Shadow
    OBVIOUS
  <2>2. clip = s
    BY <1>3
  <2> HIDE DEF s
  <2> QED
    BY <2>1, <2>2
<1>6. ASSUME NEW p \in Points, inside(p, Grow(pt, Shadow)) \/ inside(p, Grow(c, Shadow))
      PROVE  inside(p, Grow(clip, Shadow))
  <2>1. p[1] \in Int /\ p[2] \in Int
    BY PointFields
  <2>2. /\ p[1] >= c.x /\ p[1] < c.x + (w + Shadow)
        /\ p[2] >= c.y /\ p[2] < c.y + (v + Shadow)
    BY <2>1, <1>1, <1>2, <1>6, GrowEdges DEF inside
  <2>3. /\ p[1] >= clip.x /\ p[1] < clip.x + (clip.w + Shadow)
        /\ p[2] >= clip.y /\ p[2] < clip.y + (clip.h + Shadow)
    BY <2>1, <2>2, <1>1, <1>2, <1>5
  <2> QED
    BY <2>3, <1>4, GrowEdges DEF inside
<1> QED
  BY <1>4, <1>6 DEF clip

LEMMA OpenFine ==
  ASSUME NEW t, NEW h, NEW c, NEW pt, Redone(t, h, c, pt), h \notin Range(order),
         t.order = Append(order, h), c = gl_rzero, NEW wasclr,
         NEW u, u = Drawn(t, h, c, gl_wtop, Request(t, h, c, pt, gl_wtop, wasclr))
  PROVE  AllFine(t, u)
<1>1. /\ Sound(Now) /\ Sound(t) /\ AskedSized(asked) /\ gl_wtop = Now.top
      /\ h \in Windows /\ h # DESKWH /\ h # NIL /\ pt = t.size[h]
      /\ Ordered(order) /\ Ordered(t.order)
  BY NowIs, HandlesApart DEF Redone, Sound
<1>2. /\ Range(t.order) = Range(order) \cup {h} /\ t.order # <<>> /\ Last(t.order) = h
  BY <1>1, AppendFacts, AppendUnder
<1>3. t.top = h /\ h \in Range(t.order) /\ pt \in Sized
  BY <1>1, <1>2 DEF Sound
<1>4. gl_wtop \in Range(order) \cup {NIL} /\ gl_wtop # h
      /\ gl_wtop \in Range(t.order) \cup {NIL, h}
  BY <1>1, <1>2, LastFacts, NowIs
<1>5. Risen(t, gl_wtop)
  BY <1>1, <1>3, <1>4 DEF Risen
<1> HIDE DEF Sized
<1>6. /\ pt \in GRECT /\ HasSize(pt) /\ pt # gl_rzero /\ c \in GRECT /\ ~HasSize(c)
      /\ c.w = 0 /\ c.h = 0
  <2>1. <<0, 0>> \in Points
    BY DEF Points
  <2> QED
    BY <2>1, <1>3, SizedFacts, ZeroFacts, OutOfZero
<1>7. \E clip \in GRECT :
        /\ Request(t, h, c, pt, gl_wtop, wasclr) = Plan(clip, h, DESKWH, FALSE, shown)
        /\ \A p \in Points : inside(p, Grow(pt, Shadow)) => inside(p, Grow(clip, Shadow))
  <2>1. CASE pt.x = c.x /\ pt.y = c.y
    <3> DEFINE clip == Resizing(c, pt)
    <3>1. pt.w \in Int /\ pt.w > 0 /\ pt.h \in Int /\ pt.h > 0
      BY <1>3, Fields
    <3>2. /\ ~(pt.w <= c.w /\ pt.h <= c.h) /\ ~(pt.w < c.w \/ pt.h < c.h)
          /\ pt # c
      BY <3>1, <1>6
    <3>3. Request(t, h, c, pt, gl_wtop, wasclr) = SizeRequest(t, h, c, pt)
      BY <2>1, <3>2, <1>6 DEF Request
    <3>4. SizeRequest(t, h, c, pt) = Plan(clip, h, DESKWH, FALSE, shown)
      BY <3>2 DEF SizeRequest, Resizing
    <3>5. /\ clip \in GRECT
          /\ \A p \in Points : inside(p, Grow(pt, Shadow)) => inside(p, Grow(clip, Shadow))
      BY <2>1, <1>6, SizeClip
    <3> QED
      BY <3>3, <3>4, <3>5
  <2>2. CASE ~(pt.x = c.x /\ pt.y = c.y)
    <3>1. Request(t, h, c, pt, gl_wtop, wasclr) = MoveRequest(t, h, c, pt)
      BY <2>2 DEF Request
    <3>2. MoveRequest(t, h, c, pt) = Plan(pt, h, DESKWH, FALSE, shown)
      BY <1>6 DEF MoveRequest
    <3> QED
      BY <3>1, <3>2, <1>6
  <2> QED
    BY <2>1, <2>2
<1>8. PICK clip \in GRECT :
        /\ Request(t, h, c, pt, gl_wtop, wasclr) = Plan(clip, h, DESKWH, FALSE, shown)
        /\ \A p \in Points : inside(p, Grow(pt, Shadow)) => inside(p, Grow(clip, Shadow))
  BY <1>7
<1>9. Between(t, h, DESKWH) \subseteq Range(t.order) /\ h \in Reached(t, h, DESKWH, FALSE)
  BY <1>1, <1>3, BetweenIs DEF Reached
<1>10. u = Drawn(t, h, c, gl_wtop, Plan(clip, h, DESKWH, FALSE, shown))
  BY <1>8
<1>11. WellDrawn(t, h, c, gl_wtop, clip, h, DESKWH, FALSE, shown, u)
  BY <1>1, <1>4, <1>9, <1>10, DrawnFine
<1>12. ASSUME NEW p \in Screen
       PROVE  Fine(u.shown, u.asked, t, p)
  <2>1. CASE Owner(t, p) = h
    <3>1. inside(p, Grow(pt, Shadow)) /\ p \in Points
      BY <2>1, WhereIs, ScreenFacts
    <3> QED
      BY <3>1, <2>1, <1>8, <1>9, <1>11 DEF Drawing, WellDrawn
  <2>2. CASE Owner(t, p) # h
    <3>1. Owner(Now, p) # h
      BY WhereIs
    <3>2. CASE /\ Owner(t, p) # DESKWH /\ ~inside(p, Work(t.size, Owner(t, p)))
               /\ Owner(t, p) = gl_wtop
      BY <3>2, <1>1, <1>5, <1>11, <2>2, OwnerHandle, HandlesApart DEF WellDrawn
    <3>3. CASE ~(/\ Owner(t, p) # DESKWH /\ ~inside(p, Work(t.size, Owner(t, p)))
                 /\ Owner(t, p) = gl_wtop)
      <4>1. Fine(shown, asked, t, p)
        BY <3>1, <3>3, <2>2, <1>1, <1>3, Kept
      <4> QED
        BY <4>1, <1>11 DEF WellDrawn
    <3> QED
      BY <3>2, <3>3
  <2> QED
    BY <2>1, <2>2
<1> QED
  BY <1>11, <1>12 DEF AllFine, WellDrawn

LEMMA CloseFine ==
  ASSUME NEW t, NEW h, NEW c, NEW pt, Redone(t, h, c, pt), h \in Range(order),
         t.order = ob_delete(order, h), pt = gl_rzero, NEW wasclr,
         NEW u, u = Drawn(t, h, c, gl_wtop, Request(t, h, c, pt, gl_wtop, wasclr))
  PROVE  AllFine(t, u)
<1>1. /\ Sound(Now) /\ Sound(t) /\ AskedSized(asked) /\ gl_wtop = Now.top
      /\ h \in Windows /\ h # DESKWH /\ h # NIL /\ c = Now.size[h]
      /\ Ordered(order) /\ Ordered(t.order)
  BY NowIs, HandlesApart DEF Redone, Sound
<1>2. /\ Range(t.order) = Range(order) \ {h} /\ order # <<>>
      /\ t.order # <<>> /\ h # Last(order) => Last(t.order) = Last(order)
  <2>1. order # <<>>
    BY RangeIs, <1>1
  <2> QED
    BY <2>1, <1>1, DeleteFacts, DeleteUnder
<1>3. c \in Sized
  BY <1>1, NowIs DEF Sound
<1>4. gl_wtop = Last(order) /\ gl_wtop \in Range(order)
      /\ gl_wtop \in Range(t.order) \cup {NIL, h}
  BY <1>1, <1>2, LastFacts, NowIs
<1>5. ASSUME t.order # <<>>
      PROVE  /\ t.top \in Range(t.order) /\ t.top # NIL
             /\ t.top = gl_wtop \/ gl_wtop = h
  BY <1>1, <1>2, <1>4, <1>5, LastFacts, HandlesApart DEF Sound
<1> HIDE DEF Sized
<1>6. /\ c \in GRECT /\ HasSize(c) /\ ~HasSize(pt)
      /\ pt.x = 0 /\ pt.y = 0 /\ pt.w = 0 /\ pt.h = 0
  <2>1. <<0, 0>> \in Points
    BY DEF Points
  <2> QED
    BY <2>1, <1>3, SizedFacts, ZeroFacts, OutOfZero
<1>7. ~Covers(pt, c)
  <2>1. c.x \in Int /\ c.w \in Int /\ c.w > 0
    BY <1>3, Fields
  <2>2. ~(0 <= c.x /\ 0 + 0 >= c.x + c.w)
    BY <2>1
  <2> QED
    BY <2>2, <1>6 DEF Covers
<1>8. Request(t, h, c, pt, gl_wtop, wasclr) = Plan(c, DESKWH, DESKWH, FALSE, shown)
  <2>1. Request(t, h, c, pt, gl_wtop, wasclr) = MoveRequest(t, h, c, pt)
    BY DEF Request
  <2>2. MoveRequest(t, h, c, pt) = Plan(c, DESKWH, DESKWH, FALSE, shown)
    BY <1>6, <1>7 DEF MoveRequest
  <2> QED
    BY <2>1, <2>2
<1>9. Between(t, DESKWH, DESKWH) \subseteq Range(t.order)
      /\ Reached(t, DESKWH, DESKWH, FALSE) = Range(t.order)
  BY <1>1, BetweenAll DEF Reached
<1>10. u = Drawn(t, h, c, gl_wtop, Plan(c, DESKWH, DESKWH, FALSE, shown))
  BY <1>8
<1>11. WellDrawn(t, h, c, gl_wtop, c, DESKWH, DESKWH, FALSE, shown, u)
  <2>1. DESKWH # NIL
    BY HandlesApart
  <2> QED
    BY <2>1, <1>1, <1>4, <1>6, <1>9, <1>10, DrawnFine
<1>12. ASSUME NEW p \in Screen
       PROVE  Fine(u.shown, u.asked, t, p)
  <2>1. Owner(t, p) # h
    BY <1>2, WhereIs
  <2>2. Drawing(t, DESKWH, DESKWH, FALSE, p)
    BY <1>1, <1>9, OwnerHandle DEF Drawing
  <2>3. CASE Owner(Now, p) = h
    <3>1. inside(p, Grow(c, Shadow))
      BY <2>3, WhereIs
    <3> QED
      BY <3>1, <2>2, <1>11 DEF WellDrawn
  <2>4. CASE Owner(Now, p) # h
    <3>1. CASE Owner(t, p) # DESKWH /\ Owner(t, p) = t.top /\ t.top # gl_wtop
      <4>1. Hits(t.size, t.top, p) /\ t.top \in Range(t.order)
        BY <3>1, <1>1, OwnerHandle
      <4>2. Risen(t, gl_wtop)
        BY <3>1, <4>1, <1>1, RangeIs, HandlesApart DEF Risen
      <4> QED
        BY <4>1, <4>2, <2>2, <1>11 DEF WellDrawn
    <3>2. CASE ~(Owner(t, p) # DESKWH /\ Owner(t, p) = t.top /\ t.top # gl_wtop)
      <4>1. Owner(t, p) = DESKWH \/ (t.top = Owner(t, p) <=> Now.top = Owner(t, p))
        <5>1. CASE Owner(t, p) # DESKWH
          <6>1. Owner(t, p) \in Range(t.order)
            BY <5>1, <1>1, OwnerHandle
          <6>2. t.order # <<>>
            BY <6>1, <1>1, RangeIs
          <6>3. t.top = gl_wtop \/ gl_wtop = h
            BY <6>2, <1>5
          <6> QED
            BY <6>3, <5>1, <3>2, <2>1, <1>1
        <5> QED
          BY <5>1
      <4>2. Fine(shown, asked, t, p)
        BY <4>1, <2>1, <2>4, Kept
      <4> QED
        BY <4>2, <1>11 DEF WellDrawn
    <3> QED
      BY <3>1, <3>2
  <2> QED
    BY <2>3, <2>4
<1> QED
  BY <1>11, <1>12 DEF AllFine, WellDrawn

LEMMA MetOverlap ==
  ASSUME NEW a \in GRECT, NEW b \in GRECT, NEW p \in Points, inside(p, a), inside(p, b)
  PROVE  Overlap(a, b)
<1>1. /\ a.x \in Int /\ a.y \in Int /\ a.w \in Int /\ a.h \in Int
      /\ b.x \in Int /\ b.y \in Int /\ b.w \in Int /\ b.h \in Int
      /\ p[1] \in Int /\ p[2] \in Int
  BY RectFields, PointFields
<1> QED
  BY <1>1 DEF inside, Overlap

LEMMA OrderFacts ==
  ASSUME NEW ord, Ordered(ord), NEW h \in Range(ord), NEW u, u = ob_order(ord, h)
  PROVE  /\ Ordered(u) /\ Range(u) = Range(ord) /\ u # <<>> /\ Last(u) = h
         /\ \A x, y \in Range(ord) \ {h} : Under(u, x, y) <=> Under(ord, x, y)
<1> DEFINE o == ob_delete(ord, h)
<1>1. Ordered(o) /\ Range(o) = Range(ord) \ {h} /\ h \in Windows
  BY DeleteFacts, RangeIs
<1>2. \A x, y \in Range(ord) \ {h} : Under(o, x, y) <=> Under(ord, x, y)
  BY DeleteUnder
<1>3. u = Append(o, h)
  BY DEF ob_order
<1> HIDE DEF o
<1>4. h \notin Range(o)
  BY <1>1
<1>5. Ordered(u) /\ Range(u) = Range(o) \cup {h}
  BY <1>1, <1>3, <1>4, AppendFacts
<1>6. Last(u) = h /\ u # <<>> /\ \A x, y \in Range(o) : Under(u, x, y) <=> Under(o, x, y)
  BY <1>1, <1>3, <1>4, AppendUnder
<1> QED
  BY <1>1, <1>2, <1>5, <1>6

LEMMA TopFine ==
  ASSUME NEW t, NEW h, NEW c, NEW pt, Redone(t, h, c, pt), h \in Range(order),
         t.order = ob_order(order, h), pt = c, h # gl_wtop,
         Exact(order, curr, lists), NEW wasclr, wasclr <=> h \notin lists.broken,
         NEW u, u = Drawn(t, h, c, gl_wtop, Request(t, h, c, pt, gl_wtop, wasclr))
  PROVE  AllFine(t, u)
<1>1. /\ Sound(Now) /\ Sound(t) /\ AskedSized(asked) /\ gl_wtop = Now.top
      /\ h \in Windows /\ h # DESKWH /\ h # NIL /\ c = Now.size[h] /\ c = t.size[h]
      /\ Ordered(order) /\ Ordered(t.order)
      /\ \A p \in Screen : Fine(shown, asked, Now, p)
  BY NowIs, HandlesApart DEF Redone, Sound
<1>2. /\ Range(t.order) = Range(order) /\ t.order # <<>> /\ Last(t.order) = h
      /\ order # <<>>
  <2>1. order # <<>>
    BY RangeIs, <1>1
  <2> QED
    BY <2>1, <1>1, OrderFacts
<1>3. t.top = h /\ h \in Range(t.order) /\ c \in Sized
  BY <1>1, <1>2 DEF Sound
<1>4. gl_wtop \in Range(order) /\ gl_wtop \in Windows /\ gl_wtop # NIL
      /\ gl_wtop \in Range(t.order) \cup {NIL, h}
  BY <1>1, <1>2, LastFacts, NowIs, HandlesApart
<1> HIDE DEF Sized
<1>5. c \in GRECT /\ c # gl_rzero
  BY <1>3, SizedFacts
<1> DEFINE covered == DrawFrame(shown, t, gl_wtop)
           clrold == gl_wtop = NIL \/ gl_wtop \notin t.broken
<1>6. Request(t, h, c, pt, gl_wtop, wasclr)
        = IF clrold /\ wasclr THEN NothingLeft(DrawFrame(covered, t, h))
          ELSE Plan(c, h, DESKWH, FALSE, covered)
  <2>1. Request(t, h, c, pt, gl_wtop, wasclr) = TopRequest(t, h, c, gl_wtop, wasclr)
    BY <1>5 DEF Request
  <2>2. h = Last(t.order) /\ h # gl_wtop /\ t.top = h /\ gl_wtop # NIL
    BY <1>2, <1>3, <1>4
  <2> QED
    BY <2>1, <2>2 DEF TopRequest
<1>7. covered = DrawFrames(shown, t, {gl_wtop}, TrueSize(t.size[gl_wtop]))
  BY DEF DrawFrame
<1> HIDE DEF covered
<1>8. {gl_wtop} \subseteq Range(t.order) /\ {h} \subseteq Range(t.order)
  BY <1>2, <1>3, <1>4
<1>9. ASSUME NEW p \in Screen, Owner(t, p) # h
      PROVE  Fine(covered, asked, t, p)
  <2>1. Owner(Now, p) # h
    <3> SUFFICES ASSUME Owner(Now, p) = h
                 PROVE  FALSE
      OBVIOUS
    <3>1. Hits(curr, h, p)
      BY <1>1, OwnerHandle, NowIs
    <3>2. Hits(t.size, h, p)
      BY <3>1, <1>1, NowIs DEF Hits
    <3>3. \A k \in Range(t.order) : k = h \/ Under(t.order, k, h)
      BY <1>1, <1>2, LastFacts
    <3>4. OwnerIn(t.order, t.size, p) = h
      BY <3>2, <3>3, <1>1, <1>3, OwnerAlone
    <3> QED
      BY <3>4, <1>9, OwnerTree
  <2>2. CASE Owner(t, p) = gl_wtop /\ ~inside(p, Work(t.size, gl_wtop))
    <3>1. Hits(t.size, gl_wtop, p)
      BY <2>2, <1>1, <1>4, OwnerHandle, HandlesApart
    <3>2. covered[p] = Due(t, p)
      BY <2>2, <3>1, <1>1, <1>7, <1>8, FramesDrawn DEF Hits
    <3> QED
      BY <3>2 DEF Fine
  <2>3. CASE ~(Owner(t, p) = gl_wtop /\ ~inside(p, Work(t.size, gl_wtop)))
    <3>1. Fine(shown, asked, t, p)
      BY <1>1, <1>3, <1>9, <2>1, <2>3, Kept
    <3> QED
      BY <3>1, <1>1, <1>7, <1>8, FramesRight
  <2> QED
    BY <2>2, <2>3
<1>10. CASE clrold /\ wasclr
  <2> DEFINE pic == DrawFrame(covered, t, h)
  <2>1. u.shown = pic /\ u.asked = asked
    BY <1>6, <1>10 DEF Drawn, NothingLeft, Plan
  <2>2. pic = DrawFrames(covered, t, {h}, TrueSize(t.size[h]))
    BY DEF DrawFrame
  <2> HIDE DEF pic
  <2>3. ASSUME NEW p \in Screen, Owner(t, p) = h
        PROVE  Owner(Now, p) = h
    <3> DEFINE o == Owner(Now, p)
    <3>1. Hits(t.size, h, p)
      BY <2>3, <1>1, OwnerHandle
    <3>2. Hits(curr, h, p)
      BY <3>1, <1>1, NowIs DEF Hits
    <3>3. o \in Range(order) /\ Hits(curr, o, p) /\ (h = o \/ Under(order, h, o))
      BY <3>2, <1>1, OwnerHandle, NowIs
    <3> HIDE DEF o
    <3>4. CASE Under(order, h, o)
      <4>1. PICK i, j \in 1 .. Len(order) : i < j /\ order[i] = h /\ order[j] = o
        BY <3>4 DEF Under
      <4>2. TrueSize(curr[o]) \in Sized /\ TrueSize(curr[h]) \in Sized
        BY <3>3, <1>1, NowIs, TrueSizeFacts DEF Sound
      <4>3. p \in Points /\ TrueSize(curr[o]) \in GRECT /\ TrueSize(curr[h]) \in GRECT
        BY <4>2, SizedFacts, ScreenFacts
      <4>4. Overlap(TrueSize(curr[order[j]]), TrueSize(curr[order[i]]))
        BY <3>2, <3>3, <4>1, <4>3, MetOverlap DEF Hits
      <4>5. i \in DOMAIN order /\ j \in i + 1 .. Len(order)
        <5>1. Len(order) \in Nat /\ DOMAIN order = 1 .. Len(order)
          BY <1>1, AllFacts
        <5> QED
          BY <5>1, <4>1
      <4>6. order[i] \in lists.broken
        BY <4>4, <4>5 DEF Exact
      <4> QED
        BY <4>1, <4>6, <1>10
    <3> QED
      BY <3>3, <3>4 DEF o
  <2>4. ASSUME NEW p \in Screen
        PROVE  Fine(pic, asked, t, p)
    <3>1. CASE Owner(t, p) # h
      <4>1. Fine(covered, asked, t, p)
        BY <3>1, <1>9
      <4> QED
        BY <4>1, <2>2, <1>1, <1>8, FramesRight
    <3>2. CASE Owner(t, p) = h /\ inside(p, Work(t.size, h))
      <4>1. Owner(Now, p) = h /\ Now.size[h] = t.size[h] /\ Fine(shown, asked, Now, p)
        BY <3>2, <2>3, <1>1
      <4>2. Fine(shown, asked, t, p)
        BY <4>1, <3>2, SameDue
      <4>3. Fine(covered, asked, t, p)
        BY <4>2, <1>1, <1>7, <1>8, FramesRight
      <4> QED
        BY <4>3, <2>2, <1>1, <1>8, FramesRight
    <3>3. CASE Owner(t, p) = h /\ ~inside(p, Work(t.size, h))
      <4>1. inside(p, TrueSize(t.size[h]))
        BY <3>3, <1>1, OwnerHandle DEF Hits
      <4>2. pic[p] = Due(t, p)
        BY <3>3, <4>1, <2>2, <1>1, <1>8, FramesDrawn
      <4> QED
        BY <4>2 DEF Fine
    <3> QED
      BY <3>1, <3>2, <3>3
  <2> QED
    BY <2>1, <2>4, <1>1 DEF AllFine
<1>11. CASE ~(clrold /\ wasclr)
  <2>1. u = Drawn(t, h, c, gl_wtop, Plan(c, h, DESKWH, FALSE, covered))
    BY <1>6, <1>11
  <2>2. Between(t, h, DESKWH) \subseteq Range(t.order) /\ h \in Reached(t, h, DESKWH, FALSE)
    BY <1>1, <1>3, BetweenIs DEF Reached
  <2>3. WellDrawn(t, h, c, gl_wtop, c, h, DESKWH, FALSE, covered, u)
    BY <2>1, <2>2, <1>1, <1>4, <1>5, DrawnFine
  <2>4. ASSUME NEW p \in Screen
        PROVE  Fine(u.shown, u.asked, t, p)
    <3>1. CASE Owner(t, p) = h
      <4>1. inside(p, Grow(c, Shadow))
        BY <3>1, WhereIs
      <4> QED
        BY <3>1, <4>1, <2>2, <2>3 DEF Drawing, WellDrawn
    <3>2. CASE Owner(t, p) # h
      BY <3>2, <1>9, <2>3 DEF WellDrawn
    <3> QED
      BY <3>1, <3>2
  <2> QED
    BY <2>3, <2>4 DEF AllFine, WellDrawn
<1> QED
  BY <1>10, <1>11

(***************************************************************************)
(* An open window gets another place, and stays where it is in the order.  *)
(***************************************************************************)
Resized(t, h, c, pt) == Redone(t, h, c, pt) /\ h \in Range(order) /\ t.order = order

LEMMA ResizedFacts ==
  ASSUME NEW t, NEW h, NEW c, NEW pt, Resized(t, h, c, pt)
  PROVE  /\ Sound(Now) /\ Sound(t) /\ AskedSized(asked) /\ Ordered(order)
         /\ h \in Windows /\ h # DESKWH /\ h # NIL /\ h \in Range(t.order)
         /\ c = Now.size[h] /\ pt = t.size[h] /\ c \in Sized /\ pt \in Sized
         /\ t.top = gl_wtop /\ Now.top = gl_wtop /\ gl_wtop = Last(order)
         /\ gl_wtop \in Range(order) \cup {NIL, h} /\ ~Risen(t, gl_wtop)
         /\ gl_wtop \in Range(t.order)
<1>1. /\ Sound(Now) /\ Sound(t) /\ AskedSized(asked) /\ Ordered(order)
      /\ h \in Windows /\ h # DESKWH /\ h # NIL /\ h \in Range(t.order)
      /\ c = Now.size[h] /\ pt = t.size[h] /\ gl_wtop = Now.top
      /\ h \in Range(order) /\ t.order = order
  BY NowIs, HandlesApart DEF Resized, Redone, Sound
<1>2. c \in Sized /\ pt \in Sized /\ t.top = gl_wtop
  BY <1>1, NowIs DEF Sound
<1>3. order # <<>>
  BY <1>1, RangeIs
<1>4. gl_wtop = Last(order) /\ gl_wtop \in Range(order)
  BY <1>1, <1>3, NowIs, LastFacts
<1> HIDE DEF Sized
<1> QED
  BY <1>1, <1>2, <1>4 DEF Risen

LEMMA ResizedOwner ==
  ASSUME NEW t, NEW h, NEW c, NEW pt, Resized(t, h, c, pt), NEW p \in Screen
  PROVE  /\ Owner(Now, p) # h /\ Owner(t, p) # h =>
              \A pic : pic[p] = shown[p] => Fine(pic, asked, t, p)
         /\ (inside(p, Grow(c, Shadow)) <=> inside(p, Grow(pt, Shadow)))
              => Owner(Now, p) = Owner(t, p)
         /\ Owner(Now, p) = h /\ Owner(t, p) # h =>
              /\ inside(p, Grow(c, Shadow)) /\ ~inside(p, Grow(pt, Shadow))
              /\ Owner(t, p) = DESKWH \/ Under(order, Owner(t, p), h)
<1>1. /\ Sound(Now) /\ Sound(t) /\ Ordered(order) /\ h \in Range(order)
      /\ c = Now.size[h] /\ pt = t.size[h] /\ c \in Sized /\ pt \in Sized
      /\ Alike(order, curr, t.order, t.size, h) /\ t.order = order
      /\ t.top = Now.top
  BY ResizedFacts DEF Resized, Redone
<1> HIDE DEF Sized
<1>2. /\ Hits(curr, h, p) <=> inside(p, Grow(c, Shadow))
      /\ Hits(t.size, h, p) <=> inside(p, Grow(pt, Shadow))
  BY <1>1, NowIs, SizedFacts DEF Hits
<1>3. Owner(Now, p) = OwnerIn(order, curr, p) /\ Owner(t, p) = OwnerIn(order, t.size, p)
  BY <1>1, NowIs, OwnerTree
<1>4. (Hits(curr, h, p) <=> Hits(t.size, h, p)) => Owner(Now, p) = Owner(t, p)
  BY <1>1, <1>3, OwnerStays
<1>5. ASSUME Owner(Now, p) = h, Owner(t, p) # h
      PROVE  /\ Hits(curr, h, p) /\ ~Hits(t.size, h, p)
             /\ Owner(t, p) = DESKWH \/ Under(order, Owner(t, p), h)
  <2>1. Hits(curr, h, p) /\ \A k \in Range(order) : Hits(curr, k, p) => k = h \/ Under(order, k, h)
    BY <1>1, <1>5, OwnerHandle, NowIs, HandlesApart DEF Resized, Redone
  <2>2. ~Hits(t.size, h, p)
    BY <2>1, <1>4, <1>5
  <2>3. CASE Owner(t, p) # DESKWH
    <3>1. Owner(t, p) \in Range(order) /\ Hits(t.size, Owner(t, p), p)
      BY <2>3, <1>1, OwnerHandle
    <3>2. Hits(curr, Owner(t, p), p)
      BY <3>1, <1>1, <1>5 DEF Alike, Hits
    <3> QED
      BY <3>1, <3>2, <2>1, <2>2, <1>5
  <2> QED
    BY <2>1, <2>2, <2>3
<1>6. ASSUME Owner(Now, p) # h, Owner(t, p) # h, NEW pic, pic[p] = shown[p]
      PROVE  Fine(pic, asked, t, p)
  BY <1>1, <1>6, Kept DEF Resized
<1> QED
  BY <1>2, <1>4, <1>5, <1>6

\* The place stays the same as well.
LEMMA SameFine ==
  ASSUME NEW t, NEW h, NEW c, NEW pt, Resized(t, h, c, pt), pt = c, NEW wasclr,
         NEW u, u = Drawn(t, h, c, gl_wtop, Request(t, h, c, pt, gl_wtop, wasclr))
  PROVE  AllFine(t, u)
<1>1. /\ AskedSized(asked) /\ c = Now.size[h] /\ pt = t.size[h] /\ c \in Sized
      /\ t.top = gl_wtop /\ Now.top = gl_wtop /\ gl_wtop = Last(order) /\ t.order = order
      /\ \A p \in Screen : Fine(shown, asked, Now, p)
  BY ResizedFacts DEF Resized, Redone
<1> HIDE DEF Sized
<1>2. Request(t, h, c, pt, gl_wtop, wasclr) = NothingLeft(shown)
  <2>1. Request(t, h, c, pt, gl_wtop, wasclr) = TopRequest(t, h, c, gl_wtop, wasclr)
    BY <1>1, SizedFacts DEF Request
  <2>2. h # Last(t.order) \/ h = gl_wtop
    BY <1>1
  <2> QED
    BY <2>1, <2>2 DEF TopRequest
<1>3. u.shown = shown /\ u.asked = asked
  BY <1>2 DEF Drawn, NothingLeft, Plan
<1>4. ASSUME NEW p \in Screen
      PROVE  Fine(shown, asked, t, p)
  <2>1. Owner(Now, p) = Owner(t, p)
    BY ResizedOwner
  <2>2. CASE Owner(t, p) = h
    BY <2>1, <2>2, <1>1, SameDue
  <2>3. CASE Owner(t, p) # h
    BY <2>1, <2>3, ResizedOwner
  <2> QED
    BY <2>2, <2>3
<1> QED
  BY <1>1, <1>3, <1>4 DEF AllFine

\* What the plan of a resized window that covers the old and the new place
\* has to draw.
LEMMA PlanFine ==
  ASSUME NEW t, NEW h, NEW c, NEW pt, Resized(t, h, c, pt), NEW clip \in GRECT,
         NEW start, NEW stop, NEW moved, NEW pic, start # NIL,
         Between(t, start, stop) \subseteq Range(t.order),
         NEW u, u = Drawn(t, h, c, gl_wtop, Plan(clip, start, stop, moved, pic)),
         \A p \in Screen : \/ Fine(pic, asked, t, p)
                           \/ /\ Drawing(t, start, stop, moved, p)
                              /\ inside(p, Grow(clip, Shadow))
  PROVE  AllFine(t, u)
<1>1. /\ Sound(t) /\ AskedSized(asked) /\ gl_wtop \in Range(t.order) \cup {NIL, h}
  BY ResizedFacts
<1>2. WellDrawn(t, h, c, gl_wtop, clip, start, stop, moved, pic, u)
  BY <1>1, DrawnFine
<1> QED
  BY <1>2 DEF WellDrawn, AllFine

LEMMA SizeFine ==
  ASSUME NEW t, NEW h, NEW c, NEW pt, Resized(t, h, c, pt), pt # c,
         pt.x = c.x, pt.y = c.y, NEW wasclr,
         NEW u, u = Drawn(t, h, c, gl_wtop, Request(t, h, c, pt, gl_wtop, wasclr))
  PROVE  AllFine(t, u)
<1>1. /\ Sound(Now) /\ Sound(t) /\ Ordered(order) /\ Ordered(t.order)
      /\ h \in Windows /\ h # DESKWH /\ h # NIL /\ h \in Range(t.order) /\ h \in Range(order)
      /\ c = Now.size[h] /\ pt = t.size[h] /\ c \in Sized /\ pt \in Sized
      /\ t.top = gl_wtop /\ gl_wtop = Last(order) /\ t.order = order
      /\ gl_wtop \in Range(t.order)
      /\ \A p \in Screen : Fine(shown, asked, Now, p)
  BY ResizedFacts DEF Resized, Redone, Sound
<1> HIDE DEF Sized
<1>2. c \in GRECT /\ pt \in GRECT /\ pt # gl_rzero /\ DESKWH # NIL
  BY <1>1, SizedFacts, HandlesApart
<1>3. /\ c.x \in Int /\ c.y \in Int /\ c.w \in Int /\ c.h \in Int
      /\ pt.x \in Int /\ pt.y \in Int /\ pt.w \in Int /\ pt.h \in Int /\ Shadow \in Nat
  BY <1>2, RectFields, ScreenFacts
<1> DEFINE shrunk == pt.w <= c.w /\ pt.h <= c.h
           clip == Resizing(c, pt)
           start == IF pt.w < c.w \/ pt.h < c.h THEN DESKWH ELSE h
           stop == IF shrunk THEN h ELSE DESKWH
           pic == IF shrunk THEN DrawFrame(shown, t, t.top) ELSE shown
<1>4. Request(t, h, c, pt, gl_wtop, wasclr) = Plan(clip, start, stop, shrunk, pic)
  BY <1>2 DEF Request, SizeRequest, Resizing
<1>5. /\ clip \in GRECT
      /\ \A p \in Points :
           inside(p, Grow(pt, Shadow)) \/ inside(p, Grow(c, Shadow))
             => inside(p, Grow(clip, Shadow))
  <2> HIDE DEF shrunk, start, stop, pic
  <2> QED
    BY <1>2, SizeClip
<1>6. \A p \in Points : /\ inside(p, Grow(c, Shadow))
                             <=> /\ p[1] >= c.x /\ p[1] < c.x + (c.w + Shadow)
                                 /\ p[2] >= c.y /\ p[2] < c.y + (c.h + Shadow)
                        /\ inside(p, Grow(pt, Shadow))
                             <=> /\ p[1] >= c.x /\ p[1] < c.x + (pt.w + Shadow)
                                 /\ p[2] >= c.y /\ p[2] < c.y + (pt.h + Shadow)
                        /\ p[1] \in Int /\ p[2] \in Int
  BY <1>2, GrowEdges, PointFields DEF inside
<1>7. shrunk => pt.w < c.w \/ pt.h < c.h
  <2>1. /\ c = [x |-> c.x, y |-> c.y, w |-> c.w, h |-> c.h]
        /\ pt = [x |-> pt.x, y |-> pt.y, w |-> pt.w, h |-> pt.h]
    BY <1>2 DEF GRECT
  <2>2. ~(pt.w = c.w /\ pt.h = c.h)
    BY <2>1
  <2> QED
    BY <2>2, <1>3
<1> HIDE DEF clip
<1>8. u = Drawn(t, h, c, gl_wtop, Plan(clip, start, stop, shrunk, pic))
  BY <1>4
<1>9. /\ h \in Between(t, h, DESKWH) /\ Between(t, h, DESKWH) \subseteq Range(t.order)
      /\ h \in Between(t, DESKWH, h) /\ Between(t, DESKWH, h) \subseteq Range(t.order)
      /\ \A k : Under(order, k, h) => k \in Between(t, DESKWH, h)
      /\ Between(t, DESKWH, DESKWH) = Range(t.order)
  BY <1>1, BetweenIs, BetweenAll
<1>10. \A p \in Screen : p \in Points
  BY ScreenFacts
<1>11. CASE ~shrunk
  <2>1. stop = DESKWH /\ pic = shown /\ start \in {DESKWH, h} /\ shrunk = FALSE
    BY <1>11
  <2>2. Between(t, start, stop) \subseteq Range(t.order) /\ start # NIL
    BY <2>1, <1>1, <1>2, <1>9
  <2>3. ASSUME NEW p \in Screen
        PROVE  \/ Fine(pic, asked, t, p)
               \/ Drawing(t, start, stop, shrunk, p) /\ inside(p, Grow(clip, Shadow))
    <3>1. CASE Owner(t, p) = h
      <4>1. inside(p, Grow(pt, Shadow))
        BY <3>1, WhereIs DEF Resized
      <4>2. inside(p, Grow(clip, Shadow))
        BY <4>1, <1>5, <1>10
      <4>3. h \in Between(t, start, stop)
        BY <2>1, <1>1, <1>9
      <4> HIDE DEF start, stop
      <4>4. Owner(t, p) \in Reached(t, start, stop, shrunk)
        BY <3>1, <4>3, <1>11 DEF Reached
      <4> QED
        BY <4>2, <4>4 DEF Drawing
    <3>2. CASE Owner(t, p) # h /\ Owner(Now, p) # h
      <4>1. Fine(shown, asked, t, p)
        BY <3>2, ResizedOwner
      <4> QED
        BY <4>1, <2>1
    <3>3. CASE Owner(t, p) # h /\ Owner(Now, p) = h
      <4>1. inside(p, Grow(c, Shadow)) /\ ~inside(p, Grow(pt, Shadow))
        BY <3>3, ResizedOwner
      <4>2. pt.w < c.w \/ pt.h < c.h
        <5>1. CASE pt.w >= c.w /\ pt.h >= c.h
          BY <5>1, <4>1, <1>3, <1>6, <1>10
        <5> QED
          BY <5>1, <1>3
      <4>3. start = DESKWH
        BY <4>2
      <4>4. inside(p, Grow(clip, Shadow))
        BY <4>1, <1>5, <1>10
      <4> HIDE DEF start, stop
      <4>5. Owner(t, p) = DESKWH \/ Owner(t, p) \in Reached(t, start, stop, shrunk)
        BY <4>3, <2>1, <1>1, <1>9, <1>11, OwnerHandle DEF Reached
      <4> QED
        BY <4>3, <4>4, <4>5 DEF Drawing
    <3> QED
      BY <3>1, <3>2, <3>3
  <2> HIDE DEF start, stop, pic, shrunk
  <2> QED
    BY <2>2, <2>3, <1>5, <1>8, PlanFine
<1>12. CASE shrunk
  <2>1. /\ stop = h /\ start = DESKWH /\ shrunk = TRUE
        /\ pic = DrawFrames(shown, t, {gl_wtop}, TrueSize(t.size[gl_wtop]))
    BY <1>1, <1>7, <1>12 DEF DrawFrame
  <2>2. Between(t, start, stop) \subseteq Range(t.order) /\ start # NIL
    BY <2>1, <1>2, <1>9
  <2>3. Reached(t, start, stop, shrunk) = Between(t, DESKWH, h) \ {gl_wtop}
    BY <2>1, <1>1, <1>12 DEF Reached
  <2>4. ASSUME NEW p \in Screen, Fine(shown, asked, t, p)
        PROVE  Fine(pic, asked, t, p)
    <3>1. {gl_wtop} \subseteq Range(t.order)
      BY <1>1
    <3> QED
      BY <3>1, <2>1, <2>4, <1>1, FramesRight
  <2>5. ASSUME NEW p \in Screen
        PROVE  \/ Fine(pic, asked, t, p)
               \/ Drawing(t, start, stop, shrunk, p) /\ inside(p, Grow(clip, Shadow))
    <3>1. CASE Owner(t, p) = h /\ h # gl_wtop
      <4>1. inside(p, Grow(pt, Shadow))
        BY <3>1, WhereIs DEF Resized
      <4>2. inside(p, Grow(clip, Shadow))
        BY <4>1, <1>5, <1>10
      <4> QED
        BY <3>1, <4>2, <2>3, <1>9 DEF Drawing
    <3>2. CASE Owner(t, p) = h /\ h = gl_wtop /\ ~inside(p, Work(t.size, h))
      <4>1. inside(p, TrueSize(t.size[gl_wtop])) /\ {gl_wtop} \subseteq Range(t.order)
        BY <3>2, <1>1, OwnerHandle DEF Hits
      <4>2. pic[p] = Due(t, p)
        BY <3>2, <4>1, <2>1, <1>1, FramesDrawn
      <4> QED
        BY <4>2 DEF Fine
    <3>3. CASE Owner(t, p) = h /\ h = gl_wtop /\ inside(p, Work(t.size, h))
      <4>1. inside(p, Grow(pt, Shadow))
        BY <3>3, WhereIs DEF Resized
      <4>2. inside(p, Grow(c, Shadow))
        BY <4>1, <1>3, <1>6, <1>10, <1>12
      <4>3. Owner(Now, p) = h
        BY <3>3, <4>1, <4>2, ResizedOwner
      <4>4. inside(p, Work(Now.size, h))
        <5>1. /\ Work(Now.size, h).x = c.x + 1 /\ Work(Now.size, h).y = c.y + 1
              /\ Work(Now.size, h).w = c.w - 2 /\ Work(Now.size, h).h = c.h - 2
              /\ Work(t.size, h).x = pt.x + 1 /\ Work(t.size, h).y = pt.y + 1
              /\ Work(t.size, h).w = pt.w - 2 /\ Work(t.size, h).h = pt.h - 2
          BY <1>1, WorkRect
        <5>2. /\ p[1] >= c.x + 1 /\ p[1] < c.x + 1 + (pt.w - 2)
              /\ p[2] >= c.y + 1 /\ p[2] < c.y + 1 + (pt.h - 2)
          BY <3>3, <5>1 DEF inside
        <5>3. /\ p[1] < c.x + 1 + (c.w - 2) /\ p[2] < c.y + 1 + (c.h - 2)
          BY <5>2, <1>3, <1>6, <1>10, <1>12
        <5> QED
          BY <5>1, <5>2, <5>3 DEF inside
      <4>5. Due(Now, p) = Due(t, p)
        <5>1. Due(Now, p) = Inside(Now, h, p) /\ Due(t, p) = Inside(t, h, p)
          BY <3>3, <4>3, <4>4, <1>1, DueInside
        <5> QED
          BY <5>1, <1>1 DEF Inside, Picture
      <4>6. Fine(shown, asked, Now, p)
        BY <1>1
      <4>7. Fine(shown, asked, t, p)
        BY <3>3, <4>3, <4>5, <4>6, <1>1 DEF Fine
      <4> QED
        BY <4>7, <2>4
    <3>4. CASE Owner(t, p) # h /\ Owner(Now, p) # h
      <4>1. Fine(shown, asked, t, p)
        BY <3>4, ResizedOwner
      <4> QED
        BY <4>1, <2>4
    <3>5. CASE Owner(t, p) # h /\ Owner(Now, p) = h
      <4>1. /\ inside(p, Grow(c, Shadow))
            /\ Owner(t, p) = DESKWH \/ Under(order, Owner(t, p), h)
        BY <3>5, ResizedOwner
      <4>2. inside(p, Grow(clip, Shadow))
        BY <4>1, <1>5, <1>10
      <4>3. ASSUME Owner(t, p) # DESKWH
            PROVE  Owner(t, p) \in Between(t, DESKWH, h) /\ Owner(t, p) # gl_wtop
        <5>1. Owner(t, p) \in Range(order) /\ Under(order, Owner(t, p), h)
          BY <4>1, <4>3, <1>1, OwnerHandle
        <5>2. order # <<>>
          BY <1>1, RangeIs
        <5>3. h = gl_wtop \/ Under(order, h, gl_wtop)
          BY <5>2, <1>1, LastFacts
        <5>4. Owner(t, p) # gl_wtop
          BY <5>1, <5>3, <3>5, <1>1, UnderFacts
        <5> QED
          BY <5>1, <5>4, <1>9
      <4>4. Owner(t, p) = DESKWH \/ Owner(t, p) \in Reached(t, start, stop, shrunk)
        BY <4>3, <2>3
      <4> QED
        BY <4>2, <4>4, <2>1 DEF Drawing
    <3> QED
      BY <3>1, <3>2, <3>3, <3>4, <3>5
  <2> HIDE DEF start, stop, pic, shrunk
  <2> QED
    BY <2>2, <2>5, <1>5, <1>8, PlanFine
<1> QED
  BY <1>11, <1>12

LEMMA AlignedFields ==
  ASSUME NEW ps, NEW pd \in GRECT
  PROVE  /\ Aligned(ps, pd) \in GRECT
         /\ Aligned(ps, pd).x = pd.x + (IF ps.x = -1 THEN 1 ELSE 0)
         /\ Aligned(ps, pd).w = pd.w - (IF ps.x = -1 THEN 1 ELSE 0)
         /\ Aligned(ps, pd).y = pd.y /\ Aligned(ps, pd).h = pd.h
<1>1. pd.x \in Int /\ pd.y \in Int /\ pd.w \in Int /\ pd.h \in Int
  BY RectFields
<1>2. CASE ps.x = -1
  <2> DEFINE q == [x |-> pd.x + 1, y |-> pd.y, w |-> pd.w - 1, h |-> pd.h]
  <2>1. pd = [x |-> pd.x, y |-> pd.y, w |-> pd.w, h |-> pd.h]
    BY DEF GRECT
  <2>2. Aligned(ps, pd) = [pd EXCEPT !.x = pd.x + 1, !.w = pd.w - 1]
    BY <1>2 DEF Aligned
  <2>3. Aligned(ps, pd) = q
    BY <2>1, <2>2
  <2>4. q \in GRECT /\ q.x = pd.x + 1 /\ q.y = pd.y /\ q.w = pd.w - 1 /\ q.h = pd.h
    BY <1>1 DEF GRECT
  <2> HIDE DEF q
  <2> QED
    BY <2>3, <2>4, <1>2
<1>3. CASE ps.x # -1
  <2>1. Aligned(ps, pd) = pd
    BY <1>3 DEF Aligned
  <2> QED
    BY <2>1, <1>1, <1>3
<1> QED
  BY <1>2, <1>3

LEMMA FullFields ==
  /\ gl_rfull \in GRECT /\ gl_rfull.x = 0 /\ gl_rfull.y = MenuHeight
  /\ gl_rfull.x + gl_rfull.w = Width /\ gl_rfull.y + gl_rfull.h = Height
<1>1. gl_rfull = [x |-> 0, y |-> MenuHeight, w |-> Width, h |-> Height - MenuHeight]
  BY DEF gl_rfull, Rect
<1>2. Width \in Nat /\ Height \in Nat /\ MenuHeight \in Nat
  BY ScreenFacts
<1> QED
  BY <1>1, <1>2 DEF GRECT

Tucked(r) == r.x >= -1 /\ r.y >= MenuHeight

\* A move starts or ends beyond the right or the lower edge, and goes back.
Off(s0, d0) ==
  \/ s0.x + s0.w > Width /\ d0.x < s0.x
  \/ s0.y + s0.h > Height /\ d0.y < s0.y

LEMMA MoveEdges ==
  ASSUME NEW s0 \in GRECT, NEW d0 \in GRECT, Tucked(s0), Tucked(d0),
         d0.w = s0.w, d0.h = s0.h,
         NEW d1, d1 = Aligned(s0, d0),
         NEW s, s = Aligned(d1, rc_intersect(gl_rfull, s0)),
         NEW d, d = rc_intersect(gl_rfull, d1),
         NEW a, a = IF s0.x = -1 \/ d0.x = -1 THEN 1 ELSE 0
  PROVE  /\ s \in GRECT /\ d \in GRECT
         /\ d1.x = d0.x + (IF s0.x = -1 THEN 1 ELSE 0)
         /\ s.x = s0.x + a /\ d.x = d0.x + a /\ s.y = s0.y /\ d.y = d0.y
         /\ s.x + s.w = Smaller(Width, s0.x + s0.w)
         /\ s.y + s.h = Smaller(Height, s0.y + s0.h)
         /\ d.y + d.h = Smaller(Height, d0.y + d0.h)
<1>1. /\ s0.x \in Int /\ s0.y \in Int /\ s0.w \in Int /\ s0.h \in Int
      /\ d0.x \in Int /\ d0.y \in Int /\ d0.w \in Int /\ d0.h \in Int
      /\ Width \in Nat /\ Height \in Nat /\ MenuHeight \in Nat
  BY RectFields, ScreenFacts
<1>2. /\ s0.x >= -1 /\ s0.y >= MenuHeight /\ d0.x >= -1 /\ d0.y >= MenuHeight
  BY DEF Tucked
<1> DEFINE m == rc_intersect(gl_rfull, s0)
<1>3. /\ d1 \in GRECT /\ d1.x = d0.x + (IF s0.x = -1 THEN 1 ELSE 0)
      /\ d1.w = d0.w - (IF s0.x = -1 THEN 1 ELSE 0) /\ d1.y = d0.y /\ d1.h = d0.h
  BY AlignedFields
<1>4. /\ m \in GRECT
      /\ m.x = Larger(0, s0.x) /\ m.y = Larger(MenuHeight, s0.y)
      /\ m.x + m.w = Smaller(Width, s0.x + s0.w)
      /\ m.y + m.h = Smaller(Height, s0.y + s0.h)
  BY FullFields, CommonEdges
<1>5. /\ d \in GRECT
      /\ d.x = Larger(0, d1.x) /\ d.y = Larger(MenuHeight, d1.y)
      /\ d.y + d.h = Smaller(Height, d1.y + d1.h)
  BY <1>3, FullFields, CommonEdges
<1> HIDE DEF m
<1>6. /\ s \in GRECT /\ s.x = m.x + (IF d1.x = -1 THEN 1 ELSE 0)
      /\ s.w = m.w - (IF d1.x = -1 THEN 1 ELSE 0) /\ s.y = m.y /\ s.h = m.h
  BY <1>4, AlignedFields DEF m
<1>7. m.x \in Int /\ m.y \in Int /\ m.w \in Int /\ m.h \in Int
  BY <1>4, RectFields
<1>8. m.y = s0.y /\ d.y = d0.y
  BY <1>1, <1>2, <1>3, <1>4, <1>5 DEF Larger
<1>9. d.x = d0.x + a
  <2>1. CASE s0.x = -1
    BY <2>1, <1>1, <1>2, <1>3, <1>5 DEF Larger
  <2>2. CASE s0.x # -1
    BY <2>2, <1>1, <1>2, <1>3, <1>5 DEF Larger
  <2> QED
    BY <2>1, <2>2
<1>10. s.x = s0.x + a
  <2>1. CASE s0.x = -1
    BY <2>1, <1>1, <1>2, <1>3, <1>4, <1>6 DEF Larger
  <2>2. CASE s0.x # -1
    BY <2>2, <1>1, <1>2, <1>3, <1>4, <1>6 DEF Larger
  <2> QED
    BY <2>1, <2>2
<1>11. s.x + s.w = m.x + m.w
  <2> DEFINE e == IF d1.x = -1 THEN 1 ELSE 0
  <2>1. e \in Int /\ s.x = m.x + e /\ s.w = m.w - e
    BY <1>6
  <2> HIDE DEF e
  <2> QED
    BY <2>1, <1>7
<1> QED
  BY <1>3, <1>4, <1>5, <1>6, <1>8, <1>9, <1>10, <1>11

\* The column to the left of a rectangle.
LEMMA EdgeMade ==
  ASSUME NEW d \in GRECT, NEW e, e = Rect(d.x - 1, d.y, 1, d.h)
  PROVE  e \in GRECT /\ e.x = d.x - 1 /\ e.y = d.y /\ e.w = 1 /\ e.h = d.h
<1>1. d.x \in Int /\ d.y \in Int /\ d.h \in Int
  BY RectFields
<1>2. PICK x \in Int : x = d.x - 1
  BY <1>1
<1>3. e = [x |-> x, y |-> d.y, w |-> 1, h |-> d.h]
  BY <1>2 DEF Rect
<1> QED
  BY <1>1, <1>2, <1>3 DEF GRECT

LEMMA MoveGeometry ==
  ASSUME NEW s0 \in GRECT, NEW d0 \in GRECT, Tucked(s0), Tucked(d0),
         d0.w = s0.w, d0.h = s0.h, ~Off(s0, d0), Shadow > 0,
         NEW d1, d1 = Aligned(s0, d0),
         NEW s, s = Aligned(d1, rc_intersect(gl_rfull, s0)),
         NEW d, d = rc_intersect(gl_rfull, d1),
         NEW clip, clip = IF d1.x = -1 /\ ~(s0.x = -1) THEN [s EXCEPT !.x = @ - 1] ELSE s,
         NEW p \in Screen,
         NEW q, q = <<p[1] - d.x + s.x, p[2] - d.y + s.y>>
  PROVE  /\ clip \in GRECT /\ Rect(d.x - 1, d.y, 1, d.h) \in GRECT
         /\ q[1] - s0.x = p[1] - d0.x /\ q[2] - s0.y = p[2] - d0.y
         /\ inside(q, s) => q \in Screen /\ inside(p, d0) /\ inside(q, s0)
         /\ inside(p, d0) /\ ~inside(q, s) =>
              /\ s0.x = -1 /\ d1.x # -1 /\ p[1] = d0.x
              /\ inside(p, Grow(Rect(d.x - 1, d.y, 1, d.h), Shadow))
         /\ inside(p, s0) => inside(p, Grow(clip, Shadow))
<1>1. /\ s0.x \in Int /\ s0.y \in Int /\ s0.w \in Int /\ s0.h \in Int
      /\ d0.x \in Int /\ d0.y \in Int /\ d0.w \in Int /\ d0.h \in Int
      /\ Width \in Nat /\ Height \in Nat /\ MenuHeight \in Nat /\ Shadow \in Nat
      /\ s0.x >= -1 /\ s0.y >= MenuHeight /\ d0.x >= -1 /\ d0.y >= MenuHeight
      /\ d0.w = s0.w /\ d0.h = s0.h
  BY RectFields, ScreenFacts DEF Tucked
<1>2. PICK a \in 0 .. 1 : a = IF s0.x = -1 \/ d0.x = -1 THEN 1 ELSE 0
  OBVIOUS
<1>3. /\ s \in GRECT /\ d \in GRECT
      /\ d1.x = d0.x + (IF s0.x = -1 THEN 1 ELSE 0)
      /\ s.x = s0.x + a /\ d.x = d0.x + a /\ s.y = s0.y /\ d.y = d0.y
      /\ s.x + s.w = Smaller(Width, s0.x + s0.w)
      /\ s.y + s.h = Smaller(Height, s0.y + s0.h)
      /\ d.y + d.h = Smaller(Height, d0.y + d0.h)
  BY <1>2, MoveEdges
<1>4. /\ s.x \in Int /\ s.y \in Int /\ s.w \in Int /\ s.h \in Int
      /\ d.x \in Int /\ d.y \in Int /\ d.w \in Int /\ d.h \in Int
  BY <1>3, RectFields
<1>5. /\ p[1] \in Int /\ p[2] \in Int /\ p[1] >= 0 /\ p[1] < Width
      /\ p[2] >= MenuHeight /\ p[2] < Height
  BY <1>1 DEF Screen
<1>6. q[1] = p[1] - d.x + s.x /\ q[2] = p[2] - d.y + s.y
  OBVIOUS
<1>7. /\ q[1] \in Int /\ q[2] \in Int
      /\ q[1] = p[1] - d0.x + s0.x /\ q[2] = p[2] - d0.y + s0.y
      /\ q[1] - s0.x = p[1] - d0.x /\ q[2] - s0.y = p[2] - d0.y
  BY <1>1, <1>2, <1>3, <1>4, <1>5, <1>6
<1>8. /\ s.x + s.w = Width \/ s.x + s.w = s0.x + s0.w
      /\ s.x + s.w <= Width /\ s.x + s.w <= s0.x + s0.w
      /\ s.y + s.h = Height \/ s.y + s.h = s0.y + s0.h
      /\ s.y + s.h <= Height /\ s.y + s.h <= s0.y + s0.h
      /\ d.y + d.h = Height \/ d.y + d.h = d0.y + d0.h
  BY <1>1, <1>3 DEF Smaller
<1>9. /\ inside(q, s) <=> /\ q[1] >= s.x /\ q[1] < s.x + s.w
                          /\ q[2] >= s.y /\ q[2] < s.y + s.h
      /\ inside(p, d0) <=> /\ p[1] >= d0.x /\ p[1] < d0.x + d0.w
                           /\ p[2] >= d0.y /\ p[2] < d0.y + d0.h
      /\ inside(q, s0) <=> /\ q[1] >= s0.x /\ q[1] < s0.x + s0.w
                           /\ q[2] >= s0.y /\ q[2] < s0.y + s0.h
      /\ inside(p, s0) <=> /\ p[1] >= s0.x /\ p[1] < s0.x + s0.w
                           /\ p[2] >= s0.y /\ p[2] < s0.y + s0.h
  BY DEF inside
<1>10. ASSUME inside(q, s)
       PROVE  q \in Screen /\ inside(p, d0) /\ inside(q, s0)
  <2>1. inside(p, d0) /\ inside(q, s0)
    BY <1>1, <1>2, <1>3, <1>4, <1>5, <1>7, <1>8, <1>9, <1>10
  <2>2. s.x >= 0
    BY <1>1, <1>2, <1>3
  <2>3. q[1] \in 0 .. Width - 1 /\ q[2] \in MenuHeight .. Height - 1
    BY <2>2, <1>1, <1>3, <1>4, <1>7, <1>8, <1>9, <1>10
  <2>4. q = <<q[1], q[2]>>
    BY <1>6
  <2> QED
    BY <2>1, <2>3, <2>4 DEF Screen
<1> DEFINE e == Rect(d.x - 1, d.y, 1, d.h)
<1>11. e \in GRECT /\ e.x = d.x - 1 /\ e.y = d.y /\ e.w = 1 /\ e.h = d.h
  BY <1>3, EdgeMade
<1> HIDE DEF e
<1>12. ASSUME inside(p, d0), ~inside(q, s)
       PROVE  /\ s0.x = -1 /\ d1.x # -1 /\ p[1] = d0.x
              /\ inside(p, Grow(e, Shadow))
  <2>1. ~(s0.x + s0.w > Width /\ d0.x < s0.x) /\ ~(s0.y + s0.h > Height /\ d0.y < s0.y)
    BY DEF Off
  <2>2. q[2] >= s.y /\ q[2] < s.y + s.h
    BY <2>1, <1>1, <1>3, <1>4, <1>5, <1>7, <1>8, <1>9, <1>12
  <2>3. q[1] < s.x + s.w
    BY <2>1, <1>1, <1>3, <1>4, <1>5, <1>7, <1>8, <1>9, <1>12
  <2>4. q[1] < s0.x + a
    BY <2>2, <2>3, <1>3, <1>4, <1>7, <1>9, <1>12
  <2>5. a = 1 /\ p[1] = d0.x
    <3>1. q[1] = p[1] - d0.x + s0.x /\ p[1] >= d0.x /\ a \in Int /\ 0 <= a /\ a <= 1
      BY <1>2, <1>7, <1>9, <1>12
    <3>2. p[1] - d0.x < a
      BY <2>4, <3>1, <1>1, <1>5, <1>7
    <3>3. p[1] - d0.x \in Int /\ p[1] - d0.x >= 0
      BY <3>1, <1>1, <1>5
    <3>4. p[1] - d0.x = 0 /\ a = 1
      BY <3>1, <3>2, <3>3
    <3> QED
      BY <3>4, <1>1, <1>5
  <2>6. d0.x # -1 /\ s0.x = -1
    BY <2>5, <1>2, <1>5
  <2>7. d1.x # -1
    BY <2>6, <1>1, <1>3
  <2>8. p[2] >= e.y /\ p[2] < e.y + (e.h + Shadow)
    BY <1>1, <1>3, <1>4, <1>5, <1>8, <1>9, <1>11, <1>12
  <2>9. p[1] >= e.x /\ p[1] < e.x + (e.w + Shadow)
    BY <2>5, <1>1, <1>3, <1>4, <1>5, <1>11
  <2> QED
    BY <2>5, <2>6, <2>7, <2>8, <2>9, <1>11, GrowEdges DEF inside
<1>13. PICK x \in Int : /\ x = IF d1.x = -1 /\ ~(s0.x = -1) THEN s.x - 1 ELSE s.x
  BY <1>4
<1>14. clip \in GRECT /\ clip.x = x /\ clip.y = s.y /\ clip.w = s.w /\ clip.h = s.h
  <2>1. s = [x |-> s.x, y |-> s.y, w |-> s.w, h |-> s.h]
    BY <1>3 DEF GRECT
  <2> DEFINE r == [x |-> x, y |-> s.y, w |-> s.w, h |-> s.h]
  <2>2. clip = r
    <3>1. CASE d1.x = -1 /\ ~(s0.x = -1)
      <4>1. clip = [s EXCEPT !.x = s.x - 1]
        BY <3>1
      <4> QED
        BY <4>1, <3>1, <2>1, <1>13
    <3>2. CASE ~(d1.x = -1 /\ ~(s0.x = -1))
      BY <3>2, <2>1, <1>13
    <3> QED
      BY <3>1, <3>2
  <2>3. r \in GRECT /\ r.x = x /\ r.y = s.y /\ r.w = s.w /\ r.h = s.h
    BY <1>4, <1>13 DEF GRECT
  <2> HIDE DEF r
  <2> QED
    BY <2>2, <2>3
<1>15. ASSUME inside(p, s0)
       PROVE  inside(p, Grow(clip, Shadow))
  <2>1. x <= p[1] /\ p[1] < x + (s.w + Shadow)
    <3>1. CASE s0.x = -1
      BY <3>1, <1>1, <1>2, <1>3, <1>4, <1>5, <1>8, <1>9, <1>13, <1>15
    <3>2. CASE s0.x # -1 /\ d0.x = -1
      BY <3>2, <1>1, <1>2, <1>3, <1>4, <1>5, <1>8, <1>9, <1>13, <1>15
    <3>3. CASE s0.x # -1 /\ d0.x # -1
      BY <3>3, <1>1, <1>2, <1>3, <1>4, <1>5, <1>8, <1>9, <1>13, <1>15
    <3> QED
      BY <3>1, <3>2, <3>3
  <2>2. s.y <= p[2] /\ p[2] < s.y + (s.h + Shadow)
    BY <1>1, <1>3, <1>4, <1>5, <1>8, <1>9, <1>15
  <2>3. /\ p[1] >= clip.x /\ p[1] < clip.x + (clip.w + Shadow)
        /\ p[2] >= clip.y /\ p[2] < clip.y + (clip.h + Shadow)
    BY <2>1, <2>2, <1>14
  <2> QED
    BY <2>3, <1>14, GrowEdges DEF inside
<1> QED
  BY <1>7, <1>10, <1>11, <1>12, <1>14, <1>15 DEF e

\* Where all windows are drawn over the old and the new place.
LEMMA WholeFine ==
  ASSUME NEW t, NEW h, NEW c, NEW pt, Resized(t, h, c, pt), NEW clip \in GRECT,
         \A p \in Screen : inside(p, Grow(c, Shadow)) \/ inside(p, Grow(pt, Shadow))
                             => inside(p, Grow(clip, Shadow)),
         NEW u, u = Drawn(t, h, c, gl_wtop, Plan(clip, DESKWH, DESKWH, FALSE, shown))
  PROVE  AllFine(t, u)
<1>1. Sound(t) /\ Ordered(t.order) /\ Redone(t, h, c, pt) /\ DESKWH # NIL
  BY ResizedFacts, HandlesApart DEF Resized, Sound
<1>2. /\ Between(t, DESKWH, DESKWH) \subseteq Range(t.order)
      /\ Reached(t, DESKWH, DESKWH, FALSE) = Range(t.order)
  BY <1>1, BetweenAll DEF Reached
<1>3. ASSUME NEW p \in Screen
      PROVE  \/ Fine(shown, asked, t, p)
             \/ /\ Drawing(t, DESKWH, DESKWH, FALSE, p)
                /\ inside(p, Grow(clip, Shadow))
  <2>1. CASE inside(p, Grow(c, Shadow)) \/ inside(p, Grow(pt, Shadow))
    <3>1. Drawing(t, DESKWH, DESKWH, FALSE, p)
      BY <1>1, <1>2, OwnerHandle DEF Drawing
    <3> QED
      BY <3>1, <2>1
  <2>2. CASE ~(inside(p, Grow(c, Shadow)) \/ inside(p, Grow(pt, Shadow)))
    <3>1. Owner(Now, p) # h /\ Owner(t, p) # h
      BY <2>2, <1>1, WhereIs
    <3>2. \A pic : pic[p] = shown[p] => Fine(pic, asked, t, p)
      BY <3>1, ResizedOwner
    <3> QED
      BY <3>2
  <2> QED
    BY <2>1, <2>2
<1> QED
  BY <1>1, <1>2, <1>3, PlanFine

LEMMA OffGeometry ==
  ASSUME NEW s0 \in GRECT, NEW d0 \in GRECT, Tucked(s0), Tucked(d0),
         NEW d, d = rc_intersect(gl_rfull, Aligned(s0, rc_union(s0, d0))),
         NEW p \in Screen
  PROVE  /\ d \in GRECT
         /\ inside(p, s0) \/ inside(p, d0) => inside(p, Grow(d, Shadow))
<1>1. p \in Points /\ inside(p, gl_rfull)
  BY ScreenFacts
<1>2. /\ s0.x \in Int /\ d0.x \in Int /\ s0.x >= -1 /\ d0.x >= -1
      /\ p[1] \in Int /\ p[1] >= 0
  BY RectFields, <1>1, PointFields, ScreenFacts DEF Tucked, Screen
<1> DEFINE b == rc_union(s0, d0)
           m == Aligned(s0, b)
<1>3. b \in GRECT /\ b.x = Smaller(s0.x, d0.x)
  BY UnionEdges
<1>4. inside(p, s0) \/ inside(p, d0) => inside(p, b)
  BY <1>1, InUnion
<1>5. d = rc_intersect(gl_rfull, m)
  OBVIOUS
<1> HIDE DEF b
<1>6. /\ m \in GRECT /\ m.x = b.x + (IF s0.x = -1 THEN 1 ELSE 0)
      /\ m.w = b.w - (IF s0.x = -1 THEN 1 ELSE 0) /\ m.y = b.y /\ m.h = b.h
  BY <1>3, AlignedFields
<1>7. b.x \in Int /\ b.y \in Int /\ b.w \in Int /\ b.h \in Int
  BY <1>3, RectFields
<1> HIDE DEF m
<1>8. inside(p, b) => inside(p, m)
  <2>1. CASE s0.x = -1
    <3>1. b.x = -1
      BY <2>1, <1>2, <1>3 DEF Smaller
    <3>2. m.x = 0 /\ m.x + m.w = b.x + b.w
      BY <2>1, <3>1, <1>6, <1>7
    <3> QED
      BY <3>1, <3>2, <1>2, <1>6 DEF inside
  <2>2. CASE s0.x # -1
    BY <2>2, <1>6, <1>7 DEF inside
  <2> QED
    BY <2>1, <2>2
<1>9. d \in GRECT /\ (inside(p, d) <=> inside(p, gl_rfull) /\ inside(p, m))
  <2>1. gl_rfull \in GRECT
    BY FullFields
  <2>2. d \in GRECT
    BY <2>1, <1>5, <1>6, CommonEdges
  <2>3. inside(p, rc_intersect(gl_rfull, m)) <=> inside(p, gl_rfull) /\ inside(p, m)
    BY <2>1, <1>1, <1>6, InCommon
  <2> QED
    BY <2>2, <2>3, <1>5
<1> QED
  BY <1>1, <1>4, <1>8, <1>9, InGrown

\* The top window, whose program has drawn it, moves.
Moved(t, h, c, pt) ==
  /\ Resized(t, h, c, pt) /\ pt.w = c.w /\ pt.h = c.h /\ t.top = h
  /\ Tucked(c) /\ Tucked(pt) /\ asked[h] = gl_rzero

LEMMA MovedFacts ==
  ASSUME NEW t, NEW h, NEW c, NEW pt, Moved(t, h, c, pt),
         NEW s0, s0 = Grow(c, Shadow), NEW d0, d0 = TrueSize(t.size[h])
  PROVE  /\ s0 \in GRECT /\ d0 \in GRECT /\ Tucked(s0) /\ Tucked(d0)
         /\ d0.w = s0.w /\ d0.h = s0.h /\ d0 = Grow(pt, Shadow)
         /\ s0.x = c.x /\ s0.y = c.y /\ d0.x = pt.x /\ d0.y = pt.y
         /\ \A p : inside(p, d0) => Owner(t, p) = h
         /\ \A p : inside(p, s0) => Owner(Now, p) = h
<1>1. /\ Sound(Now) /\ Sound(t) /\ Ordered(order) /\ h \in Range(order)
      /\ c = Now.size[h] /\ pt = t.size[h] /\ c \in Sized /\ pt \in Sized
      /\ h = Last(order) /\ t.order = order /\ pt.w = c.w /\ pt.h = c.h
      /\ Tucked(c) /\ Tucked(pt)
  BY ResizedFacts DEF Moved, Resized
<1> HIDE DEF Sized
<1>2. c \in GRECT /\ pt \in GRECT /\ d0 = Grow(pt, Shadow) /\ s0 = TrueSize(c)
  BY <1>1, SizedFacts
<1>3. /\ s0 \in GRECT /\ s0.x = c.x /\ s0.y = c.y
      /\ s0.w = c.w + Shadow /\ s0.h = c.h + Shadow
      /\ d0 \in GRECT /\ d0.x = pt.x /\ d0.y = pt.y
      /\ d0.w = pt.w + Shadow /\ d0.h = pt.h + Shadow
  BY <1>2, GrowEdges
<1>4. order # <<>>
  BY <1>1, RangeIs
<1>5. \A k \in Range(order) : k = h \/ Under(order, k, h)
  BY <1>1, <1>4, LastFacts
<1>6. ASSUME NEW p, inside(p, d0)
      PROVE  Owner(t, p) = h
  <2>1. Hits(t.size, h, p)
    BY <1>6 DEF Hits
  <2>2. OwnerIn(order, t.size, p) = h
    BY <2>1, <1>1, <1>5, OwnerAlone
  <2> QED
    BY <2>2, <1>1, OwnerTree
<1>7. ASSUME NEW p, inside(p, s0)
      PROVE  Owner(Now, p) = h
  <2>1. Hits(Now.size, h, p)
    BY <1>7, <1>1, <1>2 DEF Hits
  <2>2. OwnerIn(order, Now.size, p) = h
    BY <2>1, <1>1, <1>5, OwnerAlone
  <2> QED
    BY <2>2, NowIs, OwnerTree
<1> QED
  BY <1>1, <1>2, <1>3, <1>6, <1>7 DEF Tucked

\* What is copied is right at its new place.
LEMMA CopiedRight ==
  ASSUME NEW t, NEW h, NEW c, NEW pt, Moved(t, h, c, pt), NEW p \in Screen,
         NEW q \in Screen, Owner(t, p) = h, Owner(Now, q) = h,
         q[1] - c.x = p[1] - pt.x, q[2] - c.y = p[2] - pt.y
  PROVE  shown[q] = Due(t, p)
<1>1. /\ Sound(Now) /\ Sound(t) /\ h \in Windows /\ h # DESKWH
      /\ c = Now.size[h] /\ pt = t.size[h] /\ c \in Sized /\ pt \in Sized
      /\ pt.w = c.w /\ pt.h = c.h /\ t.top = h /\ Now.top = h
      /\ asked[h] = gl_rzero /\ Fine(shown, asked, Now, q)
  BY ResizedFacts DEF Moved, Resized, Redone
<1> HIDE DEF Sized
<1>2. p \in Points /\ q \in Points
  BY ScreenFacts
<1>3. shown[q] = Due(Now, q)
  <2>1. ~inside(q, asked[h])
    BY <1>1, <1>2, OutOfZero
  <2> QED
    BY <2>1, <1>1 DEF Fine
<1>4. inside(q, Work(Now.size, h)) <=> inside(p, Work(t.size, h))
  <2>1. /\ Work(Now.size, h).x = c.x + 1 /\ Work(Now.size, h).y = c.y + 1
        /\ Work(Now.size, h).w = c.w - 2 /\ Work(Now.size, h).h = c.h - 2
        /\ Work(t.size, h).x = pt.x + 1 /\ Work(t.size, h).y = pt.y + 1
        /\ Work(t.size, h).w = pt.w - 2 /\ Work(t.size, h).h = pt.h - 2
    BY <1>1, WorkRect
  <2>2. /\ c.x \in Int /\ c.y \in Int /\ pt.x \in Int /\ pt.y \in Int
        /\ c.w \in Int /\ c.h \in Int
        /\ p[1] \in Int /\ p[2] \in Int /\ q[1] \in Int /\ q[2] \in Int
    BY <1>1, <1>2, Fields, PointFields
  <2>3. /\ inside(q, Work(Now.size, h)) <=>
             /\ q[1] >= c.x + 1 /\ q[1] < c.x + 1 + (c.w - 2)
             /\ q[2] >= c.y + 1 /\ q[2] < c.y + 1 + (c.h - 2)
        /\ inside(p, Work(t.size, h)) <=>
             /\ p[1] >= pt.x + 1 /\ p[1] < pt.x + 1 + (c.w - 2)
             /\ p[2] >= pt.y + 1 /\ p[2] < pt.y + 1 + (c.h - 2)
    BY <2>1, <1>1 DEF inside
  <2>4. /\ q[1] >= c.x + 1 <=> p[1] >= pt.x + 1
        /\ q[1] < c.x + 1 + (c.w - 2) <=> p[1] < pt.x + 1 + (c.w - 2)
    BY <2>2
  <2>5. /\ q[2] >= c.y + 1 <=> p[2] >= pt.y + 1
        /\ q[2] < c.y + 1 + (c.h - 2) <=> p[2] < pt.y + 1 + (c.h - 2)
    BY <2>2
  <2> QED
    BY <2>3, <2>4, <2>5
<1>5. CASE inside(p, Work(t.size, h))
  <2>1. Due(Now, q) = Inside(Now, h, q) /\ Due(t, p) = Inside(t, h, p)
    BY <1>1, <1>4, <1>5, DueInside
  <2> QED
    BY <2>1, <1>1, <1>3 DEF Inside, Picture
<1>6. CASE ~inside(p, Work(t.size, h))
  <2>1. Due(Now, q) = Frame(Now, h, q) /\ Due(t, p) = Frame(t, h, p)
    BY <1>1, <1>4, <1>6, DueFrame
  <2> QED
    BY <2>1, <1>1, <1>3 DEF Frame, Picture
<1> QED
  BY <1>5, <1>6

\* What w_move() has to draw in the end.
LEMMA MoveCopied ==
  ASSUME NEW t, NEW h, NEW c, NEW pt, Moved(t, h, c, pt), Shadow > 0,
         NEW u, u = Drawn(t, h, c, gl_wtop, w_move(t, h, c))
  PROVE  AllFine(t, u)
<1> DEFINE s0 == Grow(c, Shadow)
           d0 == TrueSize(t.size[h])
           off == Off(s0, d0)
<1>1. /\ s0 \in GRECT /\ d0 \in GRECT /\ Tucked(s0) /\ Tucked(d0)
      /\ d0.w = s0.w /\ d0.h = s0.h /\ d0 = Grow(pt, Shadow)
      /\ s0.x = c.x /\ s0.y = c.y /\ d0.x = pt.x /\ d0.y = pt.y
      /\ \A p : inside(p, d0) => Owner(t, p) = h
      /\ \A p : inside(p, s0) => Owner(Now, p) = h
  BY MovedFacts
<1>2. /\ Resized(t, h, c, pt) /\ Redone(t, h, c, pt) /\ Sound(t) /\ t.order = order
      /\ Ordered(t.order) /\ h \in Range(t.order) /\ t.top = h /\ h # DESKWH
      /\ DESKWH # NIL /\ h \in Windows /\ pt = t.size[h] /\ pt \in Sized
      /\ gl_wtop = h
  BY ResizedFacts, HandlesApart DEF Moved, Resized, Sound
<1> HIDE DEF Sized
<1>3. CASE off
  <2> DEFINE d == rc_intersect(gl_rfull, Aligned(s0, rc_union(s0, d0)))
  <2>1. w_move(t, h, c) = Plan(d, DESKWH, DESKWH, FALSE, shown)
    BY <1>3 DEF w_move, Off
  <2>2. <<0, MenuHeight>> \in Screen
    BY ScreenFacts DEF Screen
  <2>3. /\ d \in GRECT
        /\ \A p \in Screen : inside(p, s0) \/ inside(p, d0) => inside(p, Grow(d, Shadow))
    BY <1>1, <2>2, OffGeometry
  <2> HIDE DEF d
  <2>4. u = Drawn(t, h, c, gl_wtop, Plan(d, DESKWH, DESKWH, FALSE, shown))
    BY <2>1
  <2> QED
    BY <2>3, <2>4, <1>1, <1>2, WholeFine
<1>4. CASE ~off
  <2> DEFINE d1 == Aligned(s0, d0)
             s == Aligned(d1, rc_intersect(gl_rfull, s0))
             d == rc_intersect(gl_rfull, d1)
             edge == Rect(d.x - 1, d.y, 1, d.h)
             blit == Blit(shown, s, d.x, d.y)
             clip == IF d1.x = -1 /\ ~(s0.x = -1) THEN [s EXCEPT !.x = @ - 1] ELSE s
             pic == IF s0.x = -1 /\ ~(d1.x = -1)
                    THEN DrawFrames(blit, t, {h}, Grow(edge, Shadow)) ELSE blit
             from(p) == <<p[1] - d.x + s.x, p[2] - d.y + s.y>>
  <2>1. w_move(t, h, c) = Plan(clip, DESKWH, h, TRUE, pic)
    BY <1>2, <1>4 DEF w_move, Off
  <2>2. ASSUME NEW p \in Screen
        PROVE  /\ clip \in GRECT
               /\ from(p)[1] - s0.x = p[1] - d0.x /\ from(p)[2] - s0.y = p[2] - d0.y
               /\ inside(from(p), s) =>
                    from(p) \in Screen /\ inside(p, d0) /\ inside(from(p), s0)
               /\ inside(p, d0) /\ ~inside(from(p), s) =>
                    s0.x = -1 /\ d1.x # -1 /\ p[1] = d0.x /\ inside(p, Grow(edge, Shadow))
               /\ inside(p, s0) => inside(p, Grow(clip, Shadow))
    <3> DEFINE q == from(p)
    <3>1. q = <<p[1] - d.x + s.x, p[2] - d.y + s.y>>
      OBVIOUS
    <3> HIDE DEF q, d1, s, d, clip, s0, d0, off
    <3> SUFFICES /\ clip \in GRECT
                 /\ q[1] - s0.x = p[1] - d0.x /\ q[2] - s0.y = p[2] - d0.y
                 /\ inside(q, s) => q \in Screen /\ inside(p, d0) /\ inside(q, s0)
                 /\ inside(p, d0) /\ ~inside(q, s) =>
                      s0.x = -1 /\ d1.x # -1 /\ p[1] = d0.x /\ inside(p, Grow(edge, Shadow))
                 /\ inside(p, s0) => inside(p, Grow(clip, Shadow))
      BY DEF q
    <3> QED
      BY <3>1, <1>1, <1>4, MoveGeometry DEF d1, s, d, clip, off
  <2>3. \A p \in Screen : blit[p] = IF inside(from(p), s) THEN shown[from(p)] ELSE shown[p]
    BY DEF Blit
  <2>4. ASSUME NEW p \in Screen
        PROVE  pic[p] = blit[p] \/ pic[p] = Due(t, p)
    <3>1. {h} \subseteq Range(t.order)
      BY <1>2
    <3> DEFINE drawn == DrawFrames(blit, t, {h}, Grow(edge, Shadow))
    <3>2. drawn[p] = blit[p] \/ drawn[p] = Due(t, p)
      <4> HIDE DEF blit, edge
      <4> QED
        BY <3>1, <1>2, FramesDrawn
    <3>3. pic = drawn \/ pic = blit
      OBVIOUS
    <3> HIDE DEF blit, edge, drawn, pic
    <3> QED
      BY <3>2, <3>3
  <2>5. ASSUME NEW p \in Screen, Owner(t, p) # h
        PROVE  pic[p] = blit[p]
    <3>1. {h} \subseteq Range(t.order) /\ Owner(t, p) \notin {h}
      BY <1>2, <2>5
    <3> HIDE DEF blit, edge
    <3> QED
      BY <3>1, <1>2, FramesDrawn
  <2>6. ASSUME NEW p \in Screen, s0.x = -1, d1.x # -1, inside(p, Grow(edge, Shadow)),
               Owner(t, p) = h, ~inside(p, Work(t.size, h))
        PROVE  pic[p] = Due(t, p)
    <3>1. {h} \subseteq Range(t.order) /\ Owner(t, p) \in {h}
      BY <1>2, <2>6
    <3>2. pic = DrawFrames(blit, t, {h}, Grow(edge, Shadow))
      BY <2>6
    <3> HIDE DEF blit, edge, pic
    <3> QED
      BY <3>1, <3>2, <2>6, <1>2, FramesDrawn
  <2> HIDE DEF s0, d0, d1, s, d, edge, blit, clip, pic, off, from
  <2>7. Between(t, DESKWH, h) \subseteq Range(t.order)
        /\ \A k : Under(t.order, k, h) => k \in Between(t, DESKWH, h)
    BY <1>2, BetweenIs
  <2>8. ASSUME NEW p \in Screen
        PROVE  \/ Fine(pic, asked, t, p)
               \/ Drawing(t, DESKWH, h, TRUE, p) /\ inside(p, Grow(clip, Shadow))
    <3>1. CASE inside(from(p), s)
      <4>1. from(p) \in Screen /\ Owner(t, p) = h /\ Owner(Now, from(p)) = h
        BY <3>1, <2>2, <1>1
      <4>2. from(p)[1] - c.x = p[1] - pt.x /\ from(p)[2] - c.y = p[2] - pt.y
        BY <2>2, <1>1
      <4>3. shown[from(p)] = Due(t, p)
        BY <4>1, <4>2, CopiedRight
      <4>4. pic[p] = Due(t, p)
        BY <4>3, <3>1, <2>3, <2>4
      <4> QED
        BY <4>4 DEF Fine
    <3>2. CASE inside(p, d0) /\ ~inside(from(p), s)
      <4>1. s0.x = -1 /\ d1.x # -1 /\ p[1] = pt.x /\ inside(p, Grow(edge, Shadow))
            /\ Owner(t, p) = h
        BY <3>2, <2>2, <1>1
      <4>2. ~inside(p, Work(t.size, h))
        <5>1. Work(t.size, h).x = pt.x + 1
          BY <1>2, WorkRect
        <5>2. pt.x \in Int
          BY <1>2, Fields
        <5> QED
          BY <5>1, <5>2, <4>1 DEF inside
      <4>3. pic[p] = Due(t, p)
        BY <4>1, <4>2, <2>6
      <4> QED
        BY <4>3 DEF Fine
    <3>3. CASE ~inside(p, d0) /\ ~inside(from(p), s)
      <4>1. Owner(t, p) # h
        BY <3>3, <1>1, <1>2, WhereIs
      <4>2. pic[p] = shown[p]
        BY <4>1, <3>3, <2>3, <2>5
      <4>3. CASE Owner(Now, p) # h
        <5>1. \A any : any[p] = shown[p] => Fine(any, asked, t, p)
          BY <4>1, <4>3, <1>2, ResizedOwner
        <5> QED
          BY <5>1, <4>2
      <4>4. CASE Owner(Now, p) = h
        <5>1. /\ inside(p, s0)
              /\ Owner(t, p) = DESKWH \/ Under(order, Owner(t, p), h)
          BY <4>1, <4>4, <1>2, ResizedOwner DEF s0
        <5>2. inside(p, Grow(clip, Shadow))
          BY <5>1, <2>2
        <5>3. Drawing(t, DESKWH, h, TRUE, p)
          BY <5>1, <4>1, <2>7, <1>2 DEF Drawing, Reached
        <5> QED
          BY <5>2, <5>3
      <4> QED
        BY <4>3, <4>4
    <3> QED
      BY <3>1, <3>2, <3>3
  <2>9. u = Drawn(t, h, c, gl_wtop, Plan(clip, DESKWH, h, TRUE, pic))
    BY <2>1
  <2>10. clip \in GRECT
    <3>1. <<0, MenuHeight>> \in Screen
      BY ScreenFacts DEF Screen
    <3> QED
      BY <3>1, <2>2
  <2> QED
    BY <2>7, <2>8, <2>9, <2>10, <1>2, PlanFine
<1> QED
  BY <1>3, <1>4

LEMMA CoveredGrown ==
  ASSUME NEW c \in GRECT, NEW pt \in GRECT, Covers(pt, c), NEW p \in Points,
         inside(p, Grow(c, Shadow))
  PROVE  inside(p, Grow(pt, Shadow))
<1>1. /\ c.x \in Int /\ c.y \in Int /\ c.w \in Int /\ c.h \in Int
      /\ pt.x \in Int /\ pt.y \in Int /\ pt.w \in Int /\ pt.h \in Int
      /\ p[1] \in Int /\ p[2] \in Int /\ Shadow \in Nat
  BY RectFields, PointFields, ScreenFacts
<1>2. /\ p[1] >= c.x /\ p[1] < c.x + (c.w + Shadow)
      /\ p[2] >= c.y /\ p[2] < c.y + (c.h + Shadow)
  BY GrowEdges DEF inside
<1>3. /\ pt.x <= c.x /\ pt.x + pt.w >= c.x + c.w
      /\ pt.y <= c.y /\ pt.y + pt.h >= c.y + c.h
  BY DEF Covers
<1>4. p[1] >= pt.x /\ p[1] < pt.x + (pt.w + Shadow)
  BY <1>1, <1>2, <1>3
<1>5. p[2] >= pt.y /\ p[2] < pt.y + (pt.h + Shadow)
  BY <1>1, <1>2, <1>3
<1> QED
  BY <1>4, <1>5, GrowEdges DEF inside

LEMMA UnionCovers ==
  ASSUME NEW c \in GRECT, NEW pt \in GRECT, rc_union(pt, c) = pt
  PROVE  Covers(pt, c)
<1>1. /\ c.x \in Int /\ c.y \in Int /\ c.w \in Int /\ c.h \in Int
      /\ pt.x \in Int /\ pt.y \in Int /\ pt.w \in Int /\ pt.h \in Int
  BY RectFields
<1>2. /\ pt.x = Smaller(pt.x, c.x) /\ pt.y = Smaller(pt.y, c.y)
      /\ pt.x + pt.w = Larger(pt.x + pt.w, c.x + c.w)
      /\ pt.y + pt.h = Larger(pt.y + pt.h, c.y + c.h)
  <2> DEFINE both == rc_union(pt, c)
  <2>1. /\ both.x = Smaller(pt.x, c.x) /\ both.y = Smaller(pt.y, c.y)
        /\ both.x + both.w = Larger(pt.x + pt.w, c.x + c.w)
        /\ both.y + both.h = Larger(pt.y + pt.h, c.y + c.h)
    BY UnionEdges
  <2>2. both = pt
    OBVIOUS
  <2> HIDE DEF both
  <2> QED
    BY <2>1, <2>2
<1>3. pt.x <= c.x /\ pt.y <= c.y
  BY <1>1, <1>2 DEF Smaller
<1>4. pt.x + pt.w >= c.x + c.w
  BY <1>1, <1>2 DEF Larger
<1>5. pt.y + pt.h >= c.y + c.h
  BY <1>1, <1>2 DEF Larger
<1> QED
  BY <1>3, <1>4, <1>5 DEF Covers

LEMMA MoveFine ==
  ASSUME NEW t, NEW h, NEW c, NEW pt, Resized(t, h, c, pt), Shadow > 0,
         Tucked(c), Tucked(pt), pt.w = c.w /\ pt.h = c.h => asked[h] = gl_rzero,
         NEW u, u = Drawn(t, h, c, gl_wtop, MoveRequest(t, h, c, pt))
  PROVE  AllFine(t, u)
<1>1. /\ Redone(t, h, c, pt) /\ Sound(t) /\ Ordered(t.order) /\ h \in Range(t.order)
      /\ h # NIL /\ h # DESKWH /\ c \in Sized /\ pt \in Sized /\ t.top = gl_wtop
  BY ResizedFacts DEF Resized, Sound
<1> HIDE DEF Sized
<1>2. c \in GRECT /\ pt \in GRECT /\ HasSize(c) /\ HasSize(pt)
  BY <1>1, SizedFacts
<1>3. CASE Covers(pt, c)
  <2>1. u = Drawn(t, h, c, gl_wtop, Plan(pt, h, DESKWH, FALSE, shown))
    BY <1>2, <1>3 DEF MoveRequest
  <2>2. /\ Between(t, h, DESKWH) \subseteq Range(t.order)
        /\ h \in Reached(t, h, DESKWH, FALSE)
    BY <1>1, BetweenIs DEF Reached
  <2>3. ASSUME NEW p \in Screen
        PROVE  \/ Fine(shown, asked, t, p)
               \/ Drawing(t, h, DESKWH, FALSE, p) /\ inside(p, Grow(pt, Shadow))
    <3>1. CASE Owner(t, p) = h
      BY <3>1, <2>2, <1>1, WhereIs DEF Drawing
    <3>2. CASE Owner(t, p) # h
      <4>1. Owner(Now, p) # h
        <5>1. p \in Points
          BY ScreenFacts
        <5>2. inside(p, Grow(c, Shadow)) => inside(p, Grow(pt, Shadow))
          BY <5>1, <1>2, <1>3, CoveredGrown
        <5> QED
          BY <5>2, <3>2, ResizedOwner
      <4> QED
        BY <4>1, <3>2, ResizedOwner
    <3> QED
      BY <3>1, <3>2
  <2> QED
    BY <2>1, <2>2, <2>3, <1>1, <1>2, PlanFine
<1>4. CASE ~Covers(pt, c) /\ pt.w = c.w /\ pt.h = c.h /\ t.top = h
  <2>1. u = Drawn(t, h, c, gl_wtop, w_move(t, h, c))
    BY <1>2, <1>4 DEF MoveRequest
  <2>2. Moved(t, h, c, pt)
    BY <1>4 DEF Moved
  <2> QED
    BY <2>1, <2>2, MoveCopied
<1>5. CASE ~Covers(pt, c) /\ ~(pt.w = c.w /\ pt.h = c.h /\ t.top = h)
  <2> DEFINE both == rc_union(pt, c)
  <2>1. both # pt
    BY <1>2, <1>5, UnionCovers
  <2>2. u = Drawn(t, h, c, gl_wtop, Plan(both, DESKWH, DESKWH, FALSE, shown))
    <3> HIDE DEF both
    <3>1. MoveRequest(t, h, c, pt)
            = Plan(both, IF both = pt THEN h ELSE DESKWH, DESKWH, FALSE, shown)
      BY <1>2, <1>5 DEF MoveRequest, both
    <3> QED
      BY <3>1, <2>1
  <2>3. both \in GRECT
    BY <1>2, UnionEdges
  <2>4. ASSUME NEW p \in Screen,
               inside(p, Grow(c, Shadow)) \/ inside(p, Grow(pt, Shadow))
        PROVE  inside(p, Grow(both, Shadow))
    <3>1. p \in Points
      BY ScreenFacts
    <3> QED
      BY <3>1, <2>4, <1>2, InGrown
  <2> HIDE DEF both
  <2> QED
    BY <2>2, <2>3, <2>4, WholeFine
<1> QED
  BY <1>3, <1>4, <1>5

\* An open window gets another place.
LEMMA ResizeFine ==
  ASSUME NEW t, NEW h, NEW c, NEW pt, Resized(t, h, c, pt), Shadow > 0,
         Tucked(c), Tucked(pt), pt.w = c.w /\ pt.h = c.h => asked[h] = gl_rzero,
         NEW wasclr,
         NEW u, u = Drawn(t, h, c, gl_wtop, Request(t, h, c, pt, gl_wtop, wasclr))
  PROVE  AllFine(t, u)
<1>1. pt \in Sized
  BY ResizedFacts
<1>2. pt # gl_rzero
  BY <1>1, SizedFacts
<1>3. CASE pt = c
  BY <1>3, SameFine
<1>4. CASE pt # c /\ pt.x = c.x /\ pt.y = c.y
  BY <1>4, SizeFine
<1>5. CASE ~(pt.x = c.x /\ pt.y = c.y)
  <2>1. Request(t, h, c, pt, gl_wtop, wasclr) = MoveRequest(t, h, c, pt)
    BY <1>5 DEF Request
  <2> QED
    BY <2>1, MoveFine
<1> QED
  BY <1>3, <1>4, <1>5

(***************************************************************************)
(* The calls.                                                              *)
(***************************************************************************)
Seen ==
  /\ AskedSized(asked)
  /\ gl_wtop = Now.top
  /\ \A h \in Range(order) : Tucked(curr[h])
  /\ \A p \in Screen : Fine(shown, asked, Now, p)

LEMMA NowSound == Early = FALSE /\ Inv => Sound(Now) /\ Exact(order, curr, lists)
<1> SUFFICES ASSUME Early = FALSE, Inv
             PROVE  Sound(Now) /\ Exact(order, curr, lists)
  OBVIOUS
<1>1. Formed(created, order, curr, lists) /\ Exact(order, curr, lists)
  BY NowExact DEF Inv, Shape
<1> QED
  BY <1>1, SoundTree DEF Now

\* The tree that draw_change() makes, and what is drawn for it.
Changed(h, pt, ord) ==
  LET size == [curr EXCEPT ![h] = pt] IN Tree(ord, size, Rebuild(ord, size, lists))

Redrawn(t, h, pt) ==
  Drawn(t, h, curr[h], gl_wtop,
        Request(t, h, curr[h], pt, gl_wtop, h \notin lists.broken))

LEMMA TreeIs ==
  ASSUME NEW ord, NEW size, NEW l, NEW t, t = Tree(ord, size, l)
  PROVE  /\ t.order = ord /\ t.size = size /\ t.rlist = l.rlist
         /\ t.broken = l.broken
         /\ t.top = IF ord = <<>> THEN NIL ELSE Last(ord)
BY DEF Tree

LEMMA JudgedFine ==
  ASSUME NEW t, NEW pic, NEW ask, NEW p \in Screen, Fine(pic, ask, t, p)
  PROVE  Fine(Judged(pic, t), ask, t, p)
<1>1. pic[p] = Due(t, p) => Judged(pic, t)[p] = Due(t, p)
  BY DEF Judged
<1> QED
  BY <1>1 DEF Fine

LEMMA ChangedIs ==
  ASSUME NEW h \in Windows, NEW pt, NEW ord, draw_change(h, pt, ord), curr \in [Handles -> GRECT],
         NEW t, t = Changed(h, pt, ord)
  PROVE  /\ t.order = ord /\ t.size[h] = pt /\ \A k \in Handles \ {h} : t.size[k] = curr[k]
         /\ order' = ord /\ Now' = t /\ gl_wtop' = t.top /\ curr' = t.size
         /\ AllFine(t, Redrawn(t, h, pt)) =>
              AskedSized(asked') /\ \A p \in Screen : Fine(shown', asked', Now', p)
<1> DEFINE size == [curr EXCEPT ![h] = pt]
           l == Rebuild(ord, size, lists)
<1>1. h \in Handles
  BY DEF Handles
<1>2. size[h] = pt /\ \A k \in Handles \ {h} : size[k] = curr[k]
  BY <1>1
<1>3. t = Tree(ord, size, l)
  BY DEF Changed
<1>4. /\ Leave(t, l, Drawn(t, h, curr[h], gl_wtop,
                           Request(t, h, curr[h], t.size[h], gl_wtop, h \notin lists.broken)))
  BY <1>3 DEF draw_change, Update, Change
<1> HIDE DEF size, l
<1>5. t.order = ord /\ t.size = size
  BY <1>3, TreeIs
<1> DEFINE u == Redrawn(t, h, pt)
<1>6. Leave(t, l, u)
  BY <1>2, <1>4, <1>5 DEF Redrawn
<1> HIDE DEF u
<1>7. /\ order' = ord /\ curr' = size /\ lists' = l /\ gl_wtop' = t.top
      /\ shown' = Judged(u.shown, t) /\ asked' = u.asked
  BY <1>5, <1>6 DEF Leave
<1>8. Now' = t
  BY <1>3, <1>7 DEF Now
<1>9. AllFine(t, u) =>
        AskedSized(asked') /\ \A p \in Screen : Fine(shown', asked', Now', p)
  BY <1>7, <1>8, JudgedFine DEF AllFine
<1> QED
  BY <1>2, <1>5, <1>7, <1>8, <1>9 DEF u

\* What every call that draws has in common.
Altering(h, pt, ord) ==
  /\ draw_change(h, pt, ord)
  /\ Range(ord) \ {h} = Range(order) \ {h}
  /\ h \in Range(ord) => Tucked(pt)
  /\ \A k, m \in Range(order) \ {h} : Under(order, k, m) <=> Under(ord, k, m)

LEMMA ChangedSeen ==
  ASSUME Early = FALSE, Inv, Inv', Seen, NEW h \in Windows, NEW pt, NEW ord,
         Altering(h, pt, ord), NEW t, t = Changed(h, pt, ord)
  PROVE  /\ Redone(t, h, curr[h], pt)
         /\ t.order = ord
         /\ AllFine(t, Redrawn(t, h, pt)) => Seen'
<1>1. Formed(created, order, curr, lists) /\ h # DESKWH
  BY HandlesApart DEF Inv, Shape
<1>2. curr \in [Handles -> GRECT] /\ Range(order) \subseteq Windows
      /\ draw_change(h, pt, ord)
      /\ Range(ord) \ {h} = Range(order) \ {h} /\ (h \in Range(ord) => Tucked(pt))
      /\ \A k, m \in Range(order) \ {h} : Under(order, k, m) <=> Under(ord, k, m)
  BY <1>1, RangeIs DEF Formed, Altering
<1>3. /\ t.order = ord /\ t.size[h] = pt /\ \A k \in Handles \ {h} : t.size[k] = curr[k]
      /\ order' = ord /\ Now' = t /\ gl_wtop' = t.top /\ curr' = t.size
      /\ AllFine(t, Redrawn(t, h, pt)) =>
           AskedSized(asked') /\ \A p \in Screen : Fine(shown', asked', Now', p)
  BY <1>2, ChangedIs
<1>4. Sound(Now)
  BY NowSound
<1>5. Sound(t)
  <2>1. (Early = FALSE /\ Inv => Sound(Now) /\ Exact(order, curr, lists))'
    BY NowSound, PTL
  <2> QED
    BY <2>1, <1>3
<1>6. \A k \in Range(order) \ {h} : t.size[k] = curr[k]
  BY <1>2, <1>3 DEF Handles
<1>7. Alike(order, curr, t.order, t.size, h)
  BY <1>2, <1>3, <1>6 DEF Alike
<1>8. Redone(t, h, curr[h], pt)
  BY <1>3, <1>4, <1>5, <1>7 DEF Redone, Seen
<1>9. \A k \in Range(ord) : Tucked(t.size[k])
  BY <1>2, <1>3, <1>6 DEF Seen
<1>10. AllFine(t, Redrawn(t, h, pt)) => Seen'
  <2>1. Seen' <=> /\ AskedSized(asked') /\ gl_wtop' = Now'.top
                  /\ \A k \in Range(order') : Tucked(curr'[k])
                  /\ \A p \in Screen : Fine(shown', asked', Now', p)
    BY DEF Seen
  <2> QED
    BY <2>1, <1>3, <1>9
<1> QED
  BY <1>3, <1>8, <1>10

LEMMA PlaceFacts ==
  ASSUME NEW h \in Windows, NEW pt \in Places[h]
  PROVE  pt \in Sized /\ Tucked(pt)
<1>1. pt \in UNION {Places[x] : x \in Windows}
  OBVIOUS
<1> QED
  BY <1>1, WindowRectsAssumption DEF Sized, Tucked

LEMMA DrawSeen ==
  ASSUME Early = FALSE, Prompt = TRUE, Shadow > 0, Inv, Inv', Seen, NEW h \in Windows,
         \/ wm_close(h) \/ wm_mktop(h)
         \/ \E pt \in Places[h] : wm_open(h, pt) \/ wm_set_size(h, pt)
  PROVE  Seen'
<1>1. /\ Ordered(order) /\ Formed(created, order, curr, lists)
      /\ \A x \in Windows \ Range(order) : curr[x] = gl_rzero
      /\ Exact(order, curr, lists)
  BY NowSound DEF Inv, Shape, Formed
<1>2. CASE wm_close(h)
  <2> DEFINE ord == ob_delete(order, h)
             t == Changed(h, gl_rzero, ord)
  <2>1. h \in Range(order) /\ draw_change(h, gl_rzero, ord)
    BY <1>2 DEF wm_close, IsOpen
  <2>2. /\ Range(ord) = Range(order) \ {h}
        /\ \A k, m \in Range(order) \ {h} : Under(order, k, m) <=> Under(ord, k, m)
    BY <1>1, <2>1, DeleteFacts, DeleteUnder
  <2>3. Range(ord) \ {h} = Range(order) \ {h} /\ h \notin Range(ord)
    BY <2>2
  <2>4. /\ Redone(t, h, curr[h], gl_rzero) /\ t.order = ord
        /\ AllFine(t, Redrawn(t, h, gl_rzero)) => Seen'
    <3>1. Altering(h, gl_rzero, ord)
      BY <2>1, <2>2, <2>3 DEF Altering
    <3> HIDE DEF ord
    <3> QED
      BY <3>1, ChangedSeen
  <2> HIDE DEF t
  <2>5. AllFine(t, Redrawn(t, h, gl_rzero))
    BY <2>1, <2>4, CloseFine DEF Redrawn
  <2> QED
    BY <2>4, <2>5
<1>3. CASE wm_mktop(h)
  <2> DEFINE ord == ob_order(order, h)
             t == Changed(h, curr[h], ord)
  <2>1. h \in Range(order) /\ h # gl_wtop /\ draw_change(h, curr[h], ord)
    BY <1>3 DEF wm_mktop, IsOpen
  <2>2. /\ Range(ord) = Range(order)
        /\ \A k, m \in Range(order) \ {h} : Under(order, k, m) <=> Under(ord, k, m)
    BY <1>1, <2>1, OrderFacts
  <2>3. Range(ord) \ {h} = Range(order) \ {h} /\ Tucked(curr[h])
    BY <2>1, <2>2 DEF Seen
  <2>4. /\ Redone(t, h, curr[h], curr[h]) /\ t.order = ord
        /\ AllFine(t, Redrawn(t, h, curr[h])) => Seen'
    <3>1. Altering(h, curr[h], ord)
      BY <2>1, <2>2, <2>3 DEF Altering
    <3> HIDE DEF ord
    <3> QED
      BY <3>1, ChangedSeen
  <2> HIDE DEF t
  <2>5. AllFine(t, Redrawn(t, h, curr[h]))
    <3> DEFINE wasclr == h \notin lists.broken
               c == curr[h]
    <3>1. wasclr <=> h \notin lists.broken
      OBVIOUS
    <3>2. /\ Redone(t, h, c, c) /\ t.order = ob_order(order, h)
          /\ Redrawn(t, h, c) = Drawn(t, h, c, gl_wtop, Request(t, h, c, c, gl_wtop, wasclr))
      BY <2>4 DEF Redrawn
    <3> HIDE DEF wasclr, c
    <3>3. AllFine(t, Redrawn(t, h, c))
      BY <3>1, <3>2, <2>1, <1>1, TopFine
    <3> QED
      BY <3>3 DEF c
  <2> QED
    BY <2>4, <2>5
<1>4. ASSUME NEW pt \in Places[h], wm_open(h, pt)
      PROVE  Seen'
  <2> DEFINE ord == Append(order, h)
             t == Changed(h, pt, ord)
  <2>1. h \notin Range(order) /\ draw_change(h, pt, ord)
    BY <1>4 DEF wm_open, IsOpen
  <2>2. /\ Range(ord) = Range(order) \cup {h}
        /\ \A k, m \in Range(order) \ {h} : Under(order, k, m) <=> Under(ord, k, m)
    BY <1>1, <2>1, AppendFacts, AppendUnder
  <2>3. Range(ord) \ {h} = Range(order) \ {h} /\ Tucked(pt) /\ curr[h] = gl_rzero
    BY <1>1, <2>1, <2>2, PlaceFacts
  <2>4. /\ Redone(t, h, curr[h], pt) /\ t.order = ord
        /\ AllFine(t, Redrawn(t, h, pt)) => Seen'
    <3>1. Altering(h, pt, ord)
      BY <2>1, <2>2, <2>3 DEF Altering
    <3> HIDE DEF ord
    <3> QED
      BY <3>1, ChangedSeen
  <2> HIDE DEF t
  <2>5. AllFine(t, Redrawn(t, h, pt))
    BY <2>1, <2>3, <2>4, OpenFine DEF Redrawn
  <2> QED
    BY <2>4, <2>5
<1>5. ASSUME NEW pt \in Places[h], wm_set_size(h, pt)
      PROVE  Seen'
  <2> DEFINE t == Changed(h, pt, order)
  <2>1. h \in Range(order) /\ draw_change(h, pt, order)
    BY <1>5 DEF wm_set_size, IsOpen
  <2>2. Tucked(pt) /\ Tucked(curr[h])
    BY <2>1, PlaceFacts DEF Seen
  <2>3. pt.w = curr[h].w /\ pt.h = curr[h].h => asked[h] = gl_rzero
    <3>1. asked[h] \in Sized \/ asked[h] = gl_rzero
      BY DEF Seen, AskedSized
    <3> HIDE DEF Sized
    <3>2. pt.w = curr[h].w /\ pt.h = curr[h].h => ~HasSize(asked[h])
      BY <1>5 DEF wm_set_size
    <3> QED
      BY <3>1, <3>2, SizedFacts
  <2>4. /\ Redone(t, h, curr[h], pt) /\ t.order = order
        /\ AllFine(t, Redrawn(t, h, pt)) => Seen'
    <3>1. Altering(h, pt, order)
      BY <2>1, <2>2 DEF Altering
    <3> QED
      BY <3>1, ChangedSeen
  <2> HIDE DEF t
  <2>5. AllFine(t, Redrawn(t, h, pt))
    BY <2>1, <2>2, <2>3, <2>4, ResizeFine DEF Redrawn, Resized
  <2> QED
    BY <2>4, <2>5
<1> QED
  BY <1>2, <1>3, <1>4, <1>5

\* Nothing is drawn, and h is not open.
LEMMA QuietSeen ==
  ASSUME Early = FALSE, Inv, Inv', Seen, NEW h \in Windows, h \notin Range(order),
         UNCHANGED <<order, gl_wtop, shown>>, AskedSized(asked'),
         \A k \in Handles \ {h} : curr'[k] = curr[k],
         \A k \in Windows \ {h} : asked'[k] = asked[k]
  PROVE  Seen'
<1>1. Sound(Now) /\ Ordered(order) /\ Range(order) \subseteq Windows
  BY NowSound, RangeIs DEF Inv, Shape, Formed
<1>2. Sound(Now')
  <2>1. (Early = FALSE /\ Inv => Sound(Now) /\ Exact(order, curr, lists))'
    BY NowSound, PTL
  <2> QED
    BY <2>1
<1>3. PICK t : t = Now'
  OBVIOUS
<1>4. /\ t.order = order /\ t.size = curr' /\ t.top = Now.top
  <2>1. (Now = Tree(order, curr, lists))'
    BY DEF Now
  <2>2. t = Tree(order, curr', lists')
    BY <2>1, <1>3
  <2> QED
    BY <2>2, TreeIs, NowIs
<1>5. \A k \in Range(order) : k \in Handles \ {h} /\ curr'[k] = curr[k]
  BY <1>1 DEF Handles
<1>6. Alike(order, curr, t.order, t.size, h)
  BY <1>4, <1>5 DEF Alike
<1>7. Redone(t, h, curr[h], curr'[h])
  BY <1>1, <1>2, <1>3, <1>4, <1>6 DEF Redone, Seen
<1>8. ASSUME NEW p \in Screen
      PROVE  Fine(shown', asked', t, p)
  <2>1. /\ Owner(Now, p) # h /\ Owner(t, p) # h
    BY <1>4, <1>7, WhereIs
  <2>2. Fine(shown, asked, t, p)
    BY <2>1, <1>4, <1>7, Kept
  <2>3. Owner(t, p) # DESKWH => Owner(t, p) \in Windows \ {h}
    BY <2>1, <1>2, <1>3, OwnerHandle
  <2> QED
    BY <2>2, <2>3 DEF Fine
<1>9. Seen' <=> /\ AskedSized(asked') /\ gl_wtop' = Now'.top
                /\ \A k \in Range(order') : Tucked(curr'[k])
                /\ \A p \in Screen : Fine(shown', asked', Now', p)
  BY DEF Seen
<1> QED
  BY <1>3, <1>4, <1>5, <1>8, <1>9 DEF Seen

LEMMA CreateSeen ==
  ASSUME Early = FALSE, Inv, Inv', Seen, NEW h \in Windows, wm_create(h)
  PROVE  Seen'
<1>1. /\ h \notin created /\ curr' = [curr EXCEPT ![h] = gl_rzero]
      /\ UNCHANGED <<order, gl_wtop, shown, asked>>
  BY DEF wm_create
<1>2. Range(order) \subseteq created /\ curr \in [Handles -> GRECT]
  BY DEF Inv, Shape, Formed
<1>3. h \notin Range(order) /\ \A k \in Handles \ {h} : curr'[k] = curr[k]
  BY <1>1, <1>2
<1> QED
  BY <1>1, <1>3, QuietSeen DEF Seen

LEMMA DeleteSeen ==
  ASSUME Early = FALSE, Inv, Inv', Seen, NEW h \in Windows, wm_delete(h)
  PROVE  Seen'
<1>1. /\ h \notin Range(order) /\ curr' = [curr EXCEPT ![h] = gl_rzero]
      /\ asked' = [asked EXCEPT ![h] = gl_rzero]
      /\ UNCHANGED <<order, gl_wtop, shown>>
  BY DEF wm_delete, IsOpen
<1>2. curr \in [Handles -> GRECT]
  BY DEF Inv, Shape, Formed
<1>3. /\ \A k \in Handles \ {h} : curr'[k] = curr[k]
      /\ \A k \in Windows \ {h} : asked'[k] = asked[k]
      /\ asked'[h] = gl_rzero /\ DOMAIN asked' = Windows
  BY <1>1, <1>2 DEF Seen, AskedSized
<1>4. AskedSized(asked')
  BY <1>3 DEF AskedSized, Seen
<1> QED
  BY <1>1, <1>3, <1>4, QuietSeen

\* A call that leaves the tree as it is.
LEMMA SameTree ==
  ASSUME order' = order, curr' = curr, lists' = lists, gl_wtop' = gl_wtop, Seen,
         AskedSized(asked'), \A p \in Screen : Fine(shown', asked', Now, p)
  PROVE  Seen'
<1>1. Now' = Now
  BY DEF Now
<1>2. Seen' <=> /\ AskedSized(asked') /\ gl_wtop' = Now'.top
                /\ \A k \in Range(order') : Tucked(curr'[k])
                /\ \A p \in Screen : Fine(shown', asked', Now', p)
  BY DEF Seen
<1> QED
  BY <1>1, <1>2 DEF Seen

LEMMA DialSeen ==
  ASSUME Early = FALSE, Inv, Seen, NEW r \in Dialogs, fm_dial(r)
  PROVE  Seen'
<1> DEFINE dialog == [p \in Screen |-> IF inside(p, r) THEN Stale ELSE shown[p]]
           desk == w_drawdesk(dialog, Now, r)
           u == w_update(desk, Now, DESKWH, r, DESKWH, FALSE)
<1>1. Leave(Now, lists, u)
  BY DEF fm_dial
<1>2. /\ Sound(Now) /\ Ordered(Now.order) /\ AskedSized(asked) /\ gl_wtop = Now.top
      /\ \A p \in Screen : Fine(shown, asked, Now, p)
  BY NowSound DEF Seen, Sound
<1>3. r \in GRECT
  BY WindowRectsAssumption
<1>4. /\ Between(Now, DESKWH, DESKWH) \subseteq Range(Now.order)
      /\ Reached(Now, DESKWH, DESKWH, FALSE) = Range(Now.order)
  BY <1>2, BetweenAll DEF Reached
<1>5. ASSUME NEW p \in Screen
      PROVE  \/ Fine(desk, asked, Now, p)
             \/ Owner(Now, p) \in Reached(Now, DESKWH, DESKWH, FALSE) /\ inside(p, r)
  <2>1. CASE ~inside(p, r)
    <3>1. dialog[p] = shown[p]
      BY <2>1
    <3>2. Fine(dialog, asked, Now, p)
      BY <3>1, <1>2 DEF Fine
    <3> HIDE DEF dialog
    <3> QED
      BY <3>2, <1>2, DeskDrawn
  <2>2. CASE inside(p, r)
    <3>1. Owner(Now, p) = DESKWH \/ Owner(Now, p) \in Range(Now.order)
      BY <1>2, OwnerHandle
    <3>2. Owner(Now, p) = DESKWH => Fine(desk, asked, Now, p)
      <4> HIDE DEF dialog
      <4> QED
        BY <2>2, <1>2, DeskDrawn
    <3> QED
      BY <3>1, <3>2, <2>2, <1>4
  <2> QED
    BY <2>1, <2>2
<1> HIDE DEF desk, dialog
<1>6. /\ AskedSized(u.asked)
      /\ \A p \in Screen : Fine(u.shown, u.asked, Now, p)
  <2>1. u = w_update(desk, Now, DESKWH, r, DESKWH, FALSE)
    OBVIOUS
  <2> HIDE DEF u
  <2> QED
    BY <2>1, <1>2, <1>3, <1>4, <1>5, UpdateFine
<1> HIDE DEF u
<1>7. /\ order' = order /\ curr' = curr /\ lists' = lists /\ gl_wtop' = gl_wtop
      /\ shown' = Judged(u.shown, Now) /\ asked' = u.asked
  BY <1>1, <1>2, NowIs DEF Leave
<1>8. AskedSized(asked') /\ \A p \in Screen : Fine(shown', asked', Now, p)
  BY <1>6, <1>7, JudgedFine
<1> QED
  BY <1>7, <1>8, SameTree

LEMMA RedrawSeen ==
  ASSUME Early = FALSE, Inv, Seen, NEW h \in Windows, redraw(h)
  PROVE  Seen'
<1>1. /\ \A p \in Screen :
           shown'[p] = IF /\ inside(p, asked[h]) /\ inside(p, Work(curr, h))
                          /\ Owns(Now, h, p)
                       THEN Inside(Now, h, p) ELSE shown[p]
      /\ asked' = [asked EXCEPT ![h] = gl_rzero]
      /\ order' = order /\ curr' = curr /\ lists' = lists /\ gl_wtop' = gl_wtop
  BY DEF redraw
<1>2. /\ Sound(Now) /\ AskedSized(asked) /\ h # DESKWH
      /\ \A p \in Screen : Fine(shown, asked, Now, p)
      /\ Formed(created, order, curr, lists)
  BY NowSound, HandlesApart DEF Seen, Inv, Shape
<1>3. /\ asked'[h] = gl_rzero /\ DOMAIN asked' = Windows
      /\ \A k \in Windows \ {h} : asked'[k] = asked[k]
  BY <1>1, <1>2 DEF AskedSized
<1>4. AskedSized(asked')
  BY <1>2, <1>3 DEF AskedSized
<1>5. ASSUME NEW p \in Screen
      PROVE  Fine(shown', asked', Now, p)
  <2>1. Owner(Now, p) = DESKWH \/ Owner(Now, p) \in Windows
    BY <1>2, OwnerHandle
  <2>2. CASE inside(p, asked[h]) /\ inside(p, Work(curr, h)) /\ Owns(Now, h, p)
    <3>1. h \in Range(order)
      <4>1. CASE curr[h] = gl_rzero
        <5>1. p \in Points /\ p[1] \in Int
          BY ScreenFacts, PointFields
        <5>2. gl_rzero.x = 0 /\ gl_rzero.w = 0
          BY <5>1, OutOfZero
        <5>3. Work(curr, h).x = 0 + 1 /\ Work(curr, h).w = 0 - 2
          BY <4>1, <5>2, <1>2, WorkRect, NowIs
        <5>4. p[1] >= 0 + 1 /\ p[1] < 0 + 1 + (0 - 2)
          BY <5>3, <2>2 DEF inside
        <5> QED
          BY <5>1, <5>4
      <4>2. CASE curr[h] # gl_rzero
        BY <4>2, <1>2 DEF Formed
      <4> QED
        BY <4>1, <4>2
    <3>2. Owner(Now, p) = h
      BY <3>1, <2>2, <1>2, NowIs DEF Sound
    <3>3. Due(Now, p) = Inside(Now, h, p)
      BY <3>2, <2>2, <1>2, DueInside, NowIs
    <3> QED
      BY <3>3, <2>2, <1>1 DEF Fine
  <2>3. CASE ~(inside(p, asked[h]) /\ inside(p, Work(curr, h)) /\ Owns(Now, h, p))
    <3>1. shown'[p] = shown[p]
      BY <2>3, <1>1
    <3>2. CASE Owner(Now, p) # h
      BY <3>1, <3>2, <2>1, <1>2, <1>3 DEF Fine
    <3>3. CASE Owner(Now, p) = h
      <4>1. h \in Range(order) /\ Owns(Now, h, p)
        BY <3>3, <1>2, OwnerHandle, NowIs DEF Sound
      <4>2. ~(inside(p, asked[h]) /\ inside(p, Work(Now.size, h)))
        BY <4>1, <2>3, NowIs
      <4> QED
        BY <4>2, <3>1, <3>3, <1>2 DEF Fine
    <3> QED
      BY <3>2, <3>3
  <2> QED
    BY <2>2, <2>3
<1> QED
  BY <1>1, <1>4, <1>5, SameTree

LEMMA InitSeen ==
  ASSUME Init
  PROVE  Seen
<1>1. /\ order = <<>> /\ gl_wtop = NIL /\ shown = [p \in Screen |-> Background(p)]
      /\ asked = [h \in Windows |-> gl_rzero]
  BY DEF Init
<1>2. Range(order) = {} /\ DOMAIN order = {}
  BY <1>1 DEF Range
<1>3. gl_wtop = Now.top
  BY <1>1, NowIs
<1>4. AskedSized(asked)
  BY <1>1 DEF AskedSized
<1>5. ASSUME NEW p \in Screen
      PROVE  Fine(shown, asked, Now, p)
  <2>1. Owner(Now, p) = DESKWH
    BY <1>2, NowIs DEF Owner
  <2>2. shown[p] = Background(p)
    BY <1>1
  <2> QED
    BY <2>1, <2>2, DueDesk DEF Fine
<1> QED
  BY <1>2, <1>3, <1>4, <1>5 DEF Seen

(* ScreenRight of the model: after every call of the window manager, every *)
(* dialogue and every redraw each pixel of the screen shows what its owner *)
(* has to show there, or is in the work area of a window whose owner has   *)
(* been asked to draw it: draw_change(), w_move() and w_update() leave     *)
(* nothing of a window where it no longer is. For any number of windows,   *)
(* places, dialogues and any size of the screen; programs draw what they   *)
(* have been asked to before they move a window (Prompt) and give it no    *)
(* place before they open it (Early); DROP_SHADOW_SIZE is 2, and without a *)
(* shadow w_move() leaves a column stale behind a window that moves to -1. *)
THEOREM ScreenStaysRight ==
  ASSUME Early = FALSE, Prompt = TRUE, Shadow > 0
  PROVE  Spec => []ScreenRight
<1>1. Init => Seen
  BY InitSeen
<1>2. Inv /\ Inv' /\ Seen /\ [Next]_vars => Seen'
  <2> SUFFICES ASSUME Inv, Inv', Seen, [Next]_vars
               PROVE  Seen'
    OBVIOUS
  <2>1. CASE UNCHANGED vars
    <3>1. order' = order /\ curr' = curr /\ lists' = lists /\ gl_wtop' = gl_wtop
          /\ shown' = shown /\ asked' = asked
      BY <2>1 DEF vars
    <3> QED
      BY <3>1, SameTree DEF Seen
  <2>2. ASSUME NEW h \in Windows, wm_create(h)
        PROVE  Seen'
    BY <2>2, CreateSeen
  <2>3. ASSUME NEW h \in Windows, wm_delete(h)
        PROVE  Seen'
    BY <2>3, DeleteSeen
  <2>4. ASSUME NEW h \in Windows, redraw(h)
        PROVE  Seen'
    BY <2>4, RedrawSeen
  <2>5. ASSUME NEW h \in Windows,
               \/ wm_close(h) \/ wm_mktop(h)
               \/ \E pt \in Places[h] : wm_open(h, pt) \/ wm_set_size(h, pt)
        PROVE  Seen'
    BY <2>5, DrawSeen
  <2>6. ASSUME NEW r \in Dialogs, fm_dial(r)
        PROVE  Seen'
    BY <2>6, DialSeen
  <2> QED
    BY <2>1, <2>2, <2>3, <2>4, <2>5, <2>6 DEF Next
<1>3. Seen => ScreenRight
  BY NowIs DEF Seen, ScreenRight, Fine
<1> QED
  BY <1>1, <1>2, <1>3, Always, PTL DEF Spec
=============================================================================
