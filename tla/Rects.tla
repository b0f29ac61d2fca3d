-------------------------------- MODULE Rects --------------------------------
(***************************************************************************)
(* Rectangles of the AES: util/rectfunc.c, and the part of aes/gemwrect.c  *)
(* that breaks up a rectangle with another one laid over it. Coordinates   *)
(* are far from the ends of a WORD.                                        *)
(***************************************************************************)
EXTENDS Integers, Sequences

GRECT == [x : Int, y : Int, w : Int, h : Int]
Rect(x, y, w, h) == [x |-> x, y |-> y, w |-> w, h |-> h]
gl_rzero == Rect(0, 0, 0, 0)

Larger(a, b) == IF a > b THEN a ELSE b
Smaller(a, b) == IF a < b THEN a ELSE b

inside(p, r) ==
  /\ p[1] >= r.x /\ p[1] < r.x + r.w
  /\ p[2] >= r.y /\ p[2] < r.y + r.h

HasSize(r) == r.w # 0 /\ r.h # 0

Grow(r, n) == [r EXCEPT !.w = @ + n, !.h = @ + n]

rc_intersect(a, b) ==
  LET tx == Larger(a.x, b.x)
      ty == Larger(a.y, b.y)
  IN Rect(tx, ty, Smaller(a.x + a.w, b.x + b.w) - tx,
                  Smaller(a.y + a.h, b.y + b.h) - ty)

\* What rc_intersect() returns.
Meets(a, b) ==
  LET both == rc_intersect(a, b) IN both.w > 0 /\ both.h > 0

rc_union(a, b) ==
  LET tx == Smaller(a.x, b.x)
      ty == Smaller(a.y, b.y)
  IN Rect(tx, ty, Larger(a.x + a.w, b.x + b.w) - tx,
                  Larger(a.y + a.h, b.y + b.h) - ty)

(* ------------------- breaking r up with new over it -------------------- *)
Sides == {"TOP", "LEFT", "RIGHT", "BOTTOM"}

Overlap(new, r) ==
  /\ new.x < r.x + r.w /\ new.x + new.w > r.x
  /\ new.y < r.y + r.h /\ new.y + new.h > r.y

have_piece(side, new, r) ==
  \/ side = "TOP" /\ new.y > r.y
  \/ side = "LEFT" /\ new.x > r.x
  \/ side = "RIGHT" /\ new.x + new.w < r.x + r.w
  \/ side = "BOTTOM" /\ new.y + new.h < r.y + r.h

\* Mutant of mkpiece: no common calculation of the height.
mkpieceTall(side, new, old) ==
  LET right == new.x + new.w
      bottom == new.y + new.h
  IN CASE side = "TOP" -> [old EXCEPT !.h = new.y - old.y]
       [] side = "BOTTOM" -> [old EXCEPT !.y = bottom, !.h = old.y + old.h - bottom]
       [] side = "LEFT" -> [old EXCEPT !.w = new.x - old.x]
       [] side = "RIGHT" -> [old EXCEPT !.x = right, !.w = old.x + old.w - right]

\* The top and the bottom piece are as wide as old; the left and the right
\* one only as high as the overlap.
mkpiece(side, new, old) ==
  LET y == Larger(old.y, new.y)
      h == Smaller(old.y + old.h, new.y + new.h) - y
      right == new.x + new.w
      bottom == new.y + new.h
  IN CASE side = "TOP" -> [old EXCEPT !.h = new.y - old.y]
       [] side = "BOTTOM" -> [old EXCEPT !.y = bottom, !.h = old.y + old.h - bottom]
       [] side = "LEFT" -> Rect(old.x, y, new.x - old.x, h)
       [] side = "RIGHT" -> Rect(right, y, old.x + old.w - right, h)

\* The pieces of r, in the order of the list.
brkrct(new, r) ==
  LET piece(side) == IF have_piece(side, new, r) THEN <<mkpiece(side, new, r)>> ELSE <<>>
  IN piece("TOP") \o piece("LEFT") \o piece("RIGHT") \o piece("BOTTOM")
=============================================================================
