---------------------------- MODULE MCWindowRects ----------------------------
EXTENDS WindowRects

(* Two windows. The first one hangs off the screen on the left, moves onto *)
(* it, grows and shrinks; the second one hangs off at the right and at the *)
(* bottom, moves and grows.                                                *)
MCPlaces ==
  <<{Rect(-1, 1, 4, 3), Rect(0, 1, 4, 3), Rect(0, 1, 3, 4), Rect(0, 1, 3, 3)},
    {Rect(2, 2, 3, 3), Rect(1, 1, 3, 3), Rect(2, 2, 4, 3)}>>
MCDialogs == {Rect(1, 2, 2, 2)}

(* All the windows that AES versions above 3.20 have: eight wide ones one  *)
(* above the other and then seven tall ones across them.                   *)
CrossedPlaces ==
  [h \in Windows |-> IF h <= 8 THEN {Rect(1, 5 * h - 2, 37, 2)}
                     ELSE {Rect(5 * h - 42, 2, 2, 39)}]

(* All the windows that the other versions have, the desktop and seven: the *)
(* first two are rows of a grid of lines that are one pixel wide and one    *)
(* pixel apart, each of the others a row or a column of it.                 *)
StripedPlaces ==
  LET row(h) == Rect(1, 2 * h + 1, 2 * NUM_WIN - 1, 1)
      column(h) == Rect(2 * h, 2, 1, 2 * NUM_WIN - 1)
  IN [h \in Windows |-> IF h <= 2 THEN {row(h)} ELSE {row(h), column(h)}]

(* Windows are opened in the order of their handles; the top one may be    *)
(* closed again, and each may be moved to another of its places.           *)
InOrder ==
  /\ order = [i \in 1 .. Len(order) |-> i]
  /\ Cardinality(created) <= Len(order) + 1
InOrderSpec == Init /\ [][Next /\ InOrder']_vars
=============================================================================
