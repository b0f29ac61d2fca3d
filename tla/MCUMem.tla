------------------------------- MODULE MCUMem -------------------------------
EXTENDS UMem

(* A board whose size is no multiple of 4. *)
OneBoard == {[start |-> 20, size |-> 6]}

(* Two boards with a hole between them, as TT-RAM and another may be. *)
TwoBoards == {[start |-> 20, size |-> 12], [start |-> 36, size |-> 4]}
=============================================================================
