----------------------------- MODULE MCAESQueue -----------------------------
(* Model checking of AESQueue on small instances. *)
EXTENDS AESQueue, TLC

(* Redraws of two windows, an arrow and a message that merges with nothing. *)
SomeMessages ==
  {[kind |-> "WM_REDRAW", wh |-> 1, area |-> {a}] : a \in Areas}
    \cup {[kind |-> "WM_REDRAW", wh |-> 2, area |-> Areas],
          [kind |-> "WM_ARROWED", wh |-> 1, area |-> {}],
          [kind |-> "AC_CLOSE", wh |-> 1, area |-> {}]}

(* The pipe tells its senders apart only by where they wait. *)
SenderSymmetry == Permutations(Procs \ {owner})
=============================================================================
