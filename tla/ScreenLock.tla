----------------------------- MODULE ScreenLock -----------------------------
(***************************************************************************)
(* What wm_update() promises, whatever the dispatcher does: a nested lock  *)
(* on the window tree. A process asks for it and waits, or has it at once; *)
(* it has it for itself until it has given it back as often as it took it. *)
(* Who of those that asked is next is left open.                           *)
(***************************************************************************)
EXTENDS Naturals

CONSTANT Procs

VARIABLES
  asking, (* the processes waiting in wm_update(BEG_UPDATE)                *)
  inside  (* calls of wm_update(BEG_UPDATE) a process has not matched yet  *)

vars == <<asking, inside>>

Free(p) == \A q \in Procs \ {p} : inside[q] = 0

Init == asking = {} /\ inside = [p \in Procs |-> 0]

Ask(p) ==
  /\ p \notin asking /\ inside[p] = 0
  /\ asking' = asking \cup {p}
  /\ UNCHANGED inside

(* The semaphore is had at once, the first time or nested, or at last. *)
Take(p) ==
  /\ Free(p)
  /\ p \in asking => inside[p] = 0
  /\ asking' = asking \ {p}
  /\ inside' = [inside EXCEPT ![p] = @ + 1]

Give(p) ==
  /\ p \notin asking /\ inside[p] > 0
  /\ inside' = [inside EXCEPT ![p] = @ - 1]
  /\ UNCHANGED asking

Next == \E p \in Procs : Ask(p) \/ Take(p) \/ Give(p)

Spec == Init /\ [][Next]_vars
=============================================================================
