----------------------------- MODULE MCAESSched -----------------------------
(* Model checking of AESSched on small instances. *)
EXTENDS AESSched, TLC

(* The kernel tells its processes apart by their state, and by who they are *)
(* (the constants Direct and Quitters) only.                               *)
ProcSymmetry == Permutations(Procs \ Direct)
=============================================================================
