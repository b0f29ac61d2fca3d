---------------------------- MODULE MCOpenFiles ----------------------------
(* Model values for TLC: a shell and a program it starts.                  *)
EXTENDS OpenFiles, TLC

CONSTANTS shell, program, o1, o2, o3, autoexec, output

MCSlots == 1 .. 2
MCSymmetry == Permutations({o1, o2, o3}) \cup Permutations({autoexec, output})
=============================================================================
