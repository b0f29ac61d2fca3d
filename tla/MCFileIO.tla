------------------------------- MODULE MCFileIO -------------------------------
(* Model values for TLC: two files, one of them open twice.                  *)
EXTENDS FileIO, TLC

CONSTANTS a, b, c, f, g

MCFileOf == (a :> f) @@ (b :> f) @@ (c :> g)

\* a and b are open on the same file and alike.
MCSymmetry == Permutations({a, b})
===============================================================================
