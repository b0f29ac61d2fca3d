------------------------------- MODULE ByteFile -------------------------------
(*****************************************************************************)
(* What Fread(), Fwrite() and Fseek() promise: files are sequences of bytes  *)
(* on a drive with so many blocks, a handle has a position in its file, and  *)
(* a write is cut short only when it has filled the drive.                   *)
(*****************************************************************************)
EXTENDS Integers, FiniteSetsExt

CONSTANTS Files, Handles, FileOf, Capacity, Block, MaxMove

VARIABLES length, position

Blocks(n) == (n + Block - 1) \div Block
Used(len) == FoldSet(LAMBDA f, sum : sum + Blocks(len[f]), 0, Files)
Larger(m, n) == IF m > n THEN m ELSE n
Smaller(m, n) == IF m < n THEN m ELSE n

Read(h, n) ==
    /\ position' = [position EXCEPT ![h] = Smaller(@ + n, length[FileOf[h]])]
    /\ UNCHANGED length

\* k bytes of the n asked for are written; less than n when the drive is full
\* and the file's last block too.
Write(h, n) ==
    \E k \in 0 .. n :
        /\ position' = [position EXCEPT ![h] = @ + k]
        /\ length' = [length EXCEPT ![FileOf[h]] = Larger(@, position[h] + k)]
        /\ Used(length') <= Capacity
        /\ k < n => Used(length') = Capacity

Seek(h, n) ==
    /\ n \in 0 .. length[FileOf[h]]
    /\ position' = [position EXCEPT ![h] = n]
    /\ UNCHANGED length

Recreate(f) ==
    /\ length' = [length EXCEPT ![f] = 0]
    /\ position' = [h \in Handles |-> IF FileOf[h] = f THEN 0 ELSE position[h]]

Init == /\ length = [f \in Files |-> 0]
        /\ position = [h \in Handles |-> 0]

Next ==
    \/ \E h \in Handles, n \in 1 .. MaxMove : Read(h, n) \/ Write(h, n)
    \/ \E h \in Handles, n \in 0 .. Capacity * Block : Seek(h, n)
    \/ \E f \in Files : Recreate(f)

Spec == Init /\ [][Next]_<<length, position>>
===============================================================================
