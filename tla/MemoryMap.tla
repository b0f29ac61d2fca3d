----------------------------- MODULE MemoryMap -----------------------------
(***************************************************************************)
(* What GEMDOS promises about memory, without lists and descriptors: every *)
(* address of the partitions is free, or belongs to a program, or is kept  *)
(* for good by a resident one. A program is known by its basepage, and the *)
(* programs are a stack: each waits for the one that it has started.       *)
(***************************************************************************)
EXTENDS Integers, Sequences

CONSTANTS Memory0,  (* the addresses there are at boot                     *)
          System    (* the program that is there at boot                   *)

VARIABLES owner,    (* the owner of each address                           *)
          stack     (* the basepages, that of the running program first    *)

Free == 0
Kept == -1

Run == Head(stack)

(* A program started by Pexec(PE_GO) lives in memory of the one that       *)
(* started it, and may give some of that back too.                         *)
Mine == {Run} \cup (IF Run \in DOMAIN owner THEN {owner[Run]} ELSE {})

Changed ==
  LET before == owner
      after == owner'
  IN  {a \in DOMAIN before : after[a] # before[a]}

Init == owner = [a \in Memory0 |-> Free] /\ stack = <<System>>

(* Memory is taken from what is free, by the program that runs. *)
Take ==
  /\ UNCHANGED stack /\ DOMAIN owner' = DOMAIN owner
  /\ \A a \in Changed : owner[a] = Free /\ owner'[a] = Run

(* It gives back what it has. *)
Give ==
  /\ UNCHANGED stack /\ DOMAIN owner' = DOMAIN owner
  /\ \A a \in Changed : owner[a] \in Mine /\ owner'[a] = Free

(* It starts a program, which gets free memory or that of its starter.     *)
Exec ==
  /\ stack' # <<>> /\ Tail(stack') = stack
  /\ DOMAIN owner' = DOMAIN owner
  /\ Run' \in DOMAIN owner /\ owner'[Run'] \in {Run, Run'}
  /\ \A a \in Changed : owner[a] \in {Free, Run} /\ owner'[a] = Run'

(* It ends: nothing stays its own; all that was becomes free or is kept,   *)
(* but of the memory lent to it nothing is.                                *)
Quit ==
  /\ Len(stack) > 1 /\ stack' = Tail(stack)
  /\ DOMAIN owner' = DOMAIN owner
  /\ \A a \in Changed : \/ owner[a] = Run /\ owner'[a] \in {Free, Kept}
                        \/ owner[a] \in Mine /\ owner'[a] = Free
  /\ {a \in DOMAIN owner : owner[a] = Run} \subseteq Changed

(* Memory is found. *)
Add ==
  /\ UNCHANGED stack /\ DOMAIN owner # DOMAIN owner'
  /\ DOMAIN owner \subseteq DOMAIN owner'
  /\ \A a \in DOMAIN owner' :
       owner'[a] = IF a \in DOMAIN owner THEN owner[a] ELSE Free

Next == Take \/ Give \/ Exec \/ Quit \/ Add

Spec == Init /\ [][Next]_<<owner, stack>>
=============================================================================
