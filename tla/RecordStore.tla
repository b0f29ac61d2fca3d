---------------------------- MODULE RecordStore ----------------------------
(***************************************************************************)
(* What GEMDOS' buffers promise: every record of every medium has one      *)
(* content for the file system. A write changes it at once; it becomes     *)
(* stable some time later, by itself; and what is not stable yet is lost   *)
(* for one medium as a whole, when its drive reports an error or a change. *)
(* There are no buffers here, and no media in drives.                      *)
(***************************************************************************)
EXTENDS Naturals

CONSTANTS Media, Records

VARIABLES
  content, (* content[m][r]: what the file system has for record r of m    *)
  stable,  (* stable[m][r]: what is on the medium                          *)
  clock    (* number of the last write                                     *)

vars == <<content, stable, clock>>

Init ==
  /\ content = [m \in Media |-> [r \in Records |-> 0]]
  /\ stable = content
  /\ clock = 0

Overwrite(store, m, R, v) ==
  [store EXCEPT ![m] = [r \in Records |-> IF r \in R THEN v ELSE @[r]]]

(* A write into a buffer: of one record.                                   *)
Write(m, r) ==
  /\ clock' = clock + 1
  /\ content' = Overwrite(content, m, {r}, clock')
  /\ UNCHANGED stable

(* A write past the buffers: of any number of records, and stable at once. *)
Store(m, R) ==
  /\ clock' = clock + 1
  /\ content' = Overwrite(content, m, R, clock')
  /\ stable' = Overwrite(stable, m, R, clock')

Settle(m, r) ==
  /\ stable' = [stable EXCEPT ![m][r] = content[m][r]]
  /\ UNCHANGED <<content, clock>>

Revert(m) ==
  /\ content' = [content EXCEPT ![m] = stable[m]]
  /\ UNCHANGED <<stable, clock>>

Next ==
  \E m \in Media :
    \/ Revert(m)
    \/ \E r \in Records : Write(m, r) \/ Settle(m, r)
    \/ \E R \in SUBSET Records : Store(m, R)

Spec == Init /\ [][Next]_vars
=============================================================================
