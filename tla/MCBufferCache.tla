--------------------------- MODULE MCBufferCache ---------------------------
(* A floppy drive A with two disks and a hard disk C; two buffers in each  *)
(* list, as in the code.                                                   *)
EXTENDS BufferCache, TLC

CONSTANTS A, C, disk1, disk2, hard, fat1, fat2, data1, data2

MCDriveOf == (disk1 :> A) @@ (disk2 :> A) @@ (hard :> C)
MCListOf == (fat1 :> BI_FAT) @@ (fat2 :> BI_FAT) @@ (data1 :> BI_DATA) @@ (data2 :> BI_DATA)
FatRecord == [b_buftyp |-> BT_FAT, b_bufrec |-> 0]
RootRecord == [b_buftyp |-> BT_ROOT, b_bufrec |-> 1]
DataRecord(n) == [b_buftyp |-> BT_DATA, b_bufrec |-> n]
MCRecords == {FatRecord, RootRecord, DataRecord(1), DataRecord(2)}
MCUsed == (A :> {FatRecord, RootRecord, DataRecord(1)}) @@ (C :> {DataRecord(2)})

MCSymmetry == Permutations({disk1, disk2}) \cup Permutations({fat1, fat2})
              \cup Permutations({data1, data2})
=============================================================================
