SPECIFICATION Spec
CONSTANTS
    A = A
    C = C
    disk1 = disk1
    disk2 = disk2
    hard = hard
    fat1 = fat1
    fat2 = fat2
    data1 = data1
    data2 = data2
    None = None
    Drives = {A, C}
    Removable = {A}
    Media = {disk1, disk2, hard}
    DriveOf <- MCDriveOf
    Single = {hard}
    Records <- MCRecords
    Used <- MCUsed
    Buffers = {fat1, fat2, data1, data2}
    ListOf <- MCListOf
    MaxWrites = 2
INVARIANTS TypeOK Coherent
PROPERTIES RecordStoreSpec ClosedIsStored
SYMMETRY MCSymmetry
