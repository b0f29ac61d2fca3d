SPECIFICATION Spec
CONSTANTS
    shell = shell
    program = program
    o1 = o1
    o2 = o2
    o3 = o3
    autoexec = autoexec
    output = output
    None = None
    PDs = {shell, program}
    Shell = shell
    NUMSTD = 1
    OPNFILES = 2
    Ofds = {o1, o2, o3}
    Slots <- MCSlots
    Names = {autoexec, output}
    MaxClock = 3
    MaxUse = 3
INVARIANTS TypeOK HandlesLive EntryFollowsDfd
SYMMETRY MCSymmetry
