SPECIFICATION FileSpec
CONSTANTS
    f = f
    g = g
    a = a
    b = b
    c = c
    Files = {f, g}
    Ofds = {a, b, c}
    FileOf <- MCFileOf
    m_recsiz = 2
    m_clsiz = 2
    m_numcl = 3
    CNTMAX = 4
    MaxRequest = 12
INVARIANTS FileTypes ChainsFit TransfersRight
PROPERTY ByteFileSpec
SYMMETRY MCSymmetry
