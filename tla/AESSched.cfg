SPECIFICATION Spec
CONSTANTS
  NoProc = NoProc
  Procs = {p1, p2, p3}
  Direct = {p1}
  Quitters = {}
  Multi = {{"KEYBD", "BUTTON"}}
  Block = {}
  KBD_SIZE = 1
  NFORKS = 1
  MaxNest = 2
SYMMETRY ProcSymmetry
INVARIANTS TypeOK OneList NoLostWakeup NoEventLeak MutualExclusion LockHandedOn
PROPERTY ScreenLockSpec
