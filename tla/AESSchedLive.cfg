SPECIFICATION FairSpec
CONSTANTS
  NoProc = NoProc
  Procs = {p1, p2}
  Direct = {}
  Quitters = {p1}
  Multi = {{"KEYBD", "TIMER"}}
  Block = {"TIMER"}
  KBD_SIZE = 1
  NFORKS = 1
  MaxNest = 1
PROPERTY EventDelivered
