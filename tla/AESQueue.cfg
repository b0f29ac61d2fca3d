SPECIFICATION Spec
CONSTANTS
  owner = owner
  Procs = {owner, p1, p2}
  Slots = 3
  Handles = {1, 2}
  Areas = {"left", "right"}
  None = None
  Unlocked = {}
  Messages <- SomeMessages
SYMMETRY SenderSymmetry
INVARIANTS TypeOK NoStuckSender SleepsOnEmpty RedrawsKept
CHECK_DEADLOCK FALSE
