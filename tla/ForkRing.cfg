SPECIFICATION Spec
CONSTANTS
  NFORKS = 3
  DClick = 1
  MaxClicks = 2
INVARIANTS TypeOK NotStuckDown
PROPERTY RingIsQueue
