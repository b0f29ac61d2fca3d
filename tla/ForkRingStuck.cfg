SPECIFICATION Spec
CONSTANTS
  NFORKS = 4
  DClick = 1
  MaxClicks = 1
INVARIANT ButtonNotStuck
