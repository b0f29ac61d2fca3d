SPECIFICATION FairSpec
CONSTANTS
  Evbs = {e1, e2, e3}
  MaxDelay = 2
  MaxNum = 1
  NFORKS = 2
INVARIANTS TypeOK ListExact WakeUpArmed
PROPERTY WaitEnds
