\* Every input of up to 7 lines, both policies.
SPECIFICATION Spec
CONSTANTS
  PAGES = 4
  FRAME = 3
  TLB_SIZE = 2
  Referenced <- AllPages
  MaxLines = 7
  MaxStep = 1
INVARIANTS TypeOK TLBCoherent ColdFaultsOnly LastFrameIdle
PROPERTIES InTurn TakesNewest
\* The input ends.
CHECK_DEADLOCK FALSE
