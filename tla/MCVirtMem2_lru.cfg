\* Does policy 1 replace the frame used least recently?
SPECIFICATION Spec
CONSTANTS
  PAGES = 4
  FRAME = 3
  TLB_SIZE = 2
  Referenced <- AllPages
  MaxLines = 7
  MaxStep = 1
PROPERTY LeastRecentlyUsed
CHECK_DEADLOCK FALSE
