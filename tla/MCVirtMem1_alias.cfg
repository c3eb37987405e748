\* The same with a page that an unsigned char cannot hold.
SPECIFICATION Spec
CONSTANTS
  PAGES = 6
  TLB_SIZE = 2
  UCHAR = 4
  Referenced <- LargePages
  MaxLines = 10
INVARIANT ReadsRight
CHECK_DEADLOCK FALSE
