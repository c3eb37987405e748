\* Every input of up to 10 lines that refers to pages below UCHAR.
SPECIFICATION Spec
CONSTANTS
  PAGES = 6
  TLB_SIZE = 2
  UCHAR = 4
  Referenced <- SmallPages
  MaxLines = 10
INVARIANTS TypeOK ReadsRight TLBCoherent
PROPERTY PagingSpec
\* The input ends.
CHECK_DEADLOCK FALSE
