\* Sellers outnumber the stock, on both platforms.

SPECIFICATION FairSpec
CONSTANTS
  s1 = s1
  s2 = s2
  s3 = s3
  Sellers <- ThreeSellers
  total_stock = 2
  Platforms <- Both
INVARIANTS TypeOK NoneInvented
PROPERTIES SalesAreAtomic Termination
CHECK_DEADLOCK FALSE
