\* Do the numbers add up on Linux?

SPECIFICATION Spec
CONSTANTS
  s1 = s1
  s2 = s2
  s3 = s3
  Sellers <- ThreeSellers
  total_stock = 2
  Platforms <- LinuxOnly
INVARIANT AllDone
CHECK_DEADLOCK FALSE
