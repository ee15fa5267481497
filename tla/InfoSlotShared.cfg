SPECIFICATION Spec
CONSTANTS
  w1 = w1
  w2 = w2
  w3 = w3
  Writers <- TwoWriters
  INFO_NUM = 2
  MaxLines = 2
INVARIANT DistributedIsFree
