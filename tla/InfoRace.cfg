SPECIFICATION FairSpec
CONSTANTS
  w1 = w1
  w2 = w2
  w3 = w3
  Writers <- TwoWriters
  INFO_NUM = 3
  MaxLines = 3
INVARIANTS TypeOK ShownOnce LossBounded NearlyInOrder
PROPERTY EverythingShown
