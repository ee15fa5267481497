SPECIFICATION MCSpec
CONSTANTS
  BUFFER_SIZE = 4
  ITEMS = 10
  HANDED = 10
  NUM_THREADS = 4
  Writers = {w1, w2}
  INFO_NUM = 2
  FLIGHT_NUM = 2
INVARIANTS ThreadsTypeOK SleepersHaveReason CountsMatch OnlyLastUnread FoundOnce
PROPERTIES ImplementsFifo FirstDecides ThreadsEnd
CHECK_DEADLOCK FALSE
