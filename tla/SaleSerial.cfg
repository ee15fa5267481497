SPECIFICATION FairSpec
CONSTANTS
  t1 = t1
  t2 = t2
  Threads <- TwoThreads
  FLIGHT_NUM = 2
  INIT_TICKETS = 2
  Word = 8
  Requests <- AllRequests
  Overlap = FALSE
INVARIANTS TypeOK NeverOversold AnswerTellsSale
PROPERTIES RequestsEnd ImplementsAtomicSale
