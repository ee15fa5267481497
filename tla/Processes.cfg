SPECIFICATION MCSpec
CONSTANTS
  MaxLines = 4
  MaxShown = 6
  SEMAEM = 3
  LETTERS = 3
  Clients = {c1, c2}
  Runs = {r1, r2, r3}
  Creators = {r1, r2}
  WORDS = 2
  Senders = {s1, s2}
  Receivers = {q1, q2}
  QBYTES = 2
  MaxTyped = 2
  EchoClients = {e1, e2}
  MaxEchoes = 3
  Texts = {t1, t2, t3}
  Silent = {t3}
  READBUFF = 2
  OPEN_MAX = 1
INVARIANTS ProcessesTypeOK NeverBothWait KeepsUp RemovedAtTheEnd WordsWhole MessagesInOrder EchoesInOrder ExpectedArrives
PROPERTY ProcessesEnd
CHECK_DEADLOCK FALSE
