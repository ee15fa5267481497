SPECIFICATION FairSpec
CONSTANTS
  t1 = t1
  t2 = t2
  t3 = t3
  c1 = c1
  c2 = c2
  c3 = c3
  home = home
  away = away
  Tids <- TwoTids
  Conns <- ThreeConns
  Addr <- AddrOf
  THREAD_BUFF_NUM = 1
  INFO_NUM = 1
  MaxStarts = 1
  MaxConns = 2
PROPERTIES ServedOrRefused StopCompletes
CHECK_DEADLOCK FALSE
