SPECIFICATION Spec
CONSTANTS
  t1 = t1
  t2 = t2
  t3 = t3
  c1 = c1
  c2 = c2
  c3 = c3
  home = home
  away = away
  Tids <- TwoTids
  Conns <- ThreeConns
  Addr <- AddrOf
  THREAD_BUFF_NUM = 2
  INFO_NUM = 1
  MaxStarts = 2
  MaxConns = 3
INVARIANTS TypeOK OneThreadPerAddress SlotFollowsThread QuietCloseEnds MutexLostToTwo HandlesOwn
CHECK_DEADLOCK FALSE
SYMMETRY Alike
