-------------------------- MODULE MCServerLifecycle --------------------------
(* Instances of ServerLifecycle for TLC: two connections from one address,  *)
(* so that the second one finds the first one's thread, and one from        *)
(* another address.  With one slot that one is also refused.                *)
EXTENDS ServerLifecycle, TLC

CONSTANTS t1, t2, t3, c1, c2, c3, home, away

TwoTids == {t1, t2}
ThreeTids == {t1, t2, t3}
TwoConns == {c1, c2}
ThreeConns == {c1, c2, c3}
(* Handles, and connections of one address, are alike. *)
Alike == Permutations(Tids) \cup Permutations({c1, c2})
AddrOf == [c \in Conns |-> IF c = c3 THEN away ELSE home]
===============================================================================
