----------------------------- MODULE MCTicketSale -----------------------------
(* Instances of TicketSale for TLC: two threads, two flights of two seats,  *)
(* and one request of each kind that the switch tells apart.                *)
EXTENDS TicketSale

CONSTANTS t1, t2

TwoThreads == {t1, t2}

Buys == {Record("BUY_TICKET", f, n) : f \in Flights, n \in 1 .. 3}

AllRequests ==
  Buys \cup {Record("BUY_TICKET", FLIGHT_NUM + 1, 1),
             Record("INQUIRE_ONE", 2, 0), Record("INQUIRE_ALL", 0, 0),
             Record("UNKNOWN", 0, 0), Record("DISCONNECT", 0, 0)}
===============================================================================
