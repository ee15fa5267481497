------------------------------ MODULE AtomicSale ------------------------------
(***************************************************************************)
(* What the ticket server promises to its clients: a request is decided in *)
(* one step, from the seats left at that moment, and its answer says what  *)
(* was decided.  The detailed specification is TicketSale.                 *)
(***************************************************************************)
EXTENDS Integers, Sequences

CONSTANTS Threads,       \* service threads, one per connection
          FLIGHT_NUM,    \* flights are numbered 1 .. FLIGHT_NUM
          INIT_TICKETS,  \* seats of each flight when the server starts
          Requests       \* what clients may send: [type, flight, num]

VARIABLES seats,      \* seats left per flight
          pending,    \* the request being served by each thread, or None
          decision,   \* its answer once decided, or Undecided
          delivered   \* the answer each thread sent to its last request

vars == <<seats, pending, decision, delivered>>

Flights == 1 .. FLIGHT_NUM

Record(type, flight, num) == [type |-> type, flight |-> flight, num |-> num]
None == Record("NONE", 0, 0)
Undecided == << >>     \* every answer has at least one record

Granted(r, s) == r.type = "BUY_TICKET" /\ r.flight \in Flights /\ r.num <= s[r.flight]

(* A request for a flight that does not exist is ignored.                   *)
Answered(r) == r.type \in {"BUY_TICKET", "INQUIRE_ONE"} => r.flight \in Flights

Answer(r, s) ==
  CASE r.type = "BUY_TICKET" ->
         IF Granted(r, s) THEN <<Record("BUY_SUCCEED", r.flight, r.num)>>
                          ELSE <<Record("BUY_FAILED", r.flight, s[r.flight])>>
    [] r.type = "INQUIRE_ONE" -> <<Record("INQUIRE_SUCCEED", r.flight, s[r.flight])>>
    [] r.type = "INQUIRE_ALL" -> [f \in Flights |-> Record("INQUIRE_SUCCEED", f, s[f])]
    [] OTHER -> <<Record("UNKNOWN_CODE", r.flight, r.num)>>

Init ==
  /\ seats = [f \in Flights |-> INIT_TICKETS]
  /\ pending = [t \in Threads |-> None]
  /\ decision = [t \in Threads |-> Undecided]
  /\ delivered = [t \in Threads |-> << >>]

Receive(t) ==
  /\ pending[t] = None
  /\ \E r \in Requests : pending' = [pending EXCEPT ![t] = r]
  /\ delivered' = [delivered EXCEPT ![t] = << >>]
  /\ UNCHANGED <<seats, decision>>

Decide(t) ==
  /\ pending[t] # None
  /\ decision[t] = Undecided
  /\ LET r == pending[t] IN
       /\ Answered(r)
       /\ decision' = [decision EXCEPT ![t] = Answer(r, seats)]
       /\ seats' = IF Granted(r, seats) THEN [seats EXCEPT ![r.flight] = @ - r.num]
                                        ELSE seats
  /\ UNCHANGED <<pending, delivered>>

Deliver(t) ==
  /\ decision[t] # Undecided
  /\ delivered' = [delivered EXCEPT ![t] = decision[t]]
  /\ pending' = [pending EXCEPT ![t] = None]
  /\ decision' = [decision EXCEPT ![t] = Undecided]
  /\ UNCHANGED seats

Ignore(t) ==
  /\ pending[t] # None
  /\ ~Answered(pending[t])
  /\ pending' = [pending EXCEPT ![t] = None]
  /\ UNCHANGED <<seats, decision, delivered>>

(* The connection ends; what was decided stays decided, unanswered.         *)
HangUp(t) ==
  /\ pending' = [pending EXCEPT ![t] = None]
  /\ decision' = [decision EXCEPT ![t] = Undecided]
  /\ delivered' = [delivered EXCEPT ![t] = << >>]
  /\ UNCHANGED seats

(* The server is opened again, with all seats.                              *)
Reopen ==
  /\ \A t \in Threads : pending[t] = None
  /\ seats' = [f \in Flights |-> INIT_TICKETS]
  /\ UNCHANGED <<pending, decision, delivered>>

Next ==
  \/ \E t \in Threads : Receive(t) \/ Decide(t) \/ Deliver(t) \/ Ignore(t) \/ HangUp(t)
  \/ Reopen

Spec == Init /\ [][Next]_vars
===============================================================================
