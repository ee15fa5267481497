------------------------------ MODULE TicketSale ------------------------------
(***************************************************************************)
(* The request loop of the service threads (service_thread of              *)
(* gnome_ticket_buy/servicethread.h) and the ticket list they share.       *)
(*                                                                         *)
(* Every service thread copies what it received into the one global        *)
(* variable `message' and works on it there, without a lock, until the     *)
(* answer is copied out.  A step below is one access to `message' or to a  *)
(* ticket (they are 4-byte words, and memcpy moves the 16-byte record as   *)
(* two 8-byte halves: type and flight_ID, then ticket_num and the price),  *)
(* together with the thread-local work around it.  Steps inside a section  *)
(* of ticket_mutex stay separate, because `message' is not protected by    *)
(* it.  The price is left out: it is written and copied with ticket_num.   *)
(***************************************************************************)
EXTENDS Integers, Sequences

CONSTANTS Threads,        \* service threads
          FLIGHT_NUM,     \* number of flights (10 in the code)
          INIT_TICKETS,   \* ticket_num of init_ticket_list (100 in the code)
          Word,           \* 2^w, the range of unsigned int (2^32 in the code)
          Requests,       \* the records clients send
          Overlap         \* may a request arrive while another is being served?

ASSUME SaleAssumption ==
  /\ FLIGHT_NUM \in Nat \ {0}
  /\ Word \in Nat \ {0}
  /\ INIT_TICKETS \in 0 .. Word - 1
  /\ Overlap \in BOOLEAN
  /\ Requests \subseteq [type : {"DISCONNECT", "BUY_TICKET", "INQUIRE_ONE",
                                 "INQUIRE_ALL", "UNKNOWN"},
                         flight : 0 .. Word - 1, num : 0 .. Word - 1]

VARIABLES
  tickets,      \* ticket_list[i].ticket_num
  mutex,        \* ticket_list[i].ticket_mutex: its holder, or NoThread
  message,      \* the global record all service threads work on
  pc,           \* where each thread stands in service_thread
  frame,        \* the locals of each thread while it serves a request
  delivered     \* the answer each thread sent to its last request

vars == <<tickets, mutex, message, pc, frame, delivered>>

Flights == 1 .. FLIGHT_NUM
NoThread == "nobody"
Record(type, flight, num) == [type |-> type, flight |-> flight, num |-> num]
None == Record("NONE", 0, 0)
InitialMessage == Record("INITIAL_VALUE", 0, 0)
NothingSold == <<0, 0>>

(* recvBuf: the request; case: the label of the switch; i: the flight of    *)
(* the loops; head: the first half copied to send_buf; sendBuf: its whole   *)
(* records; sold: the seats taken from the list (not in the code).  Nothing *)
(* reads them between two requests.                                         *)
Frame(r) == [recvBuf |-> r, case |-> "NONE", i |-> 1, head |-> None,
             sendBuf |-> << >>, sold |-> NothingSold]
NoFrame == Frame(None)

Idle(t) == pc[t] \in {"closed", "recv"}

Init ==
  /\ tickets = [f \in Flights |-> INIT_TICKETS]
  /\ mutex = [f \in Flights |-> NoThread]
  /\ message = Record("DISCONNECT", 0, 0)       \* zero-initialised global
  /\ pc = [t \in Threads |-> "closed"]
  /\ frame = [t \in Threads |-> NoFrame]
  /\ delivered = [t \in Threads |-> << >>]

Goto(t, from, to) ==
  /\ pc[t] = from
  /\ pc' = [pc EXCEPT ![t] = to]

(* The thread is done with its request: it answered, ignored it or ended.   *)
Leave(t, from, to, answer) ==
  /\ Goto(t, from, to)
  /\ frame' = [frame EXCEPT ![t] = NoFrame]
  /\ delivered' = [delivered EXCEPT ![t] = answer]

MutantForgotten(f) == UNCHANGED mutex

Lock(t, f) == mutex[f] = NoThread /\ mutex' = [mutex EXCEPT ![f] = t]
Unlock(f) == mutex' = [mutex EXCEPT ![f] = NoThread]

(* A step of thread t that only writes `message'.                           *)
WriteMessage(t, from, to, record) ==
  /\ Goto(t, from, to)
  /\ message' = record
  /\ UNCHANGED <<tickets, mutex, frame, delivered>>
-------------------------------------------------------------------------------
(* listen_thread starts a service thread for a new connection.              *)
Start(t) ==
  /\ Goto(t, "closed", "recv")
  /\ UNCHANGED <<tickets, mutex, message, frame, delivered>>

(* recv returns a record.                                                   *)
Receive(t) ==
  /\ Overlap \/ \A u \in Threads : Idle(u)
  /\ Goto(t, "recv", "init")
  /\ \E r \in Requests : frame' = [frame EXCEPT ![t] = Frame(r)]
  /\ delivered' = [delivered EXCEPT ![t] = << >>]
  /\ UNCHANGED <<tickets, mutex, message>>

InitMessage(t) == WriteMessage(t, "init", "copyHead", InitialMessage)

CopyHead(t) ==
  LET r == frame[t].recvBuf
  IN  WriteMessage(t, "copyHead", "copyNum", Record(r.type, r.flight, message.num))

CopyNum(t) ==
  WriteMessage(t, "copyNum", "switch", [message EXCEPT !.num = frame[t].recvBuf.num])

(* switch(message.msg_type): the type is read again from the global.        *)
Label ==
  CASE message.type \in {"BUY_TICKET", "INQUIRE_ONE"} -> "find"
    [] message.type = "INQUIRE_ALL" -> "allHead"
    [] OTHER -> "unknown"

Switch(t) ==
  /\ \/ /\ message.type = "DISCONNECT"
        /\ Leave(t, "switch", "closed", << >>)
     \/ /\ message.type # "DISCONNECT"
        /\ Goto(t, "switch", Label)
        /\ frame' = [frame EXCEPT ![t].case = message.type]
        /\ UNCHANGED delivered
  /\ UNCHANGED <<tickets, mutex, message>>
-------------------------------------------------------------------------------
(* The loops of BUY_TICKET and INQUIRE_ONE: lock the next flight, compare   *)
(* its number with message.flight_ID, and keep the lock when they agree...  *)
Find(t) ==
  /\ frame[t].i = message.flight
  /\ Goto(t, "find", IF frame[t].case = "BUY_TICKET" THEN "check" ELSE "oneType")
  /\ Lock(t, frame[t].i)
  /\ UNCHANGED <<tickets, message, frame, delivered>>

MutantLoopsPastEnd(t) ==
  /\ frame[t].i # message.flight
  /\ Goto(t, "find", "find")
  /\ frame' = [frame EXCEPT ![t].i = @ + 1]
  /\ UNCHANGED <<tickets, mutex, message, delivered>>

(* ... or release it and look at the next one; after the last flight the    *)
(* thread returns to recv without an answer.                                *)
Pass(t) ==
  /\ mutex[frame[t].i] = NoThread
  /\ frame[t].i # message.flight
  /\ \/ /\ frame[t].i < FLIGHT_NUM
        /\ Goto(t, "find", "find")
        /\ frame' = [frame EXCEPT ![t].i = @ + 1]
        /\ UNCHANGED delivered
     \/ /\ frame[t].i = FLIGHT_NUM
        /\ Leave(t, "find", "recv", << >>)
  /\ UNCHANGED <<tickets, mutex, message>>

MutantOneTooMany(t) == tickets[frame[t].i] + 1 >= message.num
MutantStrict(t) == tickets[frame[t].i] > message.num

Enough(t) == tickets[frame[t].i] >= message.num

Check(t) ==
  /\ Goto(t, "check", IF Enough(t) THEN "buyType" ELSE "failType")
  /\ UNCHANGED <<tickets, mutex, message, frame, delivered>>

BuyType(t) == WriteMessage(t, "buyType", "take", [message EXCEPT !.type = "BUY_SUCCEED"])

(* ticket_num -= message.ticket_num reads the global once more, in unsigned *)
(* arithmetic; then the flight is unlocked.                                 *)
Take(t) ==
  LET f == frame[t].i IN
  /\ Goto(t, "take", "outHead")
  /\ tickets' = [tickets EXCEPT ![f] = (@ - message.num) % Word]
  /\ frame' = [frame EXCEPT ![t].sold = <<f, message.num>>]
  /\ Unlock(f)
  /\ UNCHANGED <<message, delivered>>

MutantAnswersSuccess(t) ==
  WriteMessage(t, "failType", "stock", [message EXCEPT !.type = "BUY_SUCCEED"])

FailType(t) == WriteMessage(t, "failType", "stock", [message EXCEPT !.type = "BUY_FAILED"])

OneType(t) == WriteMessage(t, "oneType", "stock", [message EXCEPT !.type = "INQUIRE_SUCCEED"])

(* message.ticket_num = the stock of the flight, which is then unlocked.    *)
Stock(t) ==
  /\ Goto(t, "stock", "outHead")
  /\ message' = [message EXCEPT !.num = tickets[frame[t].i]]
  /\ Unlock(frame[t].i)
  /\ UNCHANGED <<tickets, frame, delivered>>

(* INQUIRE_ALL locks one flight after the other; the section writes the     *)
(* whole record, in the order of its fields.                                *)
AllHead(t) ==
  /\ Goto(t, "allHead", "stock")
  /\ Lock(t, frame[t].i)
  /\ message' = Record("INQUIRE_SUCCEED", frame[t].i, message.num)
  /\ UNCHANGED <<tickets, frame, delivered>>

Unknown(t) == WriteMessage(t, "unknown", "outHead", [message EXCEPT !.type = "UNKNOWN_CODE"])
-------------------------------------------------------------------------------
(* memcpy(send_buf, &message, ...), in two halves.                          *)
OutHead(t) ==
  /\ Goto(t, "outHead", "outNum")
  /\ frame' = [frame EXCEPT ![t].head = message]
  /\ UNCHANGED <<tickets, mutex, message, delivered>>

MoreFlights(t) == frame[t].case = "INQUIRE_ALL" /\ frame[t].i < FLIGHT_NUM

OutRecord(t) == Record(frame[t].head.type, frame[t].head.flight, message.num)

OutNum(t) ==
  /\ Goto(t, "outNum", IF MoreFlights(t) THEN "allHead" ELSE "send")
  /\ frame' = [frame EXCEPT ![t].sendBuf = Append(@, OutRecord(t)),
                            ![t].i = IF MoreFlights(t) THEN @ + 1 ELSE @]
  /\ UNCHANGED <<tickets, mutex, message, delivered>>

Send(t) ==
  /\ Leave(t, "send", "recv", frame[t].sendBuf)
  /\ UNCHANGED <<tickets, mutex, message>>

(* The thread ends: recv returned 0 or -1, send failed, or it was cancelled *)
(* at one of its cancellation points (recv, send, the sleep of add_info     *)
(* before an answer is copied out).  It holds no ticket_mutex there.        *)
End(t) ==
  /\ \E place \in {"recv", "outHead", "send"} : Leave(t, place, "closed", << >>)
  /\ UNCHANGED <<tickets, mutex, message>>

Serve(t) ==
  \/ InitMessage(t) \/ CopyHead(t) \/ CopyNum(t) \/ Switch(t)
  \/ Find(t) \/ Pass(t) \/ Check(t) \/ BuyType(t) \/ Take(t) \/ FailType(t)
  \/ OneType(t) \/ Stock(t) \/ AllHead(t) \/ Unknown(t)
  \/ OutHead(t) \/ OutNum(t) \/ Send(t)

(* startserver resets the stock (init_ticket_list); the threads of the last *)
(* session have ended (but see ClosedMeansEnded of ServerLifecycle).        *)
Reopen ==
  /\ \A t \in Threads : pc[t] = "closed"
  /\ tickets' = [f \in Flights |-> INIT_TICKETS]
  /\ UNCHANGED <<mutex, message, pc, frame, delivered>>

Next ==
  \/ \E t \in Threads : Start(t) \/ Receive(t) \/ Serve(t) \/ End(t)
  \/ Reopen

Spec == Init /\ [][Next]_vars

(* A runnable thread runs.  Nothing makes a client send.                    *)
FairSpec == Spec /\ \A t \in Threads : WF_vars(Serve(t))
-------------------------------------------------------------------------------
Places ==
  {"closed", "recv", "init", "copyHead", "copyNum", "switch", "find", "check",
   "buyType", "take", "failType", "oneType", "stock", "allHead", "unknown",
   "outHead", "outNum", "send"}

MessageType ==
  {"INITIAL_VALUE", "NONE", "DISCONNECT", "BUY_TICKET", "INQUIRE_ONE", "INQUIRE_ALL",
   "UNKNOWN", "BUY_SUCCEED", "BUY_FAILED", "INQUIRE_SUCCEED", "UNKNOWN_CODE"}

MessageSet == [type : MessageType, flight : Nat, num : 0 .. Word - 1]

FrameSet ==
  [recvBuf : MessageSet, case : MessageType, i : Flights, head : MessageSet,
   sendBuf : Seq(MessageSet), sold : Nat \X (0 .. Word - 1)]

TypeOK ==
  /\ tickets \in [Flights -> 0 .. Word - 1]
  /\ mutex \in [Flights -> Threads \cup {NoThread}]
  /\ message \in MessageSet
  /\ pc \in [Threads -> Places]
  /\ frame \in [Threads -> FrameSet]
  /\ delivered \in [Threads -> Seq(MessageSet)]

(* No flight ever has more seats than at the start: the unsigned            *)
(* subtraction of servicethread.h:104 never wraps, because ticket_num was   *)
(* compared with the same number (servicethread.h:100).  Needs that no two  *)
(* requests are served at once; `message' is not protected by ticket_mutex. *)
NeverOversold == \A f \in Flights : tickets[f] <= INIT_TICKETS

(* What a thread answers is what it did: a delivered BUY_SUCCEED names the  *)
(* flight and the number of seats taken from the list for it, and any other *)
(* answer means that nothing was taken (servicethread.h:102-110).           *)
AnswerTellsSale ==
  \A t \in Threads :
    pc[t] = "send" =>
      \A k \in DOMAIN frame[t].sendBuf :
        LET a == frame[t].sendBuf[k]
        IN  IF a.type = "BUY_SUCCEED" THEN frame[t].sold = <<a.flight, a.num>>
                                      ELSE frame[t].sold = NothingSold

(* Every request that names an existing flight, or no flight, comes to an   *)
(* end: the thread is back at recv, or its connection is closed.            *)
RequestsEnd == \A t \in Threads : ~Idle(t) ~> Idle(t)

-------------------------------------------------------------------------------
(* The promise: a request is pending from recv to send, and decided when    *)
(* the answer is complete in `message'.                                     *)
Pending(t) == IF Idle(t) THEN None ELSE frame[t].recvBuf

Decision(t) ==
  CASE pc[t] = "send" -> frame[t].sendBuf
    [] pc[t] \in {"outHead", "outNum"} /\ ~MoreFlights(t) ->
         Append(frame[t].sendBuf, message)
    [] OTHER -> << >>

Sale == INSTANCE AtomicSale WITH
  seats <- tickets,
  pending <- [t \in Threads |-> Pending(t)],
  decision <- [t \in Threads |-> Decision(t)]

(* Served one at a time, requests are decided atomically and answered with  *)
(* that decision (service_thread as a whole implements AtomicSale).         *)
ImplementsAtomicSale == Sale!Spec
===============================================================================
