--------------------------- MODULE TicketSaleProofs ---------------------------
(***************************************************************************)
(* The types of TicketSale, for all threads, flights, stocks and requests, *)
(* overlapping or not.  TicketSaleSerial goes on from here.                *)
(***************************************************************************)
EXTENDS TicketSale, TLAPS

(* The unsigned arithmetic of ticket_num: a remainder is in range, and a    *)
(* number in range is its own remainder.                                    *)
LEMMA ModInRange ==
  ASSUME NEW a \in Int
  PROVE  a % Word \in 0 .. Word - 1
BY SaleAssumption

(* Nothing wraps as long as the number is in range.                         *)
LEMMA ModIdentity ==
  ASSUME NEW a \in 0 .. Word - 1
  PROVE  a % Word = a
BY SaleAssumption

(* What the constants are worth to the other proofs.                        *)
LEMMA ConstantTypes ==
  /\ FLIGHT_NUM \in Nat /\ FLIGHT_NUM >= 1
  /\ Word \in Nat /\ Word >= 1
  /\ INIT_TICKETS \in 0 .. Word - 1
  /\ Requests \subseteq MessageSet
  /\ None \in MessageSet /\ InitialMessage \in MessageSet
  /\ NothingSold \in Nat \X (0 .. Word - 1)
BY SaleAssumption
   DEF MessageSet, MessageType, None, InitialMessage, Record, NothingSold

(* The locals of a thread that received a request have their types.         *)
LEMMA FrameTypes ==
  ASSUME NEW r \in MessageSet
  PROVE  Frame(r) \in FrameSet
BY ConstantTypes DEF Frame, FrameSet, Flights, MessageType

(* Changing one local of one thread keeps the frames typed.                  *)
LEMMA FrameUpdates ==
  ASSUME TypeOK, NEW t \in Threads
  PROVE  /\ \A c \in MessageType : [frame[t] EXCEPT !.case = c] \in FrameSet
         /\ \A i \in Flights : [frame[t] EXCEPT !.i = i] \in FrameSet
         /\ \A m \in MessageSet : [frame[t] EXCEPT !.head = m] \in FrameSet
         /\ \A s \in Nat \X (0 .. Word - 1) : [frame[t] EXCEPT !.sold = s] \in FrameSet
         /\ \A b \in Seq(MessageSet), i \in Flights :
              [frame[t] EXCEPT !.sendBuf = b, !.i = i] \in FrameSet
BY DEF TypeOK, FrameSet

(* Writing one field of the shared record keeps it typed.                   *)
LEMMA MessageUpdates ==
  ASSUME TypeOK
  PROVE  /\ \A y \in MessageType : [message EXCEPT !.type = y] \in MessageSet
         /\ \A n \in 0 .. Word - 1 : [message EXCEPT !.num = n] \in MessageSet
BY DEF TypeOK, MessageSet

-------------------------------------------------------------------------------
(* All threads are closed, with typed locals, when the server starts.       *)
LEMMA InitTypeOK == Init => TypeOK
BY ConstantTypes, FrameTypes
   DEF Init, TypeOK, NoFrame, Places, MessageSet, MessageType, Record, Flights

(* One step of one thread keeps the types.                                  *)
LEMMA StepTypeOK ==
  ASSUME TypeOK, NEW t \in Threads, Start(t) \/ Receive(t) \/ Serve(t) \/ End(t)
  PROVE  TypeOK'
<1> USE ConstantTypes
<1>1. CASE Start(t)
  BY <1>1 DEF Start, Goto, TypeOK, Places
<1>2. CASE Receive(t)
  BY <1>2, FrameTypes DEF Receive, Goto, TypeOK, Places
<1>3. CASE InitMessage(t)
  BY <1>3 DEF InitMessage, WriteMessage, Goto, TypeOK, Places
<1>4. CASE CopyHead(t)
  BY <1>4 DEF CopyHead, WriteMessage, Goto, TypeOK, Places, Record, MessageSet, FrameSet
<1>5. CASE CopyNum(t)
  BY <1>5 DEF CopyNum, WriteMessage, Goto, TypeOK, Places, MessageSet, FrameSet
<1>6. CASE Switch(t)
  <2>1. message.type \in MessageType /\ Label \in Places
    BY DEF TypeOK, MessageSet, Label, Places
  <2>2. CASE Leave(t, "switch", "closed", << >>)
    BY <1>6, <2>2, FrameTypes DEF Switch, Leave, Goto, TypeOK, Places, NoFrame
  <2>3. CASE ~Leave(t, "switch", "closed", << >>)
    <3>1. frame' = [frame EXCEPT ![t] = [frame[t] EXCEPT !.case = message.type]]
      BY <1>6, <2>3 DEF Switch
    <3>2. frame' \in [Threads -> FrameSet]
      BY <2>1, <3>1, FrameUpdates DEF TypeOK
    <3>3. pc' \in [Threads -> Places]
      BY <1>6, <2>1, <2>3 DEF Switch, Goto, TypeOK
    <3> QED
      BY <1>6, <2>3, <3>2, <3>3 DEF Switch, TypeOK
  <2> QED
    BY <2>2, <2>3
<1>7. CASE Find(t)
  BY <1>7 DEF Find, Goto, Lock, TypeOK, Places
<1>8. CASE Pass(t)
  <2>1. CASE Leave(t, "find", "recv", << >>)
    BY <1>8, <2>1, FrameTypes DEF Pass, Leave, Goto, TypeOK, Places, NoFrame
  <2>2. CASE ~Leave(t, "find", "recv", << >>)
    <3>1. frame[t].i \in Flights /\ frame[t].i < FLIGHT_NUM
      BY <1>8, <2>2 DEF Pass, TypeOK, FrameSet
    <3>2. frame[t].i + 1 \in Flights
      BY <3>1 DEF Flights
    <3>3. frame' = [frame EXCEPT ![t] = [frame[t] EXCEPT !.i = frame[t].i + 1]]
      BY <1>8, <2>2 DEF Pass
    <3>4. frame' \in [Threads -> FrameSet]
      BY <3>2, <3>3, FrameUpdates DEF TypeOK
    <3> QED
      BY <1>8, <2>2, <3>4 DEF Pass, Goto, TypeOK, Places
  <2> QED
    BY <2>1, <2>2
<1>9. CASE Check(t)
  BY <1>9 DEF Check, Goto, TypeOK, Places
<1>10. CASE BuyType(t) \/ FailType(t) \/ OneType(t) \/ Unknown(t)
  BY <1>10 DEF BuyType, FailType, OneType, Unknown, WriteMessage, Goto, TypeOK, Places,
               MessageSet, MessageType
<1>11. CASE Take(t)
  <2> DEFINE f == frame[t].i
  <2>1. f \in Flights /\ tickets[f] \in Int /\ message.num \in 0 .. Word - 1
    <3>1. f \in Flights
      BY DEF TypeOK, FrameSet
    <3>2. message.num \in 0 .. Word - 1
      BY DEF TypeOK, MessageSet
    <3>3. tickets[f] \in Int
      BY <3>1 DEF TypeOK
    <3> QED
      BY <3>1, <3>2, <3>3
  <2>2. (tickets[f] - message.num) % Word \in 0 .. Word - 1
    BY <2>1, ModInRange
  <2>3. tickets' \in [Flights -> 0 .. Word - 1]
    BY <1>11, <2>1, <2>2 DEF Take, TypeOK
  <2>4. frame' \in [Threads -> FrameSet]
    <3>1. <<f, message.num>> \in Nat \X (0 .. Word - 1)
      BY <2>1 DEF Flights
    <3>2. frame' = [frame EXCEPT ![t] = [frame[t] EXCEPT !.sold = <<f, message.num>>]]
      BY <1>11 DEF Take
    <3> QED
      BY <3>1, <3>2, FrameUpdates DEF TypeOK
  <2> QED
    BY <1>11, <2>3, <2>4 DEF Take, Goto, Unlock, TypeOK, Places
<1>12. CASE Stock(t)
  <2>1. tickets[frame[t].i] \in 0 .. Word - 1
    BY DEF TypeOK, FrameSet
  <2>2. message' \in MessageSet
    BY <1>12, <2>1, MessageUpdates DEF Stock
  <2> QED
    BY <1>12, <2>2 DEF Stock, Goto, Unlock, TypeOK, Places
<1>13. CASE AllHead(t)
  <2>1. message.num \in 0 .. Word - 1
    BY DEF TypeOK, MessageSet
  <2>2. frame[t].i \in Flights
    BY DEF TypeOK, FrameSet
  <2>3. frame[t].i \in Nat
    BY <2>2 DEF Flights
  <2>4. message' \in MessageSet
    BY <1>13, <2>1, <2>3 DEF AllHead, Record, MessageSet, MessageType
  <2> QED
    BY <1>13, <2>4 DEF AllHead, Goto, Lock, TypeOK, Places
<1>14. CASE OutHead(t)
  BY <1>14 DEF OutHead, Goto, TypeOK, Places, FrameSet
<1>15. CASE OutNum(t)
  <2>1. OutRecord(t) \in MessageSet
    BY DEF OutRecord, Record, TypeOK, MessageSet, FrameSet
  <2>2. Append(frame[t].sendBuf, OutRecord(t)) \in Seq(MessageSet)
    BY <2>1 DEF TypeOK, FrameSet
  <2>3. frame[t].i \in Flights
    BY DEF TypeOK, FrameSet
  <2> DEFINE next == IF MoreFlights(t) THEN frame[t].i + 1 ELSE frame[t].i
  <2>4. next \in Flights
    BY <2>3 DEF MoreFlights, Flights
  <2>5. frame' = [frame EXCEPT ![t] =
                    [frame[t] EXCEPT !.sendBuf = Append(frame[t].sendBuf, OutRecord(t)),
                                     !.i = next]]
    BY <1>15 DEF OutNum, TypeOK, FrameSet
  <2> HIDE DEF next
  <2>6. frame' \in [Threads -> FrameSet]
    BY <2>2, <2>4, <2>5, FrameUpdates DEF TypeOK
  <2> QED
    BY <1>15, <2>6 DEF OutNum, Goto, TypeOK, Places
<1>16. CASE Send(t)
  BY <1>16, FrameTypes DEF Send, Leave, Goto, TypeOK, Places, FrameSet, NoFrame
<1>17. CASE End(t)
  BY <1>17, FrameTypes DEF End, Leave, Goto, TypeOK, Places, NoFrame
<1> QED
  BY <1>1, <1>2, <1>3, <1>4, <1>5, <1>6, <1>7, <1>8, <1>9, <1>10, <1>11, <1>12, <1>13,
     <1>14, <1>15, <1>16, <1>17 DEF Serve

(* Every variable keeps its type, with and without overlap of requests: in  *)
(* particular the loops of service_thread stay inside ticket_list.          *)
THEOREM TypeCorrect == Spec => []TypeOK
<1>1. TypeOK /\ [Next]_vars => TypeOK'
  <2> SUFFICES ASSUME TypeOK, [Next]_vars PROVE TypeOK'
    OBVIOUS
  <2>1. ASSUME NEW t \in Threads, Start(t) \/ Receive(t) \/ Serve(t) \/ End(t)
        PROVE  TypeOK'
    BY <2>1, StepTypeOK
  <2>2. CASE Reopen
    BY <2>2, ConstantTypes DEF Reopen, TypeOK
  <2>3. CASE UNCHANGED vars
    BY <2>3 DEF vars, TypeOK
  <2> QED
    BY <2>1, <2>2, <2>3 DEF Next
<1> QED
  BY InitTypeOK, <1>1, PTL DEF Spec
===============================================================================
