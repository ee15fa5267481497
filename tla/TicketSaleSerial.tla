--------------------------- MODULE TicketSaleSerial ---------------------------
(***************************************************************************)
(* What holds of TicketSale when requests do not overlap, for all threads, *)
(* flights, stocks and requests.  At most one thread is busy, so that what *)
(* it wrote to `message' is still there when it reads it.  SerialInv says  *)
(* so, one clause per group of places of the loop where it matters, and    *)
(* SaleInv adds what makes the loop implement AtomicSale.                  *)
(***************************************************************************)
EXTENDS TicketSaleProofs

AtMostOneBusy == \A t, u \in Threads : ~Idle(t) /\ ~Idle(u) => t = u

(* Answer a is the truth about the seats s taken for it.                    *)
Tells(a, s) == IF a.type = "BUY_SUCCEED" THEN s = <<a.flight, a.num>> ELSE s = NothingSold

(* Before the sale nothing is sold, and nothing answered before a sale that *)
(* may still come.                                                          *)
NothingYet(t) ==
  /\ pc[t] \in {"init", "copyHead", "copyNum", "switch", "find", "check", "buyType", "take",
                "failType", "oneType", "stock", "allHead", "unknown"}
       => frame[t].sold = NothingSold
  /\ pc[t] \in {"init", "copyHead", "copyNum", "switch", "find", "check", "buyType", "take"}
       => frame[t].sendBuf = << >>

(* Only BUY_TICKET sells.                                                   *)
OnlyBuySells(t) ==
  /\ frame[t].case = "INQUIRE_ALL" => frame[t].sold = NothingSold
  /\ pc[t] \in {"find", "check", "buyType", "take"} => frame[t].case # "INQUIRE_ALL"

(* The flight that is locked is the one of the message, and it has enough   *)
(* seats once they were compared.                                           *)
Matched(t) ==
  /\ pc[t] \in {"check", "buyType", "take"} => message.flight = frame[t].i
  /\ pc[t] \in {"buyType", "take"} => message.num <= tickets[frame[t].i]

(* The type in the message is the branch the thread took.                   *)
BranchType(t) ==
  /\ pc[t] = "take" => message.type = "BUY_SUCCEED"
  /\ pc[t] = "stock" => message.type # "BUY_SUCCEED"

(* The message, its copied half and the copied records tell the truth.      *)
Truthful(t) ==
  /\ pc[t] \in {"outHead", "outNum"} => Tells(message, frame[t].sold)
  /\ pc[t] = "outNum" => /\ frame[t].head.type = message.type
                         /\ frame[t].head.flight = message.flight
  /\ \A k \in DOMAIN frame[t].sendBuf : Tells(frame[t].sendBuf[k], frame[t].sold)

ThreadInv(t) ==
  NothingYet(t) /\ OnlyBuySells(t) /\ Matched(t) /\ BranchType(t) /\ Truthful(t)

SerialInv ==
  TypeOK /\ AtMostOneBusy /\ NeverOversold /\ \A t \in Threads : ThreadInv(t)

Step(t) == Start(t) \/ Receive(t) \/ Serve(t) \/ End(t)

-------------------------------------------------------------------------------
(* A step of one thread leaves the place and the locals of the others.      *)
LEMMA StepIsLocal ==
  ASSUME TypeOK, NEW t \in Threads, NEW u \in Threads \ {t}, Step(t)
  PROVE  pc'[u] = pc[u] /\ frame'[u] = frame[u]
<1>1. /\ pc \in [Threads -> Places]
      /\ frame \in [Threads -> FrameSet]
  BY DEF TypeOK
<1>2. CASE Start(t) \/ Receive(t) \/ Send(t) \/ End(t)
  BY <1>1, <1>2 DEF Start, Receive, Send, End, Leave, Goto
<1>3. CASE InitMessage(t) \/ CopyHead(t) \/ CopyNum(t) \/ BuyType(t) \/ FailType(t)
           \/ OneType(t) \/ Unknown(t)
  BY <1>1, <1>3 DEF InitMessage, CopyHead, CopyNum, BuyType, FailType, OneType, Unknown,
                    WriteMessage, Goto
<1>4. CASE Switch(t) \/ Find(t) \/ Pass(t) \/ Check(t)
  BY <1>1, <1>4 DEF Switch, Find, Pass, Check, Leave, Goto
<1>5. CASE Take(t) \/ Stock(t) \/ AllHead(t) \/ OutHead(t) \/ OutNum(t)
  BY <1>1, <1>5 DEF Take, Stock, AllHead, OutHead, OutNum, Goto
<1> QED
  BY <1>2, <1>3, <1>4, <1>5 DEF Step, Serve

(* A thread that serves a request is busy before the step.                  *)
LEMMA ServersAreBusy ==
  ASSUME NEW t \in Threads, Serve(t)
  PROVE  ~Idle(t)
BY DEF Serve, Idle, InitMessage, CopyHead, CopyNum, Switch, Find, Pass, Check, BuyType, Take,
       FailType, OneType, Stock, AllHead, Unknown, OutHead, OutNum, Send, WriteMessage, Leave,
       Goto

(* While a thread is busy, nobody else starts to serve a request: a second  *)
(* request is not received before the first is done.                        *)
LEMMA OneStaysBusy ==
  ASSUME ~Overlap, TypeOK, AtMostOneBusy, NEW t \in Threads, Step(t)
  PROVE  AtMostOneBusy'
<1>1. pc \in [Threads -> Places]
  BY DEF TypeOK
<1>2. \A u \in Threads \ {t} : pc'[u] = pc[u]
  BY StepIsLocal
<1>3. CASE Start(t) \/ End(t)
  <2>1. pc'[t] \in {"recv", "closed"}
    BY <1>1, <1>3 DEF Start, End, Leave, Goto
  <2> QED
    BY <1>2, <2>1 DEF AtMostOneBusy, Idle
<1>4. CASE Receive(t)
  BY <1>2, <1>4 DEF Receive, AtMostOneBusy, Idle
<1>5. CASE Serve(t)
  BY <1>2, <1>5, ServersAreBusy DEF AtMostOneBusy, Idle
<1> QED
  BY <1>3, <1>4, <1>5 DEF Step

(* What another thread relies on is not disturbed: either it is idle and    *)
(* relies on nothing shared, or the step writes nothing shared.             *)
LEMMA OthersKeep ==
  ASSUME ~Overlap, SerialInv, NEW t \in Threads, NEW u \in Threads \ {t}, Step(t)
  PROVE  ThreadInv(u)'
<1>1. pc'[u] = pc[u] /\ frame'[u] = frame[u] /\ ThreadInv(u)
  BY StepIsLocal DEF SerialInv
<1>2. CASE Idle(u)
  BY <1>1, <1>2
     DEF Idle, ThreadInv, NothingYet, OnlyBuySells, Matched, BranchType, Truthful, Tells
<1>3. CASE ~Idle(u)
  <2>1. Idle(t)
    BY <1>3 DEF SerialInv, AtMostOneBusy
  <2>2. Start(t) \/ End(t)
    BY <1>3, <2>1, ServersAreBusy DEF Step, Receive
  <2>3. UNCHANGED <<message, tickets>>
    BY <2>2 DEF Start, End
  <2> QED
    BY <1>1, <2>3
       DEF ThreadInv, NothingYet, OnlyBuySells, Matched, BranchType, Truthful, Tells
<1> QED
  BY <1>2, <1>3

(* The stock never grows, and a sale of what there is does not wrap.        *)
LEMMA StockStaysBounded ==
  ASSUME SerialInv, NEW t \in Threads, Step(t)
  PROVE  NeverOversold'
<1>1. CASE Take(t)
  <2> DEFINE f == frame[t].i
  <2>1. f \in Flights /\ tickets \in [Flights -> 0 .. Word - 1] /\ message.num \in 0 .. Word - 1
    BY DEF SerialInv, TypeOK, FrameSet, MessageSet
  <2>2. message.num <= tickets[f] /\ tickets[f] <= INIT_TICKETS
    BY <1>1, <2>1 DEF Take, Goto, SerialInv, ThreadInv, Matched, NeverOversold
  <2>3. tickets[f] - message.num \in 0 .. Word - 1 /\ tickets[f] - message.num <= INIT_TICKETS
    BY <2>1, <2>2, ConstantTypes
  <2>4. tickets' = [tickets EXCEPT ![f] = tickets[f] - message.num]
    BY <1>1, <2>3, ModIdentity DEF Take
  <2> QED
    BY <2>1, <2>3, <2>4 DEF SerialInv, NeverOversold
<1>2. CASE ~Take(t)
  <2>1. tickets' = tickets
    BY <1>2 DEF Step, Serve, Start, Receive, End, InitMessage, CopyHead, CopyNum, Switch, Find,
                Pass, Check, BuyType, FailType, OneType, Stock, AllHead, Unknown, OutHead,
                OutNum, Send, WriteMessage
  <2> QED
    BY <2>1 DEF SerialInv, NeverOversold
<1> QED
  BY <1>1, <1>2

(* What the thread itself relies on, after each of its steps.               *)
LEMMA OwnStepKeeps ==
  ASSUME ~Overlap, SerialInv, NEW t \in Threads, Step(t)
  PROVE  ThreadInv(t)'
<1>1. /\ pc \in [Threads -> Places]
      /\ frame \in [Threads -> FrameSet]
      /\ message \in MessageSet
      /\ ThreadInv(t)
  BY DEF SerialInv, TypeOK
<1>2. frame[t] \in FrameSet /\ frame[t].i \in Flights /\ frame[t].sendBuf \in Seq(MessageSet)
  BY <1>1 DEF FrameSet
<1> USE DEF ThreadInv, NothingYet, OnlyBuySells, Matched, BranchType, Truthful, Tells
<1>3. CASE Start(t)
  BY <1>1, <1>3 DEF Start, Goto
<1>4. CASE Receive(t)
  BY <1>1, <1>4 DEF Receive, Goto, Frame
<1>5. CASE Send(t) \/ End(t)
  BY <1>1, <1>5 DEF Send, End, Leave, Goto, NoFrame, Frame
<1>6. CASE InitMessage(t) \/ CopyHead(t) \/ CopyNum(t)
  BY <1>1, <1>6 DEF InitMessage, CopyHead, CopyNum, WriteMessage, Goto
<1>7. CASE Switch(t)
  <2>1. CASE Leave(t, "switch", "closed", << >>)
    BY <1>1, <2>1 DEF Leave, Goto, NoFrame, Frame
  <2>2. CASE ~Leave(t, "switch", "closed", << >>)
    <3>1. /\ pc[t] = "switch" /\ pc'[t] = Label
          /\ frame' = [frame EXCEPT ![t] = [frame[t] EXCEPT !.case = message.type]]
      BY <1>1, <1>7, <2>2 DEF Switch, Goto
    <3>2. frame'[t].case = message.type /\ frame'[t].sold = frame[t].sold
          /\ frame'[t].sendBuf = frame[t].sendBuf
      BY <1>1, <1>2, <3>1 DEF FrameSet
    <3>3. /\ Label \in {"find", "allHead", "unknown"}
          /\ Label = "find" => message.type # "INQUIRE_ALL"
      BY DEF Label
    <3> QED
      BY <1>1, <3>1, <3>2, <3>3
  <2> QED
    BY <2>1, <2>2
<1>8. CASE Find(t)
  BY <1>1, <1>8 DEF Find, Goto
<1>9. CASE Pass(t)
  <2>1. CASE Leave(t, "find", "recv", << >>)
    BY <1>1, <2>1 DEF Leave, Goto, NoFrame, Frame
  <2>2. CASE ~Leave(t, "find", "recv", << >>)
    <3>1. pc[t] = "find" /\ pc'[t] = "find"
      BY <1>1, <1>9, <2>2 DEF Pass, Goto
    <3>2. /\ frame'[t].case = frame[t].case /\ frame'[t].sold = frame[t].sold
          /\ frame'[t].sendBuf = frame[t].sendBuf
      BY <1>1, <1>2, <1>9, <2>2 DEF Pass, FrameSet
    <3> QED
      BY <1>1, <3>1, <3>2
  <2> QED
    BY <2>1, <2>2
<1>10. CASE Check(t)
  <2>1. pc[t] = "check" /\ pc'[t] = IF Enough(t) THEN "buyType" ELSE "failType"
    BY <1>1, <1>10 DEF Check, Goto
  <2>2. UNCHANGED <<tickets, message, frame>>
    BY <1>10 DEF Check
  <2>3. Enough(t) => message.num <= tickets[frame[t].i]
    <3>1. tickets[frame[t].i] \in Int /\ message.num \in Int
      BY <1>1, <1>2, ConstantTypes DEF SerialInv, TypeOK, MessageSet
    <3> QED
      BY <3>1 DEF Enough
  <2> QED
    BY <1>1, <2>1, <2>2, <2>3
<1>11. CASE BuyType(t) \/ FailType(t) \/ OneType(t) \/ Unknown(t)
  <2>1. /\ frame' = frame /\ tickets' = tickets
        /\ message'.flight = message.flight /\ message'.num = message.num
    BY <1>1, <1>11 DEF BuyType, FailType, OneType, Unknown, WriteMessage, MessageSet
  <2>2. \/ pc[t] = "buyType" /\ pc'[t] = "take" /\ message'.type = "BUY_SUCCEED"
        \/ /\ pc[t] \in {"failType", "oneType", "unknown"} /\ pc'[t] \in {"stock", "outHead"}
           /\ message'.type # "BUY_SUCCEED"
    BY <1>1, <1>11 DEF BuyType, FailType, OneType, Unknown, WriteMessage, Goto, MessageSet
  <2> QED
    BY <1>1, <2>1, <2>2
<1>12. CASE Take(t)
  <2>1. pc[t] = "take" /\ pc'[t] = "outHead" /\ message' = message
    BY <1>1, <1>12 DEF Take, Goto
  <2>2. /\ frame'[t].case = frame[t].case /\ frame'[t].sendBuf = frame[t].sendBuf
        /\ frame'[t].sold = <<frame[t].i, message.num>>
    BY <1>1, <1>2, <1>12 DEF Take, FrameSet
  <2> QED
    BY <1>1, <2>1, <2>2
<1>13. CASE Stock(t)
  <2>1. /\ pc[t] = "stock" /\ pc'[t] = "outHead"
        /\ message'.type = message.type /\ frame' = frame
    BY <1>1, <1>13 DEF Stock, Goto, MessageSet
  <2> QED
    BY <1>1, <2>1
<1>14. CASE AllHead(t)
  BY <1>1, <1>14 DEF AllHead, Goto, Record
<1>15. CASE OutHead(t)
  <2>1. pc[t] = "outHead" /\ pc'[t] = "outNum" /\ message' = message
    BY <1>1, <1>15 DEF OutHead, Goto
  <2>2. /\ frame'[t].case = frame[t].case /\ frame'[t].sendBuf = frame[t].sendBuf
        /\ frame'[t].sold = frame[t].sold /\ frame'[t].head = message
    BY <1>1, <1>2, <1>15 DEF OutHead, FrameSet
  <2> QED
    BY <1>1, <2>1, <2>2
<1>16. CASE OutNum(t)
  <2> DEFINE s == frame[t].sendBuf
             a == OutRecord(t)
  <2>1. pc[t] = "outNum" /\ pc'[t] = IF MoreFlights(t) THEN "allHead" ELSE "send"
    BY <1>1, <1>16 DEF OutNum, Goto
  <2>2. /\ frame'[t].case = frame[t].case /\ frame'[t].sold = frame[t].sold
        /\ frame'[t].sendBuf = Append(s, a)
    BY <1>1, <1>2, <1>16 DEF OutNum, FrameSet
  <2>3. Tells(a, frame[t].sold)
    BY <1>1, <2>1 DEF OutRecord, Record
  <2>4. \A k \in DOMAIN Append(s, a) :
          Append(s, a)[k] = a \/ (k \in DOMAIN s /\ Append(s, a)[k] = s[k])
    BY <1>2
  <2>5. \A k \in DOMAIN Append(s, a) : Tells(Append(s, a)[k], frame[t].sold)
    BY <1>1, <2>3, <2>4
  <2>6. MoreFlights(t) => frame[t].sold = NothingSold
    BY <1>1 DEF MoreFlights
  <2> QED
    BY <1>1, <2>1, <2>2, <2>5, <2>6
<1> QED
  BY <1>3, <1>4, <1>5, <1>6, <1>7, <1>8, <1>9, <1>10, <1>11, <1>12, <1>13, <1>14, <1>15, <1>16
     DEF Step, Serve

-------------------------------------------------------------------------------
(* All of SerialInv together is inductive, when requests do not overlap.    *)
LEMMA SerialInductive ==
  ASSUME ~Overlap, SerialInv, [Next]_vars
  PROVE  SerialInv'
<1>1. ASSUME NEW t \in Threads, Step(t) PROVE SerialInv'
  <2>1. Step(t)
    BY <1>1
  <2>2. TypeOK'
    BY <2>1, StepTypeOK DEF SerialInv, Step
  <2>3. AtMostOneBusy'
    BY <2>1, OneStaysBusy DEF SerialInv
  <2>4. NeverOversold'
    BY <2>1, StockStaysBounded
  <2>5. \A u \in Threads : ThreadInv(u)'
    BY <2>1, OwnStepKeeps, OthersKeep
  <2> QED
    BY <2>2, <2>3, <2>4, <2>5 DEF SerialInv
<1>2. CASE UNCHANGED vars
  <2>1. TypeOK' /\ AtMostOneBusy' /\ NeverOversold'
    BY <1>2 DEF vars, SerialInv, TypeOK, AtMostOneBusy, Idle, NeverOversold
  <2>2. \A t \in Threads : ThreadInv(t)'
    BY <1>2 DEF vars, SerialInv, ThreadInv, NothingYet, OnlyBuySells, Matched, BranchType,
                Truthful, Tells
  <2> QED
    BY <2>1, <2>2 DEF SerialInv
<1>3. CASE Reopen
  <2>1. TypeOK' /\ AtMostOneBusy' /\ NeverOversold'
    BY <1>3, ConstantTypes DEF Reopen, SerialInv, TypeOK, AtMostOneBusy, Idle, NeverOversold
  <2>2. \A t \in Threads : ThreadInv(t)'
    BY <1>3 DEF Reopen, SerialInv, ThreadInv, NothingYet, OnlyBuySells, Matched, BranchType,
                Truthful, Tells
  <2> QED
    BY <2>1, <2>2 DEF SerialInv
<1> QED
  BY <1>1, <1>2, <1>3 DEF Next, Step

(* All threads are closed and all seats are there when the server starts.   *)
LEMMA InitSerial == Init => SerialInv
<1> SUFFICES ASSUME Init PROVE SerialInv
  OBVIOUS
<1>1. AtMostOneBusy /\ NeverOversold
  BY ConstantTypes DEF Init, AtMostOneBusy, Idle, NeverOversold
<1>2. \A t \in Threads : ThreadInv(t)
  <2> TAKE t \in Threads
  <2>1. pc[t] = "closed" /\ frame[t] = NoFrame
    BY DEF Init
  <2>2. NoFrame.case = "NONE" /\ NoFrame.sendBuf = << >>
    BY DEF NoFrame, Frame
  <2> QED
    BY <2>1, <2>2
       DEF ThreadInv, NothingYet, OnlyBuySells, Matched, BranchType, Truthful
<1> QED
  BY <1>1, <1>2, InitTypeOK DEF SerialInv

(* Served one at a time, requests never sell more seats than there are, and *)
(* every answer tells what was sold for it: service_thread is correct when  *)
(* nothing else writes `message' between recv and send.                     *)
THEOREM SerialSaleIsCorrect ==
  ASSUME ~Overlap
  PROVE  Spec => [](NeverOversold /\ AnswerTellsSale)
<1>1. SerialInv => NeverOversold /\ AnswerTellsSale
  BY DEF SerialInv, ThreadInv, Truthful, Tells, AnswerTellsSale
<1>2. SerialInv /\ [Next]_vars => SerialInv'
  BY SerialInductive
<1> QED
  BY InitSerial, <1>1, <1>2, PTL DEF Spec

(* In particular the last seats are sold once and the stock never wraps:    *)
(* the subtraction of service_thread is safe when requests do not overlap.  *)
THEOREM SerialNeverOversells ==
  ASSUME ~Overlap
  PROVE  Spec => []NeverOversold
<1>1. NeverOversold /\ AnswerTellsSale => NeverOversold
  OBVIOUS
<1> QED
  BY SerialSaleIsCorrect, <1>1, PTL
-------------------------------------------------------------------------------
(* Why the requests, served one at a time, are decided in one step.  Until  *)
(* it is answered, the message says what the client asked; the place of the *)
(* thread says which branch decides it; and the records an INQUIRE_ALL has  *)
(* collected are still true, for nobody else sells.  SaleInv says so for    *)
(* each group of places of the loop.                                        *)
Before == {"init", "copyHead", "copyNum", "switch"}
Serving == {"find", "check", "buyType", "take", "failType", "oneType", "stock", "allHead",
            "unknown", "outHead", "outNum"}

Asked(t) == frame[t].recvBuf

(* The message is the request, from the copy until the answer is written.   *)
Copied(t) ==
  /\ ~Idle(t) => Asked(t) \in Requests /\ delivered[t] = << >>
  /\ pc[t] = "copyNum" => message.type = Asked(t).type /\ message.flight = Asked(t).flight
  /\ pc[t] = "switch" => message = Asked(t)
  /\ pc[t] \in Serving => frame[t].case = Asked(t).type
  /\ pc[t] \in {"find", "check", "buyType", "take", "failType", "oneType", "unknown"}
       => message.flight = Asked(t).flight /\ message.num = Asked(t).num

(* What was decided about the request so far.                               *)
Branch(t) ==
  /\ pc[t] = "find" => /\ frame[t].case \in {"BUY_TICKET", "INQUIRE_ONE"}
                       /\ \A f \in Flights : f < frame[t].i => f # message.flight
  /\ pc[t] \in {"check", "buyType", "take", "failType"} => frame[t].case = "BUY_TICKET"
  /\ pc[t] = "oneType" => frame[t].case = "INQUIRE_ONE"
  /\ pc[t] = "allHead" => frame[t].case = "INQUIRE_ALL"
  /\ pc[t] = "unknown" => frame[t].case \notin {"BUY_TICKET", "INQUIRE_ONE", "INQUIRE_ALL"}
  /\ pc[t] \in {"failType", "oneType"} => message.flight = frame[t].i
  /\ pc[t] = "failType" => message.num > tickets[frame[t].i]
  /\ pc[t] = "stock" =>
       /\ message.flight = frame[t].i
       /\ \/ /\ frame[t].case = "BUY_TICKET" /\ message.type = "BUY_FAILED"
             /\ Asked(t).flight = frame[t].i /\ Asked(t).num > tickets[frame[t].i]
          \/ /\ frame[t].case = "INQUIRE_ONE" /\ message.type = "INQUIRE_SUCCEED"
             /\ Asked(t).flight = frame[t].i
          \/ frame[t].case = "INQUIRE_ALL" /\ message.type = "INQUIRE_SUCCEED"

(* The flight f as an inquiry is to be told of it.                          *)
Told(f) == Record("INQUIRE_SUCCEED", f, tickets[f])

(* The records collected so far.                                            *)
Listed(t) ==
  /\ pc[t] \in Before => frame[t].i = 1 /\ frame[t].sendBuf = << >>
  /\ pc[t] \in Serving /\ frame[t].case # "INQUIRE_ALL" => frame[t].sendBuf = << >>
  /\ pc[t] \in Serving /\ frame[t].case = "INQUIRE_ALL" =>
       /\ Len(frame[t].sendBuf) = frame[t].i - 1
       /\ \A f \in Flights : f < frame[t].i => frame[t].sendBuf[f] = Told(f)
  /\ pc[t] \in {"outHead", "outNum"} /\ frame[t].case = "INQUIRE_ALL"
       => message = Told(frame[t].i)
  /\ pc[t] = "send" => frame[t].sendBuf # << >>

RequestInv(t) == Copied(t) /\ Branch(t) /\ Listed(t)

SaleInv == SerialInv /\ \A t \in Threads : RequestInv(t)

(* Two records with the same fields are the same.                           *)
LEMMA SameRecord ==
  ASSUME NEW m \in MessageSet, NEW n \in MessageSet,
         m.type = n.type, m.flight = n.flight, m.num = n.num
  PROVE  m = n
BY DEF MessageSet

(* A step of one thread leaves the answer another thread delivered.         *)
LEMMA StepDelivers ==
  ASSUME TypeOK, NEW t \in Threads, NEW u \in Threads \ {t}, Step(t)
  PROVE  delivered'[u] = delivered[u]
<1>1. delivered \in [Threads -> Seq(MessageSet)]
  BY DEF TypeOK
<1>2. CASE Start(t) \/ Receive(t) \/ Send(t) \/ End(t) \/ Switch(t) \/ Pass(t)
  BY <1>1, <1>2 DEF Start, Receive, Send, End, Switch, Pass, Leave
<1>3. CASE ~(Start(t) \/ Receive(t) \/ Send(t) \/ End(t) \/ Switch(t) \/ Pass(t))
  BY <1>3 DEF Step, Serve, InitMessage, CopyHead, CopyNum, Find, Check, BuyType, Take, FailType,
              OneType, Stock, AllHead, Unknown, OutHead, OutNum, WriteMessage
<1> QED
  BY <1>2, <1>3

(* As OthersKeep: nothing a busy thread relies on is written by another.    *)
LEMMA OthersKeepRequest ==
  ASSUME ~Overlap, SaleInv, NEW t \in Threads, NEW u \in Threads \ {t}, Step(t)
  PROVE  RequestInv(u)'
<1>1. /\ pc'[u] = pc[u] /\ frame'[u] = frame[u] /\ delivered'[u] = delivered[u]
      /\ RequestInv(u)
  BY StepIsLocal, StepDelivers DEF SaleInv, SerialInv
<1> USE DEF RequestInv, Copied, Branch, Listed, Idle, Before, Serving, Asked, Told
<1>2. CASE Idle(u)
  BY <1>1, <1>2
<1>3. CASE ~Idle(u)
  <2>1. Idle(t)
    BY <1>3 DEF SaleInv, SerialInv, AtMostOneBusy
  <2>2. Start(t) \/ End(t)
    BY <1>3, <2>1, ServersAreBusy DEF Step, Receive
  <2>3. UNCHANGED <<message, tickets>>
    BY <2>2 DEF Start, End
  <2> QED
    BY <1>1, <2>3
<1> QED
  BY <1>2, <1>3

(* Each step of the thread itself keeps what it relies on.                  *)
LEMMA OwnStepKeepsRequest ==
  ASSUME ~Overlap, SaleInv, NEW t \in Threads, Step(t)
  PROVE  RequestInv(t)'
<1>1. /\ pc \in [Threads -> Places]
      /\ frame \in [Threads -> FrameSet]
      /\ delivered \in [Threads -> Seq(MessageSet)]
      /\ tickets \in [Flights -> 0 .. Word - 1]
      /\ message \in MessageSet
      /\ RequestInv(t) /\ ThreadInv(t)
  BY DEF SaleInv, SerialInv, TypeOK
<1>2. /\ frame[t] \in FrameSet /\ frame[t].i \in Flights /\ frame[t].sendBuf \in Seq(MessageSet)
      /\ Asked(t) \in MessageSet
  BY <1>1 DEF FrameSet, Asked
<1>a. \A f \in Flights : f \in Int /\ f >= 1
  BY DEF Flights
<1>3. CASE Start(t) \/ Send(t) \/ End(t)
  <2>1. pc'[t] \in {"recv", "closed"}
    BY <1>1, <1>3 DEF Start, Send, End, Leave, Goto
  <2> QED
    BY <2>1 DEF RequestInv, Copied, Branch, Listed, Idle, Before, Serving
<1>4. CASE Receive(t)
  <2>1. PICK r \in Requests : frame' = [frame EXCEPT ![t] = Frame(r)]
    BY <1>4 DEF Receive
  <2>2. frame'[t].recvBuf = r /\ frame'[t].i = 1 /\ frame'[t].sendBuf = << >>
    BY <1>1, <2>1 DEF Frame
  <2>3. pc'[t] = "init" /\ delivered'[t] = << >>
    BY <1>1, <1>4 DEF Receive, Goto
  <2> QED
    BY <2>2, <2>3 DEF RequestInv, Copied, Branch, Listed, Asked, Before, Serving
<1>5. CASE InitMessage(t)
  <2>1. pc[t] = "init" /\ pc'[t] = "copyHead" /\ UNCHANGED <<frame, delivered>>
    BY <1>1, <1>5 DEF InitMessage, WriteMessage, Goto
  <2> QED
    BY <1>1, <2>1 DEF RequestInv, Copied, Branch, Listed, Asked, Before, Serving, Idle
<1>6. CASE CopyHead(t)
  <2>1. /\ pc[t] = "copyHead" /\ pc'[t] = "copyNum" /\ UNCHANGED <<frame, delivered>>
        /\ message'.type = Asked(t).type /\ message'.flight = Asked(t).flight
    BY <1>1, <1>6 DEF CopyHead, WriteMessage, Goto, Record, Asked
  <2> QED
    BY <1>1, <2>1 DEF RequestInv, Copied, Branch, Listed, Asked, Before, Serving, Idle
<1>7. CASE CopyNum(t)
  <2>1. /\ pc[t] = "copyNum" /\ pc'[t] = "switch" /\ UNCHANGED <<frame, delivered>>
        /\ message' = [message EXCEPT !.num = Asked(t).num]
    BY <1>1, <1>7 DEF CopyNum, WriteMessage, Goto, Asked
  <2>2. message.type = Asked(t).type /\ message.flight = Asked(t).flight
    BY <1>1, <2>1 DEF RequestInv, Copied
  <2>3. message' \in MessageSet /\ message'.num = Asked(t).num
        /\ message'.type = message.type /\ message'.flight = message.flight
    BY <1>1, <1>2, <2>1 DEF MessageSet
  <2>4. message' = Asked(t)
    BY <1>2, <2>2, <2>3, SameRecord
  <2> QED
    BY <1>1, <2>1, <2>4 DEF RequestInv, Copied, Branch, Listed, Asked, Before, Serving, Idle
<1>8. CASE Switch(t)
  <2>1. CASE pc'[t] = "closed"
    BY <2>1 DEF RequestInv, Copied, Branch, Listed, Idle, Before, Serving
  <2>2. CASE pc'[t] # "closed"
    <3>1. /\ pc[t] = "switch" /\ pc'[t] = Label
          /\ frame' = [frame EXCEPT ![t] = [frame[t] EXCEPT !.case = message.type]]
          /\ UNCHANGED <<message, delivered, tickets>>
      BY <1>1, <1>8, <2>2 DEF Switch, Goto, Leave
    <3>2. /\ frame'[t].case = message.type /\ frame'[t].recvBuf = frame[t].recvBuf
          /\ frame'[t].sendBuf = frame[t].sendBuf /\ frame'[t].i = frame[t].i
      BY <1>1, <1>2, <3>1 DEF FrameSet
    <3>3. /\ message = Asked(t) /\ frame[t].i = 1 /\ frame[t].sendBuf = << >>
          /\ Asked(t) \in Requests /\ delivered[t] = << >>
      BY <1>1, <3>1 DEF RequestInv, Copied, Listed, Before, Idle
    <3>4. /\ Label \in {"find", "allHead", "unknown"}
          /\ Label = "find" => message.type \in {"BUY_TICKET", "INQUIRE_ONE"}
          /\ Label = "allHead" => message.type = "INQUIRE_ALL"
          /\ Label = "unknown" => message.type \notin {"BUY_TICKET", "INQUIRE_ONE", "INQUIRE_ALL"}
      BY DEF Label
    <3>5. Len(<< >>) = 0
      OBVIOUS
    <3>6. \A f \in Flights : ~(f < 1)
      BY <1>a
    <3>7. Copied(t)'
      BY <3>1, <3>2, <3>3, <3>4 DEF Copied, Asked, Idle
    <3>8. Branch(t)'
      BY <3>1, <3>2, <3>3, <3>4, <3>6 DEF Branch
    <3>9. Listed(t)'
      BY <3>1, <3>2, <3>3, <3>4, <3>5, <3>6 DEF Listed, Before
    <3> QED
      BY <3>7, <3>8, <3>9 DEF RequestInv
  <2> QED
    BY <2>1, <2>2
<1>9. CASE Find(t)
  <2>1. /\ pc[t] = "find" /\ frame[t].i = message.flight
        /\ pc'[t] = IF frame[t].case = "BUY_TICKET" THEN "check" ELSE "oneType"
        /\ UNCHANGED <<tickets, message, frame, delivered>>
    BY <1>1, <1>9 DEF Find, Goto
  <2> QED
    BY <1>1, <2>1 DEF RequestInv, Copied, Branch, Listed, Asked, Before, Serving, Idle
<1>10. CASE Pass(t)
  <2>1. CASE pc'[t] = "recv"
    BY <2>1 DEF RequestInv, Copied, Branch, Listed, Idle, Before, Serving
  <2>2. CASE pc'[t] # "recv"
    <3>1. /\ pc[t] = "find" /\ pc'[t] = "find" /\ frame[t].i # message.flight
          /\ frame' = [frame EXCEPT ![t] = [frame[t] EXCEPT !.i = frame[t].i + 1]]
          /\ UNCHANGED <<tickets, message, delivered>>
      BY <1>1, <1>10, <2>2 DEF Pass, Goto, Leave
    <3>2. /\ frame'[t].case = frame[t].case /\ frame'[t].recvBuf = frame[t].recvBuf
          /\ frame'[t].sendBuf = frame[t].sendBuf /\ frame'[t].i = frame[t].i + 1
      BY <1>1, <1>2, <3>1 DEF FrameSet
    <3>3. \A f \in Flights : f < frame[t].i + 1 => f < frame[t].i \/ f = frame[t].i
      BY <1>2, <1>a
    <3>4. frame[t].case \in {"BUY_TICKET", "INQUIRE_ONE"}
      BY <1>1, <3>1 DEF RequestInv, Branch
    <3>5. Copied(t)'
      BY <1>1, <3>1, <3>2 DEF RequestInv, Copied, Asked, Idle, Serving
    <3>6. Branch(t)'
      BY <1>1, <3>1, <3>2, <3>3 DEF RequestInv, Branch
    <3>7. Listed(t)'
      BY <1>1, <3>1, <3>2, <3>4 DEF RequestInv, Listed, Before, Serving
    <3> QED
      BY <3>5, <3>6, <3>7 DEF RequestInv
  <2> QED
    BY <2>1, <2>2
<1>11. CASE Check(t)
  <2>1. /\ pc[t] = "check" /\ UNCHANGED <<tickets, message, frame, delivered>>
        /\ pc'[t] = IF Enough(t) THEN "buyType" ELSE "failType"
    BY <1>1, <1>11 DEF Check, Goto
  <2>2. message.flight = frame[t].i
    BY <1>1, <2>1 DEF ThreadInv, Matched
  <2>3. ~Enough(t) => message.num > tickets[frame[t].i]
    <3>1. tickets[frame[t].i] \in Int /\ message.num \in Int
      BY <1>1, <1>2, ConstantTypes DEF MessageSet
    <3> QED
      BY <3>1 DEF Enough
  <2> QED
    BY <1>1, <2>1, <2>2, <2>3
       DEF RequestInv, Copied, Branch, Listed, Asked, Before, Serving, Idle
<1>12. CASE BuyType(t) \/ FailType(t) \/ OneType(t) \/ Unknown(t)
  <2>1. /\ UNCHANGED <<frame, tickets, delivered>>
        /\ message'.flight = message.flight /\ message'.num = message.num
    BY <1>1, <1>12 DEF BuyType, FailType, OneType, Unknown, WriteMessage, MessageSet
  <2>2. \/ pc[t] = "buyType" /\ pc'[t] = "take"
        \/ pc[t] = "failType" /\ pc'[t] = "stock" /\ message'.type = "BUY_FAILED"
        \/ pc[t] = "oneType" /\ pc'[t] = "stock" /\ message'.type = "INQUIRE_SUCCEED"
        \/ pc[t] = "unknown" /\ pc'[t] = "outHead"
    BY <1>1, <1>12 DEF BuyType, FailType, OneType, Unknown, WriteMessage, Goto, MessageSet
  <2>3. Copied(t)'
    BY <1>1, <2>1, <2>2 DEF RequestInv, Copied, Asked, Idle, Serving
  <2>4. Branch(t)'
    BY <1>1, <2>1, <2>2 DEF RequestInv, Copied, Branch, Asked
  <2>5. Listed(t)'
    BY <1>1, <2>1, <2>2 DEF RequestInv, Branch, Listed, Before, Serving, Told
  <2> QED
    BY <2>3, <2>4, <2>5 DEF RequestInv
<1>13. CASE Take(t)
  <2>1. pc[t] = "take" /\ pc'[t] = "outHead" /\ UNCHANGED <<message, delivered>>
    BY <1>1, <1>13 DEF Take, Goto
  <2>2. /\ frame'[t].case = frame[t].case /\ frame'[t].sendBuf = frame[t].sendBuf
        /\ frame'[t].i = frame[t].i /\ frame'[t].recvBuf = frame[t].recvBuf
    BY <1>1, <1>2, <1>13 DEF Take, FrameSet
  <2>3. frame[t].case = "BUY_TICKET"
    BY <1>1, <2>1 DEF RequestInv, Branch
  <2> QED
    BY <1>1, <2>1, <2>2, <2>3
       DEF RequestInv, Copied, Branch, Listed, Asked, Before, Serving, Idle
<1>14. CASE Stock(t)
  <2>1. /\ pc[t] = "stock" /\ pc'[t] = "outHead" /\ UNCHANGED <<tickets, frame, delivered>>
        /\ message' = [message EXCEPT !.num = tickets[frame[t].i]]
    BY <1>1, <1>14 DEF Stock, Goto
  <2>2. frame[t].case = "INQUIRE_ALL"
          => message.type = "INQUIRE_SUCCEED" /\ message.flight = frame[t].i
    BY <1>1, <2>1 DEF RequestInv, Branch
  <2>3. frame[t].case = "INQUIRE_ALL" => message' = Told(frame[t].i)
    BY <1>1, <2>1, <2>2 DEF Told, Record, MessageSet
  <2>4. Copied(t)' /\ Branch(t)'
    BY <1>1, <2>1 DEF RequestInv, Copied, Branch, Asked, Serving, Idle
  <2>5. Listed(t)'
    BY <1>1, <2>1, <2>3 DEF RequestInv, Listed, Before, Serving, Told
  <2> QED
    BY <2>4, <2>5 DEF RequestInv
<1>15. CASE AllHead(t)
  <2>1. /\ pc[t] = "allHead" /\ pc'[t] = "stock" /\ UNCHANGED <<tickets, frame, delivered>>
        /\ message' = Record("INQUIRE_SUCCEED", frame[t].i, message.num)
    BY <1>1, <1>15 DEF AllHead, Goto
  <2>2. message'.type = "INQUIRE_SUCCEED" /\ message'.flight = frame[t].i
    BY <2>1 DEF Record
  <2>3. Copied(t)' /\ Branch(t)'
    BY <1>1, <2>1, <2>2 DEF RequestInv, Copied, Branch, Asked, Serving, Idle
  <2>4. Listed(t)'
    BY <1>1, <2>1 DEF RequestInv, Listed, Before, Serving, Told
  <2> QED
    BY <2>3, <2>4 DEF RequestInv
<1>16. CASE OutHead(t)
  <2>1. /\ pc[t] = "outHead" /\ pc'[t] = "outNum" /\ UNCHANGED <<message, tickets, delivered>>
    BY <1>1, <1>16 DEF OutHead, Goto
  <2>2. /\ frame'[t].case = frame[t].case /\ frame'[t].sendBuf = frame[t].sendBuf
        /\ frame'[t].i = frame[t].i /\ frame'[t].recvBuf = frame[t].recvBuf
    BY <1>1, <1>2, <1>16 DEF OutHead, FrameSet
  <2> QED
    BY <1>1, <2>1, <2>2
       DEF RequestInv, Copied, Branch, Listed, Asked, Before, Serving, Idle, Told
<1>17. CASE OutNum(t)
  <2> DEFINE s == frame[t].sendBuf
             a == OutRecord(t)
  <2>1. /\ pc[t] = "outNum" /\ pc'[t] = IF MoreFlights(t) THEN "allHead" ELSE "send"
        /\ UNCHANGED <<message, tickets, delivered>>
    BY <1>1, <1>17 DEF OutNum, Goto
  <2>2. /\ frame'[t].case = frame[t].case /\ frame'[t].recvBuf = frame[t].recvBuf
        /\ frame'[t].sendBuf = Append(s, a)
        /\ frame'[t].i = IF MoreFlights(t) THEN frame[t].i + 1 ELSE frame[t].i
    BY <1>1, <1>2, <1>17 DEF OutNum, FrameSet
  <2>3. CASE ~MoreFlights(t)
    <3>1. Append(s, a) # << >>
      BY <1>2
    <3> QED
      BY <1>1, <2>1, <2>2, <2>3, <3>1
         DEF RequestInv, Copied, Branch, Listed, Asked, Before, Serving, Idle
  <2>4. CASE MoreFlights(t)
    <3>1. frame[t].case = "INQUIRE_ALL" /\ message = Told(frame[t].i)
      BY <1>1, <2>1, <2>4 DEF MoreFlights, RequestInv, Listed
    <3>2. a = Told(frame[t].i)
      BY <1>1, <2>1, <3>1 DEF ThreadInv, Truthful, OutRecord, Told, Record
    <3>3. Len(s) = frame[t].i - 1 /\ \A f \in Flights : f < frame[t].i => s[f] = Told(f)
      BY <1>1, <2>1, <3>1 DEF RequestInv, Listed, Serving
    <3>4. Len(Append(s, a)) = frame[t].i /\ Append(s, a)[frame[t].i] = a
      BY <1>2, <1>a, <3>3
    <3>5. \A f \in Flights : f < frame[t].i + 1 => Append(s, a)[f] = Told(f)
      <4> SUFFICES ASSUME NEW f \in Flights, f < frame[t].i + 1
                   PROVE  Append(s, a)[f] = Told(f)
        OBVIOUS
      <4>1. CASE f = frame[t].i
        BY <3>2, <3>4, <4>1
      <4>2. CASE f < frame[t].i
        <5>1. f \in 1 .. Len(s)
          BY <1>2, <1>a, <3>3, <4>2
        <5>2. Append(s, a)[f] = s[f]
          BY <1>2, <5>1
        <5> QED
          BY <3>3, <4>2, <5>2
      <4>3. f \in Int /\ frame[t].i \in Int
        BY <1>2, <1>a
      <4>4. f = frame[t].i \/ f < frame[t].i
        BY <4>3
      <4> QED
        BY <4>1, <4>2, <4>4
    <3> HIDE DEF s, a
    <3>6. Copied(t)' /\ Branch(t)'
      BY <1>1, <2>1, <2>2, <2>4, <3>1 DEF RequestInv, Copied, Branch, Asked, Serving, Idle
    <3>7. Listed(t)'
      BY <1>2, <1>a, <2>1, <2>2, <2>4, <3>1, <3>4, <3>5 DEF Listed, Before, Told
    <3> QED
      BY <3>6, <3>7 DEF RequestInv
  <2> QED
    BY <2>3, <2>4
<1> QED
  BY <1>3, <1>4, <1>5, <1>6, <1>7, <1>8, <1>9, <1>10, <1>11, <1>12, <1>13, <1>14, <1>15, <1>16,
     <1>17 DEF Step, Serve
(* All of it together is inductive.                                         *)
LEMMA SaleInductive ==
  ASSUME ~Overlap, SaleInv, [Next]_vars
  PROVE  SaleInv'
<1>0. SerialInv'
  BY SerialInductive DEF SaleInv
<1>1. ASSUME NEW t \in Threads, Step(t) PROVE \A u \in Threads : RequestInv(u)'
  BY <1>1, OwnStepKeepsRequest, OthersKeepRequest
<1>2. CASE UNCHANGED vars
  <2> SUFFICES ASSUME NEW t \in Threads PROVE RequestInv(t)'
    BY <1>0 DEF SaleInv
  <2>1. RequestInv(t) /\ UNCHANGED <<tickets, message, pc, frame, delivered>>
    BY <1>2 DEF vars, SaleInv
  <2> QED
    BY <2>1 DEF RequestInv, Copied, Branch, Listed, Idle, Before, Serving, Asked, Told
<1>3. CASE Reopen
  <2> SUFFICES ASSUME NEW t \in Threads PROVE RequestInv(t)'
    BY <1>0 DEF SaleInv
  <2>1. pc'[t] = "closed"
    BY <1>3 DEF Reopen
  <2> QED
    BY <2>1 DEF RequestInv, Copied, Branch, Listed, Idle, Before, Serving
<1> QED
  BY <1>0, <1>1, <1>2, <1>3 DEF SaleInv, Next, Step

(* No thread serves a request when the server starts.                       *)
LEMMA InitSale == Init => SaleInv
<1> SUFFICES ASSUME Init PROVE SaleInv
  OBVIOUS
<1>1. \A t \in Threads : pc[t] = "closed"
  BY DEF Init
<1> QED
  BY <1>1, InitSerial DEF SaleInv, RequestInv, Copied, Branch, Listed, Idle, Before, Serving

-------------------------------------------------------------------------------
(* The refinement, step by step.                                            *)
Pendings == [t \in Threads |-> Pending(t)]
Decisions == [t \in Threads |-> Decision(t)]

(* What the other threads promise is not touched: an idle thread has        *)
(* decided nothing, and while one is busy the others write neither the      *)
(* message nor its frame.                                                   *)
LEMMA OthersPromise ==
  ASSUME ~Overlap, SaleInv, NEW t \in Threads, NEW u \in Threads \ {t}, Step(t)
  PROVE  Pending(u)' = Pending(u) /\ Decision(u)' = Decision(u)
<1>1. pc'[u] = pc[u] /\ frame'[u] = frame[u]
  BY StepIsLocal DEF SaleInv, SerialInv
<1>2. Pending(u)' = Pending(u)
  BY <1>1 DEF Pending, Idle
<1>3. CASE Idle(u)
  <2>1. Decision(u) = << >>
    BY <1>3 DEF Decision, Idle
  <2>2. Decision(u)' = << >>
    BY <1>1, <1>3 DEF Decision, Idle
  <2> QED
    BY <1>2, <2>1, <2>2
<1>4. CASE ~Idle(u)
  <2>1. Idle(t)
    BY <1>4 DEF SaleInv, SerialInv, AtMostOneBusy
  <2>2. Start(t) \/ End(t)
    BY <1>4, <2>1, ServersAreBusy DEF Step, Receive
  <2>3. UNCHANGED message
    BY <2>2 DEF Start, End
  <2> QED
    BY <1>1, <1>2, <2>3 DEF Decision, MoreFlights
<1> QED
  BY <1>2, <1>3, <1>4

(* A step of t changes what t promises only.                                *)
LEMMA PromisesOfOne ==
  ASSUME ~Overlap, SaleInv, NEW t \in Threads, Step(t)
  PROVE  /\ Pendings' = [Pendings EXCEPT ![t] = Pending(t)']
         /\ Decisions' = [Decisions EXCEPT ![t] = Decision(t)']
         /\ Pendings[t] = Pending(t) /\ Decisions[t] = Decision(t)
         /\ Pending(t)' = Pending(t) => Pendings' = Pendings
         /\ Decision(t)' = Decision(t) => Decisions' = Decisions
<1>1. \A u \in Threads \ {t} : Pending(u)' = Pending(u) /\ Decision(u)' = Decision(u)
  BY OthersPromise
<1> QED
  BY <1>1 DEF Pendings, Decisions

(* The places where a thread has decided nothing.                           *)
LEMMA NothingDecided ==
  ASSUME NEW t \in Threads,
         \/ pc[t] \notin {"outHead", "outNum", "send"}
         \/ pc[t] \in {"outHead", "outNum"} /\ MoreFlights(t)
  PROVE  Decision(t) = << >>
BY DEF Decision

(* What the client is waiting for is the request, which is a request.       *)
LEMMA BusyIsPending ==
  ASSUME SaleInv, NEW t \in Threads, ~Idle(t)
  PROVE  /\ Pending(t) = Asked(t) /\ Asked(t) \in Requests
         /\ Pending(t) # None /\ delivered[t] = << >>
<1>1. Asked(t) \in Requests /\ delivered[t] = << >>
  BY DEF SaleInv, RequestInv, Copied
<1>2. Asked(t).type # "NONE"
  BY <1>1, SaleAssumption
<1>3. None.type = "NONE"
  BY DEF None, Record
<1> QED
  BY <1>1, <1>2, <1>3 DEF Pending, Asked

SaleStutter == UNCHANGED <<tickets, Pendings, Decisions, delivered>>

(* Starting, copying the request, looking for the flight, comparing and     *)
(* writing the type decide nothing yet.                                     *)
LEMMA QuietSteps ==
  ASSUME ~Overlap, SaleInv, NEW t \in Threads,
         \/ Start(t) \/ InitMessage(t) \/ CopyHead(t) \/ CopyNum(t) \/ Find(t) \/ Check(t)
         \/ BuyType(t) \/ FailType(t) \/ OneType(t) \/ AllHead(t)
  PROVE  SaleStutter
<1>1. Step(t) /\ pc \in [Threads -> Places]
  BY DEF Step, Serve, SaleInv, SerialInv, TypeOK
<1>2. UNCHANGED <<tickets, frame, delivered>>
  BY DEF Start, InitMessage, CopyHead, CopyNum, Find, Check, BuyType, FailType, OneType, AllHead,
         WriteMessage
<1>3. \/ Idle(t) /\ pc'[t] = "recv" /\ pc[t] \notin {"outHead", "outNum", "send"}
      \/ /\ pc[t] \in Before \cup {"find", "check", "buyType", "failType", "oneType", "allHead"}
         /\ pc'[t] \in Before \cup {"check", "buyType", "take", "failType", "oneType", "stock"}
  BY <1>1 DEF Start, InitMessage, CopyHead, CopyNum, Find, Check, BuyType, FailType, OneType,
              AllHead, WriteMessage, Goto, Idle, Before
<1>4. Decision(t) = << >> /\ Decision(t)' = << >>
  BY <1>3 DEF Decision, Before
<1>5. Pending(t)' = Pending(t)
  BY <1>2, <1>3 DEF Pending, Idle, Before
<1> QED
  BY <1>1, <1>2, <1>4, <1>5, PromisesOfOne DEF SaleStutter

(* The connection of t is gone, and what was asked with it.                 *)
LEMMA LeavingHangsUp ==
  ASSUME ~Overlap, SaleInv, NEW t \in Threads, Step(t), UNCHANGED tickets,
         NEW place, Leave(t, place, "closed", << >>)
  PROVE  Sale!HangUp(t)
<1>1. pc'[t] = "closed" /\ delivered' = [delivered EXCEPT ![t] = << >>]
  BY DEF Leave, Goto, SaleInv, SerialInv, TypeOK
<1>2. Pending(t)' = None /\ Decision(t)' = << >>
  BY <1>1 DEF Pending, Decision, Idle
<1> QED
  BY <1>1, <1>2, PromisesOfOne
     DEF Sale!HangUp, Sale!None, Sale!Record, None, Record, Sale!Undecided, Pendings, Decisions
(* The type switch: DISCONNECT hangs up, every other label decides nothing. *)
LEMMA SwitchMaps ==
  ASSUME ~Overlap, SaleInv, NEW t \in Threads, Switch(t)
  PROVE  Sale!HangUp(t) \/ SaleStutter
<1>1. Step(t) /\ pc \in [Threads -> Places] /\ frame \in [Threads -> FrameSet]
  BY DEF Step, Serve, SaleInv, SerialInv, TypeOK
<1>2. CASE Leave(t, "switch", "closed", << >>)
  BY <1>1, <1>2, LeavingHangsUp DEF Switch
<1>3. CASE ~Leave(t, "switch", "closed", << >>)
  <2>1. /\ pc[t] = "switch" /\ pc'[t] = Label
        /\ frame' = [frame EXCEPT ![t] = [frame[t] EXCEPT !.case = message.type]]
        /\ UNCHANGED <<tickets, delivered>>
    BY <1>1, <1>3 DEF Switch, Goto
  <2>2. Label \in {"find", "allHead", "unknown"}
    BY DEF Label
  <2>3. frame'[t].recvBuf = frame[t].recvBuf
    BY <1>1, <2>1 DEF FrameSet
  <2>4. Decision(t) = << >> /\ Decision(t)' = << >>
    BY <2>1, <2>2 DEF Decision
  <2>5. Pending(t)' = Pending(t)
    BY <2>1, <2>2, <2>3 DEF Pending, Idle
  <2> QED
    BY <1>1, <2>1, <2>4, <2>5, PromisesOfOne DEF SaleStutter
<1> QED
  BY <1>2, <1>3

(* The loops: the next flight decides nothing, and a request for a flight   *)
(* that is in no ticket_list is ignored after the last.                     *)
LEMMA PassMaps ==
  ASSUME ~Overlap, SaleInv, NEW t \in Threads, Pass(t)
  PROVE  Sale!Ignore(t) \/ SaleStutter
<1>1. /\ Step(t) /\ pc \in [Threads -> Places] /\ frame \in [Threads -> FrameSet]
      /\ delivered \in [Threads -> Seq(MessageSet)] /\ message \in MessageSet
  BY DEF Step, Serve, SaleInv, SerialInv, TypeOK
<1>2. pc[t] = "find" /\ ~Idle(t) /\ UNCHANGED tickets
  BY DEF Pass, Leave, Goto, Idle
<1>3. Decision(t) = << >>
  BY <1>2 DEF Decision
<1>4. CASE frame[t].i = FLIGHT_NUM /\ Leave(t, "find", "recv", << >>)
  <2>1. pc'[t] = "recv" /\ delivered' = [delivered EXCEPT ![t] = << >>]
    BY <1>1, <1>4 DEF Leave, Goto
  <2>2. delivered' = delivered
    BY <1>1, <1>2, <2>1, BusyIsPending
  <2>3. Pending(t)' = None /\ Decision(t)' = << >>
    BY <2>1 DEF Pending, Decision, Idle
  <2>4. /\ Asked(t).type \in {"BUY_TICKET", "INQUIRE_ONE"}
        /\ Asked(t).flight = message.flight
        /\ \A f \in Flights : f < FLIGHT_NUM => f # message.flight
    BY <1>2, <1>4 DEF SaleInv, RequestInv, Copied, Branch, Serving
  <2>5. message.flight # FLIGHT_NUM
    BY <1>4 DEF Pass
  <2>6. Asked(t).flight \notin Flights
    BY <2>4, <2>5, ConstantTypes DEF Flights
  <2>7. Pendings[t] = Asked(t) /\ Pendings[t] # None
    BY <1>1, <1>2, BusyIsPending, PromisesOfOne
  <2>8. ~Sale!Answered(Pendings[t])
    BY <2>4, <2>6, <2>7 DEF Sale!Answered, Sale!Flights, Flights
  <2>9. Decisions' = Decisions /\ Pendings' = [Pendings EXCEPT ![t] = None]
    BY <1>1, <1>3, <2>3, PromisesOfOne
  <2>10. Sale!Ignore(t)
    BY <1>2, <2>2, <2>7, <2>8, <2>9
       DEF Sale!Ignore, Sale!None, Sale!Record, None, Record, Pendings, Decisions
  <2> QED
    BY <2>10
<1>5. CASE ~(frame[t].i = FLIGHT_NUM /\ Leave(t, "find", "recv", << >>))
  <2>1. /\ pc'[t] = "find" /\ UNCHANGED delivered
        /\ frame' = [frame EXCEPT ![t] = [frame[t] EXCEPT !.i = frame[t].i + 1]]
    BY <1>1, <1>5 DEF Pass, Goto
  <2>2. frame'[t].recvBuf = frame[t].recvBuf
    BY <1>1, <2>1 DEF FrameSet
  <2>3. Pending(t)' = Pending(t) /\ Decision(t)' = << >>
    BY <1>2, <2>1, <2>2 DEF Pending, Decision, Idle
  <2> QED
    BY <1>1, <1>2, <1>3, <2>1, <2>3, PromisesOfOne DEF SaleStutter
<1> QED
  BY <1>4, <1>5

(* A thread decides when the message becomes the last record of the answer. *)
LEMMA Deciding ==
  ASSUME ~Overlap, SaleInv, NEW t \in Threads, Step(t), ~Idle(t),
         pc[t] \notin {"outHead", "outNum", "send"}, pc'[t] = "outHead", ~MoreFlights(t)',
         Asked(t)' = Asked(t), UNCHANGED delivered,
         Sale!Answered(Asked(t)),
         Append(frame'[t].sendBuf, message') = Sale!Answer(Asked(t), tickets),
         tickets' = IF Sale!Granted(Asked(t), tickets)
                      THEN [tickets EXCEPT ![Asked(t).flight] = @ - Asked(t).num]
                      ELSE tickets
  PROVE  Sale!Decide(t)
<1>1. Decision(t) = << >>
  BY DEF Decision
<1>2. Decision(t)' = Sale!Answer(Asked(t), tickets)
  BY DEF Decision
<1>3. Pending(t)' = Pending(t) /\ Pending(t) = Asked(t) /\ Asked(t) # None
  BY BusyIsPending DEF Pending, Asked, Idle
<1>4. /\ Pendings[t] = Asked(t) /\ Pendings' = Pendings
      /\ Decisions[t] = << >>
      /\ Decisions' = [Decisions EXCEPT ![t] = Sale!Answer(Asked(t), tickets)]
  BY <1>1, <1>2, <1>3, PromisesOfOne
<1> QED
  BY <1>3, <1>4
     DEF Sale!Decide, Sale!None, Sale!Record, None, Record, Sale!Undecided, Pendings, Decisions

(* An answer of one record.                                                 *)
LEMMA OneRecord ==
  ASSUME NEW m \in MessageSet
  PROVE  Append(<< >>, m) = <<m>> /\ m = Record(m.type, m.flight, m.num)
BY DEF MessageSet, Record

(* The subtraction decides a purchase that was compared with the same       *)
(* stock.                                                                   *)
LEMMA TakeMaps ==
  ASSUME ~Overlap, SaleInv, NEW t \in Threads, Take(t)
  PROVE  Sale!Decide(t)
<1>1. /\ Step(t) /\ pc \in [Threads -> Places] /\ frame \in [Threads -> FrameSet]
      /\ message \in MessageSet /\ tickets \in [Flights -> 0 .. Word - 1]
      /\ RequestInv(t) /\ ThreadInv(t)
  BY DEF Step, Serve, SaleInv, SerialInv, TypeOK
<1>2. pc[t] = "take" /\ pc'[t] = "outHead" /\ UNCHANGED <<message, delivered>>
  BY <1>1 DEF Take, Goto
<1>3. /\ frame'[t].case = frame[t].case /\ frame'[t].sendBuf = frame[t].sendBuf
      /\ frame'[t].recvBuf = frame[t].recvBuf
  BY <1>1 DEF Take, FrameSet
<1> DEFINE f == frame[t].i
<1>4. /\ frame[t].case = "BUY_TICKET" /\ Asked(t).type = "BUY_TICKET"
      /\ Asked(t).flight = message.flight /\ Asked(t).num = message.num
      /\ message.flight = f /\ message.type = "BUY_SUCCEED"
      /\ message.num <= tickets[f] /\ frame[t].sendBuf = << >>
  BY <1>1, <1>2
     DEF RequestInv, Copied, Branch, Listed, Serving, ThreadInv, Matched, BranchType
<1>5. f \in Flights /\ tickets[f] \in 0 .. Word - 1 /\ message.num \in 0 .. Word - 1
  BY <1>1 DEF FrameSet, MessageSet
<1>6. tickets[f] - message.num \in 0 .. Word - 1
  BY <1>4, <1>5, ConstantTypes
<1>7. tickets' = [tickets EXCEPT ![f] = tickets[f] - message.num]
  BY <1>6, ModIdentity DEF Take
<1>8. Sale!Granted(Asked(t), tickets)
  BY <1>4, <1>5 DEF Sale!Granted, Sale!Flights, Flights
<1>9. Sale!Answer(Asked(t), tickets) = <<message>>
  BY <1>1, <1>4, <1>8, OneRecord DEF Sale!Answer, Sale!Record, Record
<1>10. Append(frame'[t].sendBuf, message') = Sale!Answer(Asked(t), tickets)
  BY <1>1, <1>2, <1>3, <1>4, <1>9, OneRecord
<1>11. Sale!Answered(Asked(t))
  BY <1>4, <1>5 DEF Sale!Answered, Sale!Flights, Flights
<1>12. ~MoreFlights(t)' /\ ~Idle(t) /\ Asked(t)' = Asked(t)
  BY <1>2, <1>3, <1>4 DEF MoreFlights, Idle, Asked
<1> QED
  BY <1>1, <1>2, <1>4, <1>7, <1>8, <1>10, <1>11, <1>12, Deciding

(* The records of all flights, once the last is written.                    *)
LEMMA AllTold ==
  ASSUME NEW s \in Seq(MessageSet), tickets \in [Flights -> 0 .. Word - 1],
         Len(s) = FLIGHT_NUM - 1,
         \A f \in Flights : f < FLIGHT_NUM => s[f] = Told(f)
  PROVE  Append(s, Told(FLIGHT_NUM)) = [f \in Flights |-> Told(f)]
<1> DEFINE a == Append(s, Told(FLIGHT_NUM))
<1>1. FLIGHT_NUM \in Flights /\ \A f \in Flights : Told(f) \in MessageSet
  BY ConstantTypes DEF Flights, Told, Record, MessageSet, MessageType
<1>2. /\ a \in Seq(MessageSet) /\ Len(a) = FLIGHT_NUM
      /\ \A f \in 1 .. FLIGHT_NUM - 1 : a[f] = s[f]
      /\ a[FLIGHT_NUM] = Told(FLIGHT_NUM)
  <2>1. a \in Seq(MessageSet) /\ Len(a) = Len(s) + 1 /\ a[Len(s) + 1] = Told(FLIGHT_NUM)
        /\ \A f \in 1 .. Len(s) : a[f] = s[f]
    BY <1>1
  <2>2. Len(s) + 1 = FLIGHT_NUM
    BY ConstantTypes
  <2> QED
    BY <2>1, <2>2
<1> HIDE DEF a
<1>3. \A f \in Flights : a[f] = Told(f)
  <2> SUFFICES ASSUME NEW f \in Flights PROVE a[f] = Told(f)
    OBVIOUS
  <2>1. f = FLIGHT_NUM \/ (f < FLIGHT_NUM /\ f \in 1 .. FLIGHT_NUM - 1)
    BY ConstantTypes DEF Flights
  <2> QED
    BY <1>2, <2>1
<1>4. a = [f \in 1 .. Len(a) |-> a[f]]
  BY <1>2
<1>5. a = [f \in Flights |-> a[f]]
  BY <1>2, <1>4 DEF Flights
<1>6. a = [f \in Flights |-> Told(f)]
  BY <1>3, <1>5
<1> QED
  BY <1>6 DEF a

(* Writing the stock into the message decides a refused purchase, an        *)
(* inquiry, and the last record of an inquiry for all flights; the other    *)
(* records decide nothing.                                                  *)
LEMMA StockMaps ==
  ASSUME ~Overlap, SaleInv, NEW t \in Threads, Stock(t)
  PROVE  Sale!Decide(t) \/ SaleStutter
<1>1. /\ Step(t) /\ pc \in [Threads -> Places] /\ frame \in [Threads -> FrameSet]
      /\ message \in MessageSet /\ tickets \in [Flights -> 0 .. Word - 1]
      /\ RequestInv(t) /\ ThreadInv(t)
  BY DEF Step, Serve, SaleInv, SerialInv, TypeOK
<1>2. pc[t] = "stock" /\ pc'[t] = "outHead" /\ UNCHANGED <<tickets, frame, delivered>>
  BY <1>1 DEF Stock, Goto
<1> DEFINE f == frame[t].i
<1>3. /\ f \in Flights /\ tickets[f] \in 0 .. Word - 1
      /\ frame[t].sendBuf \in Seq(MessageSet) /\ frame[t].recvBuf \in MessageSet
  BY <1>1 DEF FrameSet
<1>4. message'.num = tickets[f] /\ message'.type = message.type
      /\ message'.flight = message.flight /\ message' \in MessageSet
  BY <1>1, <1>3 DEF Stock, MessageSet
<1>5. message' = Record(message.type, f, tickets[f]) /\ frame[t].case = Asked(t).type
  <2>1. message.flight = f /\ frame[t].case = Asked(t).type
    BY <1>1, <1>2 DEF RequestInv, Copied, Branch, Serving
  <2> QED
    BY <1>4, <2>1, OneRecord
<1>6. ~Idle(t) /\ Asked(t)' = Asked(t) /\ MoreFlights(t)' = MoreFlights(t)
  BY <1>2 DEF Idle, Asked, MoreFlights
<1>7. CASE MoreFlights(t)
  <2>1. Decision(t) = << >> /\ Decision(t)' = << >>
    BY <1>2, <1>6, <1>7 DEF Decision
  <2>2. Pending(t)' = Pending(t)
    BY <1>2 DEF Pending, Idle
  <2> QED
    BY <1>1, <1>2, <2>1, <2>2, PromisesOfOne DEF SaleStutter
<1>8. CASE ~MoreFlights(t)
  <2>1. /\ Append(frame[t].sendBuf, message') = Sale!Answer(Asked(t), tickets)
        /\ Sale!Answered(Asked(t)) /\ ~Sale!Granted(Asked(t), tickets)
    <3>1. CASE frame[t].case = "BUY_TICKET"
      <4>1. /\ message.type = "BUY_FAILED" /\ Asked(t).flight = f
            /\ Asked(t).num > tickets[f] /\ frame[t].sendBuf = << >>
        BY <1>1, <1>2, <3>1 DEF RequestInv, Branch, Listed, Serving
      <4>2. Asked(t).num \in 0 .. Word - 1
        BY <1>3 DEF MessageSet, Asked
      <4>3. ~(Asked(t).num <= tickets[f])
        BY <1>3, <4>1, <4>2, ConstantTypes
      <4>4. ~Sale!Granted(Asked(t), tickets)
        BY <4>1, <4>3 DEF Sale!Granted
      <4>5. Sale!Answer(Asked(t), tickets) = <<message'>>
        BY <1>5, <3>1, <4>1, <4>4 DEF Sale!Answer, Sale!Record, Record
      <4>6. Sale!Answered(Asked(t))
        BY <1>3, <4>1 DEF Sale!Answered, Sale!Flights, Flights
      <4> QED
        BY <1>4, <4>1, <4>4, <4>5, <4>6, OneRecord
    <3>2. CASE frame[t].case = "INQUIRE_ONE"
      <4>1. /\ message.type = "INQUIRE_SUCCEED" /\ Asked(t).flight = f
            /\ frame[t].sendBuf = << >>
        BY <1>1, <1>2, <3>2 DEF RequestInv, Branch, Listed, Serving
      <4>2. Sale!Answer(Asked(t), tickets) = <<message'>>
        BY <1>5, <3>2, <4>1 DEF Sale!Answer, Sale!Record, Record
      <4>3. Sale!Answered(Asked(t)) /\ ~Sale!Granted(Asked(t), tickets)
        BY <1>3, <1>5, <3>2, <4>1 DEF Sale!Answered, Sale!Granted, Sale!Flights, Flights
      <4> QED
        BY <1>4, <4>1, <4>2, <4>3, OneRecord
    <3>3. CASE frame[t].case = "INQUIRE_ALL"
      <4>1. f = FLIGHT_NUM
        BY <1>3, <1>8, <3>3, ConstantTypes DEF MoreFlights, Flights
      <4>2. message.type = "INQUIRE_SUCCEED"
        BY <1>1, <1>2, <3>3 DEF RequestInv, Branch
      <4>3. message' = Told(FLIGHT_NUM)
        BY <1>5, <4>1, <4>2 DEF Told
      <4>4. /\ Len(frame[t].sendBuf) = FLIGHT_NUM - 1
            /\ \A g \in Flights : g < FLIGHT_NUM => frame[t].sendBuf[g] = Told(g)
        BY <1>1, <1>2, <3>3, <4>1 DEF RequestInv, Listed, Serving
      <4>5. Append(frame[t].sendBuf, message') = [g \in Flights |-> Told(g)]
        BY <1>1, <1>3, <4>3, <4>4, AllTold
      <4>6. Sale!Answer(Asked(t), tickets) = [g \in Flights |-> Told(g)]
        BY <1>5, <3>3 DEF Sale!Answer, Sale!Record, Sale!Flights, Flights, Told, Record
      <4> QED
        BY <1>5, <3>3, <4>5, <4>6 DEF Sale!Answered, Sale!Granted
    <3> QED
      BY <1>1, <1>2, <3>1, <3>2, <3>3 DEF RequestInv, Branch
  <2> HIDE DEF f
  <2> QED
    BY <1>1, <1>2, <1>6, <1>8, <2>1, Deciding
<1> QED
  BY <1>7, <1>8

(* An unknown request is decided by the type written over it.               *)
LEMMA UnknownMaps ==
  ASSUME ~Overlap, SaleInv, NEW t \in Threads, Unknown(t)
  PROVE  Sale!Decide(t)
<1>1. /\ Step(t) /\ pc \in [Threads -> Places] /\ message \in MessageSet
      /\ RequestInv(t)
  BY DEF Step, Serve, SaleInv, SerialInv, TypeOK
<1>2. /\ pc[t] = "unknown" /\ pc'[t] = "outHead" /\ UNCHANGED <<tickets, frame, delivered>>
      /\ message' = [message EXCEPT !.type = "UNKNOWN_CODE"]
  BY <1>1 DEF Unknown, WriteMessage, Goto
<1>3. /\ Asked(t).type \notin {"BUY_TICKET", "INQUIRE_ONE", "INQUIRE_ALL"}
      /\ frame[t].case = Asked(t).type
      /\ Asked(t).flight = message.flight /\ Asked(t).num = message.num
      /\ frame[t].sendBuf = << >>
  BY <1>1, <1>2 DEF RequestInv, Copied, Branch, Listed, Serving
<1>4. message' \in MessageSet /\ message' = Record("UNKNOWN_CODE", message.flight, message.num)
  BY <1>1, <1>2 DEF MessageSet, MessageType, Record
<1>5. Sale!Answer(Asked(t), tickets) = <<message'>>
  BY <1>3, <1>4 DEF Sale!Answer, Sale!Record, Record
<1>6. Append(frame'[t].sendBuf, message') = Sale!Answer(Asked(t), tickets)
  BY <1>2, <1>3, <1>4, <1>5, OneRecord
<1>7. Sale!Answered(Asked(t)) /\ ~Sale!Granted(Asked(t), tickets)
  BY <1>3 DEF Sale!Answered, Sale!Granted
<1>8. ~Idle(t) /\ ~MoreFlights(t)' /\ Asked(t)' = Asked(t)
  BY <1>2, <1>3 DEF Idle, MoreFlights, Asked
<1> QED
  BY <1>1, <1>2, <1>6, <1>7, <1>8, Deciding

(* Copying the answer out changes nothing about it.                         *)
LEMMA OutMaps ==
  ASSUME ~Overlap, SaleInv, NEW t \in Threads, OutHead(t) \/ OutNum(t)
  PROVE  SaleStutter
<1>1. /\ Step(t) /\ pc \in [Threads -> Places] /\ frame \in [Threads -> FrameSet]
      /\ message \in MessageSet /\ ThreadInv(t) /\ RequestInv(t)
  BY DEF Step, Serve, SaleInv, SerialInv, TypeOK
<1>2. UNCHANGED <<tickets, message, delivered>>
  BY DEF OutHead, OutNum
<1>3. CASE OutHead(t)
  <2>1. pc[t] = "outHead" /\ pc'[t] = "outNum"
    BY <1>1, <1>3 DEF OutHead, Goto
  <2>2. /\ frame'[t].case = frame[t].case /\ frame'[t].sendBuf = frame[t].sendBuf
        /\ frame'[t].i = frame[t].i /\ frame'[t].recvBuf = frame[t].recvBuf
    BY <1>1, <1>3 DEF OutHead, FrameSet
  <2>3. Pending(t)' = Pending(t) /\ MoreFlights(t)' = MoreFlights(t)
    BY <2>1, <2>2 DEF Pending, MoreFlights, Idle
  <2>4. Decision(t)' = Decision(t)
    <3>1. CASE MoreFlights(t)
      BY <2>1, <2>3, <3>1 DEF Decision
    <3>2. CASE ~MoreFlights(t)
      BY <1>2, <2>1, <2>2, <2>3, <3>2 DEF Decision
    <3> QED
      BY <3>1, <3>2
  <2> QED
    BY <1>1, <1>2, <2>3, <2>4, PromisesOfOne DEF SaleStutter
<1>4. CASE OutNum(t)
  <2>1. pc[t] = "outNum" /\ pc'[t] = IF MoreFlights(t) THEN "allHead" ELSE "send"
    BY <1>1, <1>4 DEF OutNum, Goto
  <2>2. /\ frame'[t].recvBuf = frame[t].recvBuf
        /\ frame'[t].sendBuf = Append(frame[t].sendBuf, OutRecord(t))
    BY <1>1, <1>4 DEF OutNum, FrameSet
  <2>3. OutRecord(t) = message
    BY <1>1, <2>1, OneRecord DEF ThreadInv, Truthful, OutRecord
  <2>4. Pending(t)' = Pending(t)
    BY <2>1, <2>2 DEF Pending, Idle
  <2>5. Decision(t)' = Decision(t)
    <3>1. CASE MoreFlights(t)
      BY <2>1, <3>1 DEF Decision
    <3>2. CASE ~MoreFlights(t)
      BY <2>1, <2>2, <2>3, <3>2 DEF Decision
    <3> QED
      BY <3>1, <3>2
  <2> QED
    BY <1>1, <1>2, <2>4, <2>5, PromisesOfOne DEF SaleStutter
<1> QED
  BY <1>3, <1>4

(* The answer that is sent is the one decided.                              *)
LEMMA SendMaps ==
  ASSUME ~Overlap, SaleInv, NEW t \in Threads, Send(t)
  PROVE  Sale!Deliver(t)
<1>1. /\ Step(t) /\ pc \in [Threads -> Places] /\ RequestInv(t)
  BY DEF Step, Serve, SaleInv, SerialInv, TypeOK
<1>2. /\ pc[t] = "send" /\ pc'[t] = "recv" /\ UNCHANGED tickets
      /\ delivered' = [delivered EXCEPT ![t] = frame[t].sendBuf]
  BY <1>1 DEF Send, Leave, Goto
<1>3. Decision(t) = frame[t].sendBuf /\ frame[t].sendBuf # << >>
  BY <1>1, <1>2 DEF Decision, RequestInv, Listed
<1>4. Pending(t)' = None /\ Decision(t)' = << >>
  BY <1>2 DEF Pending, Decision, Idle
<1> QED
  BY <1>1, <1>2, <1>3, <1>4, PromisesOfOne
     DEF Sale!Deliver, Sale!None, Sale!Record, None, Record, Sale!Undecided, Pendings, Decisions

(* A received request is pending.                                           *)
LEMMA ReceiveMaps ==
  ASSUME ~Overlap, SaleInv, NEW t \in Threads, Receive(t)
  PROVE  Sale!Receive(t)
<1>1. Step(t) /\ pc \in [Threads -> Places] /\ frame \in [Threads -> FrameSet]
  BY DEF Step, SaleInv, SerialInv, TypeOK
<1>2. PICK r \in Requests : frame' = [frame EXCEPT ![t] = Frame(r)]
  BY DEF Receive
<1>3. /\ pc[t] = "recv" /\ pc'[t] = "init" /\ UNCHANGED tickets
      /\ delivered' = [delivered EXCEPT ![t] = << >>]
  BY <1>1 DEF Receive, Goto
<1>4. frame'[t].recvBuf = r
  BY <1>1, <1>2 DEF Frame
<1>5. Pending(t) = None /\ Pending(t)' = r
  BY <1>3, <1>4 DEF Pending, Idle
<1>6. Decision(t) = << >> /\ Decision(t)' = << >>
  BY <1>3 DEF Decision
<1>7. /\ Pendings[t] = None /\ Pendings' = [Pendings EXCEPT ![t] = r]
      /\ Decisions' = Decisions
  BY <1>1, <1>5, <1>6, PromisesOfOne
<1> QED
  BY <1>3, <1>7 DEF Sale!Receive, Sale!None, Sale!Record, None, Record, Pendings, Decisions

(* A server opened again has all its seats.                                 *)
LEMMA ReopenMaps ==
  ASSUME Reopen
  PROVE  Sale!Reopen
<1>1. \A t \in Threads : Pending(t) = None
  BY DEF Reopen, Pending, Idle
<1>2. \A t \in Threads : Pending(t)' = Pending(t) /\ Decision(t)' = Decision(t)
  BY DEF Reopen, Pending, Decision, Idle, MoreFlights
<1>3. Pendings' = Pendings /\ Decisions' = Decisions /\ \A t \in Threads : Pendings[t] = None
  BY <1>1, <1>2 DEF Pendings, Decisions
<1> QED
  BY <1>3 DEF Reopen, Sale!Reopen, Sale!None, Sale!Record, None, Record, Sale!Flights, Flights,
              Pendings, Decisions

(* Every step of the service threads is a step of AtomicSale or none.       *)
LEMMA SaleStep ==
  ASSUME ~Overlap, SaleInv, [Next]_vars
  PROVE  Sale!Next \/ SaleStutter
<1>1. ASSUME NEW t \in Threads, Step(t) PROVE Sale!Next \/ SaleStutter
  <2>1. CASE End(t)
    <3>1. Sale!HangUp(t)
      BY <1>1, <2>1, LeavingHangsUp DEF End
    <3> QED
      BY <3>1 DEF Sale!Next
  <2>2. CASE Receive(t)
    BY <2>2, ReceiveMaps DEF Sale!Next
  <2>3. CASE Switch(t)
    BY <2>3, SwitchMaps DEF Sale!Next
  <2>4. CASE Pass(t)
    BY <2>4, PassMaps DEF Sale!Next
  <2>5. CASE Take(t)
    BY <2>5, TakeMaps DEF Sale!Next
  <2>6. CASE Stock(t)
    BY <2>6, StockMaps DEF Sale!Next
  <2>7. CASE Unknown(t)
    BY <2>7, UnknownMaps DEF Sale!Next
  <2>8. CASE OutHead(t) \/ OutNum(t)
    BY <2>8, OutMaps
  <2>9. CASE Send(t)
    BY <2>9, SendMaps DEF Sale!Next
  <2>10. CASE \/ Start(t) \/ InitMessage(t) \/ CopyHead(t) \/ CopyNum(t) \/ Find(t)
              \/ Check(t) \/ BuyType(t) \/ FailType(t) \/ OneType(t) \/ AllHead(t)
    BY <2>10, QuietSteps
  <2> QED
    BY <1>1, <2>1, <2>2, <2>3, <2>4, <2>5, <2>6, <2>7, <2>8, <2>9, <2>10 DEF Step, Serve
<1>2. CASE Reopen
  BY <1>2, ReopenMaps DEF Sale!Next
<1>3. CASE UNCHANGED vars
  <2>1. \A t \in Threads : Pending(t)' = Pending(t) /\ Decision(t)' = Decision(t)
    BY <1>3 DEF vars, Pending, Decision, Idle, MoreFlights
  <2> QED
    BY <1>3, <2>1 DEF vars, SaleStutter, Pendings, Decisions
<1> QED
  BY <1>1, <1>2, <1>3 DEF Next, Step

(* Served one at a time, requests are decided in one step, from the seats   *)
(* left then, and answered with that decision, for any number of threads,   *)
(* flights and seats: service_thread as a whole keeps the server's promise. *)
THEOREM SerialSaleIsAtomic ==
  ASSUME ~Overlap
  PROVE  Spec => ImplementsAtomicSale
<1>1. Init => Sale!Init
  <2> SUFFICES ASSUME Init PROVE Sale!Init
    OBVIOUS
  <2>1. \A t \in Threads : Pending(t) = None /\ Decision(t) = << >>
    BY DEF Init, Pending, Decision, Idle
  <2> QED
    BY <2>1 DEF Init, Sale!Init, Sale!None, Sale!Record, None, Record, Sale!Flights, Flights,
                Sale!Undecided
<1>2. SaleInv /\ [Next]_vars => [Sale!Next]_<<tickets, Pendings, Decisions, delivered>>
  BY SaleStep DEF SaleStutter
<1>3. SaleInv /\ [Next]_vars => SaleInv'
  BY SaleInductive
<1> QED
  BY InitSale, <1>1, <1>2, <1>3, PTL
     DEF Spec, ImplementsAtomicSale, Sale!Spec, Sale!vars, Pendings, Decisions
===============================================================================
