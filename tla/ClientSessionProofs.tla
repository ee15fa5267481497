-------------------------- MODULE ClientSessionProofs --------------------------
(***************************************************************************)
(* Theorems about ClientSession: what a user is shown for a request, for   *)
(* any number of requests, seats and flights.                              *)
(***************************************************************************)
EXTENDS ClientSession, SequenceTheorems, TLAPS

RecordSet == [of : 1 .. MaxClicks, type : Types]
NoticeSet == [n : 1 .. MaxClicks, of : 0 .. MaxClicks, says : Says, afterTimeout : BOOLEAN]

(* A handler only waits while the client is connected.                      *)
TypeInv == TypeOK /\ (waiting # NoRequest => isconnected /\ waiting.n = clicks)

(* The elements of two sequences put together, and of one without its head. *)
LEMMA JoinedElements ==
  ASSUME NEW S, NEW a \in Seq(S), NEW b \in Seq(S)
  PROVE  /\ a \o b \in Seq(S)
         /\ \A i \in DOMAIN a : i \in DOMAIN (a \o b) /\ (a \o b)[i] = a[i]
         /\ \A i \in DOMAIN (a \o b) :
              \/ i \in DOMAIN a /\ (a \o b)[i] = a[i]
              \/ \E j \in DOMAIN b : i = Len(a) + j /\ (a \o b)[i] = b[j]
<1>1. /\ Len(a) \in Nat /\ Len(b) \in Nat /\ DOMAIN a = 1 .. Len(a) /\ DOMAIN b = 1 .. Len(b)
      /\ a \o b \in Seq(S) /\ Len(a \o b) = Len(a) + Len(b)
      /\ DOMAIN (a \o b) = 1 .. Len(a) + Len(b)
  BY ConcatProperties, LenProperties
<1>2. \A i \in 1 .. Len(a) + Len(b) : (a \o b)[i] = IF i <= Len(a) THEN a[i] ELSE b[i - Len(a)]
  BY ConcatProperties
<1>3. \A i \in DOMAIN a : i \in DOMAIN (a \o b) /\ (a \o b)[i] = a[i]
  BY <1>1, <1>2
<1>4. ASSUME NEW i \in DOMAIN (a \o b), i \notin DOMAIN a
      PROVE  \E j \in DOMAIN b : i = Len(a) + j /\ (a \o b)[i] = b[j]
  <2>1. i - Len(a) \in DOMAIN b /\ (a \o b)[i] = b[i - Len(a)]
    BY <1>1, <1>2, <1>4
  <2> QED
    BY <1>1, <2>1
<1> QED
  BY <1>1, <1>3, <1>4

(* What is left of a sequence without its head.                            *)
LEMMA TailElements ==
  ASSUME NEW S, NEW s \in Seq(S), s # << >>
  PROVE  /\ Tail(s) \in Seq(S) /\ Head(s) \in S /\ Head(s) = s[1] /\ 1 \in DOMAIN s
         /\ \A i \in DOMAIN Tail(s) : i + 1 \in DOMAIN s /\ Tail(s)[i] = s[i + 1] /\ i + 1 > 1
         /\ Len(s) <= 1 => Tail(s) = << >>
<1>1. /\ Head(s) \in S /\ Tail(s) \in Seq(S) /\ Len(Tail(s)) = Len(s) - 1
      /\ \A i \in 1 .. Len(Tail(s)) : Tail(s)[i] = s[i + 1]
  BY HeadTailProperties
<1>2. /\ Len(s) \in Nat \ {0} /\ DOMAIN s = 1 .. Len(s)
      /\ DOMAIN Tail(s) = 1 .. Len(s) - 1
  BY <1>1, EmptySeq, LenProperties
<1>3. Len(s) <= 1 => Len(Tail(s)) = 0
  BY <1>1, <1>2
<1>4. Len(Tail(s)) = 0 => Tail(s) = << >>
  BY <1>1, EmptySeq
<1> QED
  BY <1>1, <1>2, <1>3, <1>4

(* The answer to a request: its number is in each record, and only a sale   *)
(* is answered by BUY_SUCCEED.                                              *)
LEMMA Answers ==
  ASSUME NEW r \in Requests
  PROVE  /\ AnswerTo(r) \in Seq(RecordSet)
         /\ \A i \in DOMAIN AnswerTo(r) :
              /\ AnswerTo(r)[i].of = r.n
              /\ AnswerTo(r)[i].type = "BUY_SUCCEED" =>
                   Sells(r) /\ \A j \in DOMAIN AnswerTo(r) : j = i
         /\ r.kind = "BUY_TICKET" => Len(AnswerTo(r)) = 1
         /\ Len(AnswerTo(r)) >= 1
<1>0. r.n \in 1 .. MaxClicks /\ r.kind \in Kinds
  BY DEF Requests
<1>1. \A type \in Types : <<Record(r.n, type)>> \in Seq(RecordSet)
  BY <1>0 DEF Record, RecordSet
<1>2. CASE r.kind = "BUY_TICKET"
  <2>1. AnswerTo(r) = <<Record(r.n, IF Sells(r) THEN "BUY_SUCCEED" ELSE "BUY_FAILED")>>
    BY <1>2 DEF AnswerTo
  <2>2. (IF Sells(r) THEN "BUY_SUCCEED" ELSE "BUY_FAILED") \in Types
    BY DEF Types
  <2>3. AnswerTo(r) \in Seq(RecordSet)
    BY <1>1, <2>1, <2>2
  <2> QED
    BY <2>1, <2>3 DEF Record
<1>3. CASE r.kind = "INQUIRE_ONE"
  <2>1. AnswerTo(r) = <<Record(r.n, "INQUIRE_SUCCEED")>>
    BY <1>3 DEF AnswerTo
  <2> QED
    BY <1>1, <1>3, <2>1 DEF Record, Types
<1>4. CASE r.kind = "INQUIRE_ALL"
  <2>1. AnswerTo(r) = [f \in 1 .. FLIGHT_NUM |-> Record(r.n, "INQUIRE_SUCCEED")]
    BY <1>4 DEF AnswerTo
  <2>2. Record(r.n, "INQUIRE_SUCCEED") \in RecordSet
    BY <1>0 DEF Record, RecordSet, Types
  <2>3. FLIGHT_NUM \in Nat /\ FLIGHT_NUM >= 1
    BY SessionAssumption
  <2>4. AnswerTo(r) \in Seq(RecordSet)
    BY <2>1, <2>2, <2>3
  <2>5. Len(AnswerTo(r)) = FLIGHT_NUM
    BY <2>1, <2>3
  <2>6. \A i \in DOMAIN AnswerTo(r) : AnswerTo(r)[i].of = r.n
                                      /\ AnswerTo(r)[i].type # "BUY_SUCCEED"
    BY <2>1 DEF Record
  <2> QED
    BY <1>4, <2>3, <2>4, <2>5, <2>6
<1> QED
  BY <1>0, <1>2, <1>3, <1>4 DEF Kinds

(* What a handler that returns from recv has done: notice j, if it is made  *)
(* of a received record, is made of record j of the stream; if it is not,   *)
(* recv failed or found a closed connection; and only the handler of a      *)
(* purchase leaves records in the stream, all but the first.                *)
Told(notices) ==
  /\ waiting \in Requests /\ waiting' = NoRequest
  /\ shown' = shown \o notices
  /\ UNCHANGED <<isconnected, open, up, clicks, sale>>
  /\ \A j \in DOMAIN notices :
       /\ notices[j].n = waiting.n /\ notices[j].afterTimeout = late
       /\ notices[j].of # Garbage =>
            /\ j \in DOMAIN down /\ notices[j].of = down[j].of
            /\ notices[j].says = "bought" => down[j].type = "BUY_SUCCEED"
       /\ notices[j].of = Garbage =>
            notices[j].says = "accept failed" \/ (down = << >> /\ ~open)
  /\ \/ down' = << >>
     \/ /\ down # << >> /\ down' = Tail(down)
        /\ waiting.kind = "BUY_TICKET" /\ DOMAIN notices = {1}
  /\ (late' = late /\ (down # << >> \/ ~open)) \/ late' = TRUE

(* Every handler tells what it received in this way.                        *)
LEMMA RecvTells ==
  ASSUME TypeInv, Recv
  PROVE  \E notices \in Seq(NoticeSet) : Told(notices)
<1>0. /\ down \in Seq(RecordSet) /\ late \in BOOLEAN
      /\ waiting \in Requests \cup {NoRequest}
      /\ Len(down) \in Nat /\ DOMAIN down = 1 .. Len(down)
  BY LenProperties DEF TypeInv, TypeOK, RecordSet
<1>w. ASSUME waiting.kind \in Kinds PROVE waiting \in Requests /\ waiting.n \in 1 .. MaxClicks
  BY <1>0, <1>w DEF Requests, NoRequest, Request, Kinds
<1>1. ASSUME NEW of \in 0 .. MaxClicks, NEW says \in Says, waiting.kind \in Kinds
      PROVE  Notice(of, says) \in NoticeSet /\ <<Notice(of, says)>> \in Seq(NoticeSet)
  BY <1>0, <1>1, <1>w DEF Notice, NoticeSet
<1>2. \A of, says : /\ DOMAIN <<Notice(of, says)>> = {1}
                    /\ <<Notice(of, says)>>[1] = Notice(of, says)
                    /\ Notice(of, says).n = waiting.n /\ Notice(of, says).afterTimeout = late
                    /\ Notice(of, says).of = of /\ Notice(of, says).says = says
  BY DEF Notice
<1>3. ASSUME NEW of \in 0 .. MaxClicks, NEW says \in Says, NEW kind \in Kinds,
             Return(kind, <<Notice(of, says)>>),
             of # Garbage => /\ down # << >> /\ of = down[1].of
                             /\ says = "bought" => down[1].type = "BUY_SUCCEED",
             of = Garbage => says = "accept failed" \/ (down = << >> /\ ~open),
             \/ down' = << >>
             \/ down # << >> /\ down' = Tail(down) /\ waiting.kind = "BUY_TICKET",
             (late' = late /\ (down # << >> \/ ~open)) \/ late' = TRUE
      PROVE  \E notices \in Seq(NoticeSet) : Told(notices)
  <2>1. waiting.kind \in Kinds /\ waiting \in Requests
    BY <1>3, <1>w DEF Return
  <2>2. down # << >> => 1 \in DOMAIN down
    BY <1>0, TailElements
  <2>3. \A j \in DOMAIN <<Notice(of, says)>> :
          j = 1 /\ <<Notice(of, says)>>[j] = Notice(of, says)
    BY <1>2
  <2>4. ASSUME NEW j \in DOMAIN <<Notice(of, says)>>, NEW x, x = <<Notice(of, says)>>[j]
        PROVE  /\ x.n = waiting.n /\ x.afterTimeout = late
               /\ x.of # Garbage => /\ j \in DOMAIN down /\ x.of = down[j].of
                                    /\ x.says = "bought" => down[j].type = "BUY_SUCCEED"
               /\ x.of = Garbage => x.says = "accept failed" \/ (down = << >> /\ ~open)
    <3>1. x = Notice(of, says) /\ j = 1
      BY <2>3, <2>4
    <3>2. x.n = waiting.n /\ x.afterTimeout = late /\ x.of = of /\ x.says = says
      BY <1>2, <3>1
    <3> QED
      BY <1>3, <2>2, <3>1, <3>2
  <2>5. Told(<<Notice(of, says)>>)
    BY <1>2, <1>3, <2>1, <2>4 DEF Told, Return
  <2> QED
    BY <1>1, <2>1, <2>5
<1>h. /\ down # << >> => /\ Head(down) = down[1]
                          /\ down[1].of \in 1 .. MaxClicks /\ down[1].of # Garbage
      /\ \A k \in 1 .. Len(down) : down[k].of # Garbage
  <2>1. down # << >> => Head(down) = down[1] /\ Head(down) \in RecordSet
    BY <1>0, TailElements
  <2>2. \A k \in 1 .. Len(down) : down[k] \in RecordSet
    BY <1>0, ElementOfSeq
  <2>3. \A x \in RecordSet : x.of \in 1 .. MaxClicks /\ x.of # Garbage
    BY DEF RecordSet, Garbage
  <2> QED
    BY <2>1, <2>2, <2>3
<1>n. 0 \in 0 .. MaxClicks /\ 1 .. MaxClicks \subseteq 0 .. MaxClicks
  BY SessionAssumption
<1>4. CASE ReadBuy
  <2>1. BuySays(Head(down).type) \in Says
        /\ (BuySays(Head(down).type) = "bought" => Head(down).type = "BUY_SUCCEED")
    BY DEF BuySays, Says
  <2> QED
    BY <1>4, <1>3, <1>h, <1>n, <2>1 DEF ReadBuy, Kinds, Return
<1>5. CASE ReadOne
  <2>1. InquireSays(Head(down).type) \in Says /\ InquireSays(Head(down).type) # "bought"
    BY DEF InquireSays, Says
  <2> QED
    BY <1>5, <1>3, <1>h, <1>n, <2>1 DEF ReadOne, Kinds, Return
<1>6. CASE ReadAll
  <2> DEFINE notices == [k \in DOMAIN down |-> Notice(down[k].of, "stock")]
  <2>1. waiting.kind \in Kinds /\ waiting \in Requests
    BY <1>6, <1>w DEF ReadAll, Return, Kinds
  <2>2. \A k \in 1 .. Len(down) : Notice(down[k].of, "stock") \in NoticeSet
    <3>1. ASSUME NEW k \in 1 .. Len(down) PROVE Notice(down[k].of, "stock") \in NoticeSet
      <4>1. down[k] \in RecordSet
        BY <1>0, ElementOfSeq
      <4>2. down[k].of \in 0 .. MaxClicks
        BY <1>n, <4>1 DEF RecordSet
      <4> QED
        BY <1>1, <2>1, <4>2 DEF Says
    <3> QED
      BY <3>1
  <2>3. notices \in Seq(NoticeSet) /\ DOMAIN notices = DOMAIN down
    BY <1>0, <2>2
  <2>4. \A j \in DOMAIN notices : notices[j] = Notice(down[j].of, "stock")
    OBVIOUS
  <2>5. Told(notices)
    <3> HIDE DEF notices
    <3>1. shown' = shown \o notices /\ waiting' = NoRequest
          /\ UNCHANGED <<isconnected, open, up, clicks, sale>>
      BY <1>6 DEF ReadAll, Return, notices
    <3>2. down' = << >> /\ late' = late /\ down # << >>
      BY <1>6 DEF ReadAll
    <3>3. ASSUME NEW j \in DOMAIN notices
          PROVE  /\ notices[j].n = waiting.n /\ notices[j].afterTimeout = late
                 /\ j \in DOMAIN down /\ notices[j].of = down[j].of /\ notices[j].says # "bought"
                 /\ notices[j].of # Garbage
      <4>1. notices[j] = Notice(down[j].of, "stock") /\ j \in DOMAIN down
        BY <2>3, <2>4
      <4> QED
        BY <1>0, <1>2, <1>h, <4>1
    <3> QED
      BY <2>1, <3>1, <3>2, <3>3 DEF Told
  <2> QED
    BY <2>3, <2>5
<1>7. CASE ReadNothing
  <2>1. CASE Return("INQUIRE_ALL", << >>)
    <3>1. waiting.kind \in Kinds /\ waiting \in Requests
      BY <2>1, <1>w DEF Return, Kinds
    <3>2. Told(<< >>)
      BY <1>7, <2>1, <3>1 DEF Told, ReadNothing, Return
    <3>3. << >> \in Seq(NoticeSet)
      OBVIOUS
    <3> QED
      BY <3>2, <3>3
  <2>2. ASSUME NEW kind \in Kinds, NEW says \in Says, Return(kind, <<Notice(Garbage, says)>>)
        PROVE  \E notices \in Seq(NoticeSet) : Told(notices)
    BY <1>3, <1>7, <1>n, <2>2 DEF ReadNothing, Garbage
  <2> QED
    BY <1>7, <2>1, <2>2 DEF ReadNothing, Kinds, Says
<1>8. CASE Timeout
  <2>1. PICK kind \in Kinds : Return(kind, <<Notice(Garbage, "accept failed")>>)
    BY <1>8 DEF Timeout
  <2> QED
    BY <1>3, <1>8, <1>n, <2>1 DEF Timeout, Garbage, Says
<1> QED
  BY <1>4, <1>5, <1>6, <1>7, <1>8 DEF Recv

(* The types hold before the client connects.                               *)
LEMMA InitTypes == Init => TypeInv
<1> SUFFICES ASSUME Init PROVE TypeInv
  OBVIOUS
<1>1. isconnected \in BOOLEAN /\ open \in BOOLEAN /\ late \in BOOLEAN
  BY DEF Init
<1>2. clicks \in 0 .. MaxClicks /\ seats \in 0 .. SEATS /\ sold \subseteq 1 .. MaxClicks
      /\ waiting = NoRequest /\ answered = {}
  BY SessionAssumption DEF Init
<1>3. up = << >> /\ down = << >> /\ shown = << >>
  BY DEF Init
<1> QED
  BY <1>1, <1>2, <1>3 DEF TypeInv, TypeOK

(* They are kept by every step.                                             *)
LEMMA TypeInductive ==
  ASSUME TypeInv, [Next]_vars
  PROVE  TypeInv'
<1> USE DEF user, sale
<1>0. /\ isconnected \in BOOLEAN /\ open \in BOOLEAN /\ late \in BOOLEAN
      /\ up \in Seq(Requests) /\ down \in Seq(RecordSet) /\ shown \in Seq(NoticeSet)
      /\ clicks \in 0 .. MaxClicks /\ MaxClicks \in Nat /\ SEATS \in Nat
      /\ waiting \in Requests \cup {NoRequest}
      /\ seats \in 0 .. SEATS /\ sold \subseteq 1 .. MaxClicks
      /\ answered \subseteq 1 .. MaxClicks
  BY SessionAssumption DEF TypeInv, TypeOK, RecordSet, NoticeSet
<1>s. ASSUME isconnected' \in BOOLEAN, open' \in BOOLEAN, late' \in BOOLEAN,
             up' \in Seq(Requests), down' \in Seq(RecordSet), shown' \in Seq(NoticeSet),
             clicks' \in 0 .. MaxClicks, waiting' \in Requests \cup {NoRequest},
             seats' \in 0 .. SEATS, sold' \subseteq 1 .. MaxClicks,
             answered' \subseteq 1 .. MaxClicks,
             waiting' # NoRequest => isconnected' /\ waiting'.n = clicks'
      PROVE  TypeInv'
  BY <1>s DEF TypeInv, TypeOK, RecordSet, NoticeSet
<1>w. waiting # NoRequest => isconnected /\ waiting.n = clicks
  BY DEF TypeInv
<1>e. << >> \in Seq(Requests) /\ << >> \in Seq(RecordSet)
  OBVIOUS
<1>1. CASE Connect \/ Disconnect \/ ServerClose
  <2>1. isconnected' \in BOOLEAN /\ open' \in BOOLEAN /\ late' \in BOOLEAN
    BY <1>0, <1>1 DEF Connect, Disconnect, ServerClose
  <2>2. up' \in Seq(Requests) /\ down' \in Seq(RecordSet)
    BY <1>0, <1>1, <1>e DEF Connect, Disconnect, ServerClose
  <2>3. /\ UNCHANGED <<user, sale, shown>>
        /\ waiting' # NoRequest => isconnected'
    BY <1>w, <1>1 DEF Connect, Disconnect, ServerClose
  <2> QED
    BY <1>0, <1>s, <1>w, <2>1, <2>2, <2>3
<1>2. ASSUME NEW kind \in Kinds, Click(kind) PROVE TypeInv'
  <2> DEFINE r == Request(clicks + 1, kind)
  <2>1. clicks + 1 \in 1 .. MaxClicks
    BY <1>0, <1>2 DEF Click
  <2>2. r \in Requests /\ r.n = clicks + 1
    BY <2>1 DEF Requests, Request
  <2>3. up' \in Seq(Requests)
    BY <1>0, <1>2, <2>2, AppendProperties DEF Click
  <2>4. clicks' = clicks + 1 /\ waiting' = r
    BY <1>2 DEF Click
  <2> HIDE DEF r
  <2> QED
    BY <1>0, <1>2, <1>s, <2>1, <2>2, <2>3, <2>4 DEF Click
<1>3. ASSUME NEW kind \in Kinds, SendFails(kind) PROVE TypeInv'
  <2> DEFINE x == [n |-> clicks + 1, of |-> Garbage, says |-> "send failed", afterTimeout |-> late]
  <2>c. clicks < MaxClicks /\ clicks' = clicks + 1
    BY <1>3 DEF SendFails
  <2>1. clicks + 1 \in 1 .. MaxClicks /\ clicks' \in 0 .. MaxClicks
    BY <1>0, <2>c
  <2>g. Garbage \in 0 .. MaxClicks /\ "send failed" \in Says
    BY <1>0 DEF Says, Garbage
  <2>2. x \in NoticeSet
    BY <1>0, <2>1, <2>g DEF NoticeSet
  <2>3. shown' = Append(shown, x)
    BY <1>3 DEF SendFails
  <2>4. shown' \in Seq(NoticeSet)
    BY <1>0, <2>2, <2>3, AppendProperties
  <2>5. UNCHANGED <<isconnected, open, up, down, waiting, sale, late>> /\ waiting = NoRequest
    BY <1>3 DEF SendFails
  <2> QED
    BY <1>0, <1>s, <2>1, <2>4, <2>5
<1>d. ASSUME NEW r \in Requests, Decide(r)
      PROVE  seats' \in 0 .. SEATS /\ sold' \subseteq 1 .. MaxClicks
  <2>1. r.n \in 1 .. MaxClicks
    BY DEF Requests
  <2>2. /\ seats' = IF Sells(r) THEN seats - 1 ELSE seats
        /\ sold' = IF Sells(r) THEN sold \cup {r.n} ELSE sold
    BY <1>d DEF Decide
  <2>3. CASE Sells(r)
    <3>1. seats - 1 \in 0 .. SEATS
      BY <1>0, <2>3 DEF Sells
    <3> QED
      BY <1>0, <2>1, <2>2, <2>3, <3>1
  <2>4. CASE ~Sells(r)
    BY <1>0, <2>2, <2>4
  <2> QED
    BY <2>3, <2>4
<1>4. CASE Handle
  <2> DEFINE r == Head(up)
  <2>0. r \in Requests /\ up' \in Seq(Requests)
    BY <1>0, <1>4, TailElements DEF Handle
  <2>1. r.n \in 1 .. MaxClicks
    BY <2>0 DEF Requests
  <2>2. seats' \in 0 .. SEATS /\ sold' \subseteq 1 .. MaxClicks
    BY <1>4, <1>d, <2>0 DEF Handle
  <2>3. down' \in Seq(RecordSet) /\ answered' \subseteq 1 .. MaxClicks
    <3>1. AnswerTo(r) \in Seq(RecordSet)
      BY <2>0, Answers
    <3>2. down' \in Seq(RecordSet)
      BY <1>0, <1>4, <3>1, ConcatProperties DEF Handle
    <3>3. answered' \in {answered, answered \cup {r.n}}
      BY <1>4 DEF Handle
    <3> HIDE DEF r
    <3> QED
      BY <1>0, <2>1, <3>2, <3>3
  <2> QED
    BY <1>0, <1>4, <1>s, <1>w, <2>0, <2>2, <2>3 DEF Handle
<1>7. CASE HangUp
  <2>1. Head(up) \in Requests
    BY <1>0, <1>7, TailElements DEF HangUp
  <2>2. seats' \in 0 .. SEATS /\ sold' \subseteq 1 .. MaxClicks
    BY <1>7, <1>d, <2>1 DEF HangUp
  <2> QED
    BY <1>0, <1>7, <1>e, <1>s, <1>w, <2>2 DEF HangUp
<1>5. CASE Recv
  <2>1. PICK notices \in Seq(NoticeSet) : Told(notices)
    BY <1>5, RecvTells
  <2>2. shown' \in Seq(NoticeSet)
    BY <1>0, <2>1, ConcatProperties DEF Told
  <2>t. down # << >> => Tail(down) \in Seq(RecordSet)
    BY <1>0, TailElements
  <2>3. down' \in Seq(RecordSet)
    BY <1>0, <1>e, <2>1, <2>t DEF Told
  <2>4. late' \in BOOLEAN
    BY <1>0, <2>1 DEF Told
  <2> QED
    BY <1>0, <1>s, <2>1, <2>2, <2>3, <2>4 DEF Told
<1>6. CASE Finished \/ UNCHANGED vars
  BY <1>0, <1>6, <1>s, <1>w DEF Finished, vars
<1> QED
  BY <1>1, <1>2, <1>3, <1>4, <1>5, <1>6, <1>7 DEF Next

(* Every variable keeps its type, also after answers that came too late.    *)
THEOREM TypeCorrect == Spec => []TypeOK
<1>1. TypeInv => TypeOK
  BY DEF TypeInv
<1> QED
  BY InitTypes, TypeInductive, <1>1, PTL DEF Spec

-------------------------------------------------------------------------------
(* The order of the requests.  Their numbers grow from what was shown over  *)
(* the records on their way to the requests the server has not taken.       *)
OrderInv ==
  /\ TypeInv
  /\ \A j \in DOMAIN up : up[j].n <= clicks
  /\ \A i, j \in DOMAIN up : i < j => up[i].n < up[j].n
  /\ \A i \in DOMAIN down : down[i].of <= clicks
  /\ \A i \in DOMAIN down, j \in DOMAIN up : down[i].of < up[j].n
  /\ \A i, j \in DOMAIN down : i < j => down[i].of <= down[j].of
  /\ \A k \in Received : shown[k].of <= clicks
  /\ \A k \in Received, i \in DOMAIN down : shown[k].of <= down[i].of
  /\ \A k \in Received, j \in DOMAIN up : shown[k].of < up[j].n
  /\ AnswersInOrder

(* The numbers are numbers.                                                 *)
LEMMA Numbers ==
  ASSUME NEW a \in Seq(Requests), NEW b \in Seq(RecordSet), NEW c \in Seq(NoticeSet)
  PROVE  /\ DOMAIN a \subseteq Nat /\ DOMAIN b \subseteq Nat /\ DOMAIN c \subseteq Nat
         /\ \A j \in DOMAIN a : a[j] \in Requests /\ a[j].n \in Nat
         /\ \A i \in DOMAIN b : b[i] \in RecordSet /\ b[i].of \in Nat \ {0}
         /\ \A k \in DOMAIN c : c[k] \in NoticeSet /\ c[k].of \in Nat /\ c[k].n \in Nat
<1>0. MaxClicks \in Nat
  BY SessionAssumption
<1>1. /\ \A j \in DOMAIN a : a[j] \in Requests /\ DOMAIN a \subseteq Nat
      /\ \A i \in DOMAIN b : b[i] \in RecordSet /\ DOMAIN b \subseteq Nat
      /\ \A k \in DOMAIN c : c[k] \in NoticeSet /\ DOMAIN c \subseteq Nat
  BY LenProperties, ElementOfSeq
<1>2. \A x \in Requests : x.n \in Nat
  BY <1>0 DEF Requests
<1>3. \A x \in RecordSet : x.of \in Nat \ {0}
  BY <1>0 DEF RecordSet
<1>4. \A x \in NoticeSet : x.of \in Nat /\ x.n \in Nat
  BY <1>0 DEF NoticeSet
<1> QED
  BY <1>1, <1>2, <1>3, <1>4, LenProperties

(* What was received, after more was shown.                                 *)
LEMMA ReceivedAfter ==
  ASSUME NEW notices \in Seq(NoticeSet), shown \in Seq(NoticeSet), shown' = shown \o notices
  PROVE  /\ \A k \in Received : k \in DOMAIN shown /\ shown'[k] = shown[k]
         /\ \A k \in Received' :
              \/ k \in Received /\ shown'[k] = shown[k]
              \/ \E j \in DOMAIN notices : /\ k = Len(shown) + j /\ shown'[k] = notices[j]
                                           /\ notices[j].of # Garbage
         /\ Len(shown) \in Nat /\ DOMAIN shown = 1 .. Len(shown)
         /\ DOMAIN notices = 1 .. Len(notices) /\ Len(notices) \in Nat
<1>1. /\ \A i \in DOMAIN shown : shown'[i] = shown[i]
      /\ \A i \in DOMAIN shown' :
           \/ i \in DOMAIN shown /\ shown'[i] = shown[i]
           \/ \E j \in DOMAIN notices : i = Len(shown) + j /\ shown'[i] = notices[j]
  BY JoinedElements
<1>2. /\ Len(shown) \in Nat /\ DOMAIN shown = 1 .. Len(shown)
      /\ DOMAIN notices = 1 .. Len(notices) /\ Len(notices) \in Nat
  BY LenProperties
<1> QED
  BY <1>1, <1>2 DEF Received

(* Every step keeps the order.                                              *)
LEMMA OrderInductive ==
  ASSUME OrderInv, [Next]_vars
  PROVE  OrderInv'
<1> USE DEF user, sale
<1>0. /\ TypeInv /\ TypeInv' /\ AnswersInOrder
      /\ up \in Seq(Requests) /\ down \in Seq(RecordSet) /\ shown \in Seq(NoticeSet)
      /\ clicks \in Nat
  BY TypeInductive, SessionAssumption DEF OrderInv, TypeInv, TypeOK, RecordSet, NoticeSet
<1>t. /\ DOMAIN up \subseteq Nat /\ DOMAIN down \subseteq Nat /\ DOMAIN shown \subseteq Nat
      /\ \A j \in DOMAIN up : up[j] \in Requests /\ up[j].n \in Nat
      /\ \A i \in DOMAIN down : down[i].of \in Nat
      /\ \A k \in DOMAIN shown : shown[k].of \in Nat
  BY <1>0, Numbers
<1>1. ASSUME clicks' = clicks, shown' = shown, up' \in {up, << >>}, down' \in {down, << >>}
      PROVE  OrderInv'
  BY <1>0, <1>1 DEF OrderInv, AnswersInOrder, Received
<1>2. CASE Connect \/ Disconnect \/ ServerClose \/ HangUp \/ Finished \/ UNCHANGED vars
  BY <1>1, <1>2 DEF Connect, Disconnect, ServerClose, HangUp, Finished, vars
<1>3. ASSUME NEW kind \in Kinds, Click(kind) PROVE OrderInv'
  <2> DEFINE r == Request(clicks + 1, kind)
  <2>1. clicks' = clicks + 1 /\ UNCHANGED <<down, shown>> /\ up' \in {up, Append(up, r)}
    BY <1>3 DEF Click
  <2>2. Received' = Received /\ AnswersInOrder'
    BY <1>0, <2>1 DEF Received, AnswersInOrder
  <2>3. CASE up' = up
    <3>1. clicks <= clicks'
      BY <1>0, <2>1
    <3> QED
      BY <1>0, <1>t, <2>1, <2>2, <2>3, <3>1 DEF OrderInv, Received
  <2>4. CASE up' = Append(up, r)
    <3>1. r \in Requests
      BY <1>0, <1>3, SessionAssumption DEF Click, Requests, Request
    <3>2. /\ Len(up) \in Nat /\ DOMAIN up = 1 .. Len(up) /\ DOMAIN up' = 1 .. Len(up) + 1
          /\ \A j \in DOMAIN up : up'[j] = up[j]
          /\ up'[Len(up) + 1] = r
      BY <1>0, <2>4, <3>1, AppendProperties, LenProperties
    <3>3. r.n = clicks + 1
      BY DEF Request
    <3>4. \A j \in DOMAIN up' : \/ j \in DOMAIN up /\ up'[j].n = up[j].n
                                \/ j = Len(up) + 1 /\ up'[j].n = clicks + 1
      BY <3>2, <3>3
    <3>5. /\ \A j \in DOMAIN up' : up'[j].n <= clicks'
          /\ \A i, j \in DOMAIN up' : i < j => up'[i].n < up'[j].n
      <4>1. \A j \in DOMAIN up : up[j].n <= clicks + 1 /\ up[j].n < clicks + 1
        BY <1>0, <1>t DEF OrderInv
      <4>2. \A j \in DOMAIN up' : up'[j].n <= clicks'
        BY <1>0, <2>1, <3>4, <4>1
      <4>3. \A i, j \in DOMAIN up' : i < j =>
              /\ i \in DOMAIN up /\ up'[i].n = up[i].n
              /\ (j \in DOMAIN up /\ up'[j].n = up[j].n) \/ up'[j].n = clicks + 1
        BY <3>2, <3>4
      <4>4. \A i, j \in DOMAIN up' : i < j => up'[i].n < up'[j].n
        BY <4>1, <4>3 DEF OrderInv
      <4> QED
        BY <4>2, <4>4
    <3>6. /\ \A i \in DOMAIN down : down[i].of <= clicks'
          /\ \A k \in Received : shown[k].of <= clicks'
      BY <1>0, <1>t, <2>1 DEF OrderInv, Received
    <3>7. /\ \A i \in DOMAIN down, j \in DOMAIN up' : down[i].of < up'[j].n
          /\ \A k \in Received, j \in DOMAIN up' : shown[k].of < up'[j].n
      <4>1. /\ \A i \in DOMAIN down : down[i].of < clicks + 1
            /\ \A k \in Received : shown[k].of < clicks + 1
        BY <1>0, <1>t DEF OrderInv, Received
      <4> QED
        BY <3>4, <4>1 DEF OrderInv
    <3> QED
      BY <1>0, <2>1, <2>2, <3>5, <3>6, <3>7 DEF OrderInv
  <2> QED
    BY <2>1, <2>3, <2>4
<1>4. ASSUME NEW kind \in Kinds, SendFails(kind) PROVE OrderInv'
  <2> DEFINE x == [n |-> clicks + 1, of |-> Garbage, says |-> "send failed", afterTimeout |-> late]
  <2>1. clicks' = clicks + 1 /\ UNCHANGED <<up, down>> /\ shown' = Append(shown, x)
        /\ x.of = Garbage
    BY <1>4 DEF SendFails
  <2> HIDE DEF x
  <2>2. x \in NoticeSet
    <3>1. shown' \in Seq(NoticeSet)
      BY <1>0 DEF TypeInv, TypeOK, NoticeSet
    <3>2. shown'[Len(shown) + 1] = x /\ Len(shown) + 1 \in 1 .. Len(shown')
      BY <1>0, <2>1, LenProperties
    <3> QED
      BY <3>1, <3>2, ElementOfSeq
  <2>3. shown' = shown \o <<x>> /\ <<x>> \in Seq(NoticeSet)
    BY <1>0, <2>1, <2>2, AppendIsConcat
  <2>4. /\ \A k \in Received : k \in DOMAIN shown /\ shown'[k] = shown[k]
        /\ \A k \in Received' : k \in Received /\ shown'[k] = shown[k]
    <3>1. \A j \in DOMAIN <<x>> : <<x>>[j].of = Garbage
      BY <2>1
    <3> QED
      BY <1>0, <2>3, <3>1, ReceivedAfter
  <2>5. AnswersInOrder'
    BY <1>0, <2>4 DEF AnswersInOrder
  <2>6. clicks <= clicks'
    BY <1>0, <2>1
  <2> QED
    BY <1>0, <1>t, <2>1, <2>4, <2>5, <2>6 DEF OrderInv
<1>5. CASE Handle
  <2> DEFINE r == Head(up)
  <2>1. /\ up # << >> /\ up' = Tail(up) /\ clicks' = clicks /\ shown' = shown
        /\ down' \in {down, down \o AnswerTo(r)}
    BY <1>5 DEF Handle
  <2>2. /\ r \in Requests /\ r = up[1] /\ 1 \in DOMAIN up
        /\ \A i \in DOMAIN up' : i + 1 \in DOMAIN up /\ up'[i] = up[i + 1] /\ i + 1 > 1
    BY <1>0, <2>1, TailElements
  <2>3. /\ \A j \in DOMAIN up' : up'[j].n <= clicks /\ up[1].n < up'[j].n
        /\ \A i, j \in DOMAIN up' : i < j => up'[i].n < up'[j].n
    <3>1. DOMAIN up' \subseteq Nat
      BY <1>0, LenProperties DEF TypeInv, TypeOK
    <3> QED
      BY <1>t, <2>2, <3>1 DEF OrderInv
  <2>4. /\ \A i \in DOMAIN down, j \in DOMAIN up' : down[i].of < up'[j].n
        /\ \A k \in Received, j \in DOMAIN up' : shown[k].of < up'[j].n
    BY <2>2 DEF OrderInv
  <2>5. Received' = Received /\ AnswersInOrder'
    BY <1>0, <2>1 DEF Received, AnswersInOrder
  <2>6. CASE down' = down
    BY <1>0, <2>1, <2>3, <2>4, <2>5, <2>6 DEF OrderInv
  <2>7. CASE down' = down \o AnswerTo(r)
    <3>1. /\ AnswerTo(r) \in Seq(RecordSet)
          /\ \A i \in DOMAIN AnswerTo(r) : AnswerTo(r)[i].of = up[1].n
      BY <2>2, Answers
    <3>2. /\ Len(down) \in Nat /\ DOMAIN down = 1 .. Len(down)
          /\ DOMAIN AnswerTo(r) \subseteq Nat \ {0}
      BY <1>0, <3>1, LenProperties
    <3>3. \A i \in DOMAIN down' : \/ i \in DOMAIN down /\ down'[i].of = down[i].of
                                  \/ i > Len(down) /\ down'[i].of = up[1].n
      BY <1>0, <2>7, <3>1, <3>2, JoinedElements
    <3>4. /\ \A i \in DOMAIN down' : down'[i].of <= clicks
          /\ \A i \in DOMAIN down', j \in DOMAIN up' : down'[i].of < up'[j].n
      BY <2>2, <2>3, <2>4, <3>3 DEF OrderInv
    <3>5. \A i, j \in DOMAIN down' : i < j => down'[i].of <= down'[j].of
      <4>1. \A i, j \in DOMAIN down' : i < j =>
              \/ /\ i \in DOMAIN down /\ j \in DOMAIN down
                 /\ down'[i].of = down[i].of /\ down'[j].of = down[j].of
              \/ /\ i \in DOMAIN down
                 /\ down'[i].of = down[i].of /\ down'[j].of = up[1].n
              \/ down'[i].of = up[1].n /\ down'[j].of = up[1].n
        <5>1. DOMAIN down' \subseteq Nat
          BY <1>0, LenProperties DEF TypeInv, TypeOK
        <5> QED
          BY <3>2, <3>3, <5>1
      <4>2. \A i \in DOMAIN down : down[i].of <= up[1].n
        BY <1>t, <2>2 DEF OrderInv
      <4>3. up[1].n <= up[1].n
        BY <1>t, <2>2
      <4> QED
        BY <4>1, <4>2, <4>3 DEF OrderInv
    <3>6. \A k \in Received, i \in DOMAIN down' : shown[k].of <= down'[i].of
      BY <1>t, <2>2, <3>3 DEF OrderInv, Received
    <3> QED
      BY <1>0, <2>1, <2>3, <2>4, <2>5, <3>4, <3>5, <3>6 DEF OrderInv
  <2> QED
    BY <2>1, <2>6, <2>7
<1>6. CASE Recv
  <2>1. PICK notices \in Seq(NoticeSet) : Told(notices)
    BY <1>0, <1>6, RecvTells
  <2>2. /\ up' = up /\ clicks' = clicks /\ shown' = shown \o notices
        /\ waiting.n = clicks
        /\ \A j \in DOMAIN notices :
             /\ notices[j].n = clicks
             /\ notices[j].of # Garbage => j \in DOMAIN down /\ notices[j].of = down[j].of
    <3>1. waiting.n = clicks
      <4>1. waiting \in Requests
        BY <2>1 DEF Told
      <4>2. waiting # NoRequest
        BY <4>1 DEF Requests, NoRequest, Request, Kinds
      <4> QED
        BY <1>0, <4>2 DEF TypeInv
    <3> QED
      BY <2>1, <3>1 DEF Told
  <2>3. /\ \A k \in Received : k \in DOMAIN shown /\ shown'[k] = shown[k]
        /\ \A k \in Received' :
              \/ k \in Received /\ shown'[k] = shown[k]
              \/ \E j \in DOMAIN notices : /\ k = Len(shown) + j /\ shown'[k] = notices[j]
                                           /\ notices[j].of # Garbage
        /\ Len(shown) \in Nat /\ DOMAIN shown = 1 .. Len(shown)
        /\ DOMAIN notices = 1 .. Len(notices) /\ Len(notices) \in Nat
    BY <1>0, <2>2, ReceivedAfter
  <2>4. \A k \in Received' :
          \/ k \in Received /\ k <= Len(shown) /\ shown'[k] = shown[k]
          \/ \E j \in DOMAIN down : /\ j \in DOMAIN notices /\ k = Len(shown) + j
                                    /\ shown'[k].of = down[j].of /\ shown'[k].n = clicks
    BY <2>2, <2>3
  <2>5. AnswersInOrder'
    <3>1. \A k \in Received' : shown'[k].of <= shown'[k].n
      BY <1>0, <2>4 DEF OrderInv, AnswersInOrder
    <3>2. \A k, m \in Received' : k < m => shown'[k].of <= shown'[m].of
      <4>1. \A j \in DOMAIN notices : ~(Len(shown) + j <= Len(shown))
        BY <2>3
      <4>2. \A i, j \in DOMAIN notices : Len(shown) + i < Len(shown) + j => i < j
        BY <2>3
      <4>3. SUFFICES ASSUME NEW k \in Received', NEW m \in Received', k < m
                     PROVE  shown'[k].of <= shown'[m].of
        OBVIOUS
      <4>4. CASE k \in Received /\ m \in Received /\ shown'[k] = shown[k] /\ shown'[m] = shown[m]
        BY <1>0, <4>3, <4>4 DEF AnswersInOrder
      <4>5. CASE k \in Received /\ shown'[k] = shown[k]
                 /\ \E j \in DOMAIN down : shown'[m].of = down[j].of
        BY <4>5 DEF OrderInv
      <4>6. ASSUME NEW i \in DOMAIN notices, k = Len(shown) + i, m <= Len(shown)
            PROVE  FALSE
        <5>1. m \in DOMAIN shown \/ m \in Nat
          BY <2>3, <2>4
        <5> QED
          BY <2>3, <4>3, <4>6, <5>1
      <4>7. ASSUME NEW i \in DOMAIN down, NEW j \in DOMAIN down, i \in DOMAIN notices,
                   j \in DOMAIN notices, k = Len(shown) + i, m = Len(shown) + j,
                   shown'[k].of = down[i].of, shown'[m].of = down[j].of
            PROVE  shown'[k].of <= shown'[m].of
        BY <4>2, <4>3, <4>7 DEF OrderInv
      <4> QED
        BY <2>4, <4>4, <4>5, <4>6, <4>7
    <3> QED
      BY <3>1, <3>2 DEF AnswersInOrder
  <2>6. /\ \A k \in Received' : shown'[k].of <= clicks
        /\ \A k \in Received', j \in DOMAIN up : shown'[k].of < up[j].n
    BY <2>4 DEF OrderInv
  <2>7. CASE down' = << >>
    <3>1. DOMAIN down' = {}
      BY <2>7
    <3> QED
      BY <1>0, <2>2, <2>5, <2>6, <3>1 DEF OrderInv
  <2>8. CASE down # << >> /\ down' = Tail(down) /\ DOMAIN notices = {1}
    <3>1. /\ 1 \in DOMAIN down
          /\ \A i \in DOMAIN down' : i + 1 \in DOMAIN down /\ down'[i] = down[i + 1] /\ i + 1 > 1
      BY <1>0, <2>8, TailElements
    <3>2. DOMAIN down' \subseteq Nat
      BY <1>0, LenProperties DEF TypeInv, TypeOK
    <3>3. /\ \A i \in DOMAIN down' : down'[i].of <= clicks
          /\ \A i \in DOMAIN down', j \in DOMAIN up : down'[i].of < up[j].n
          /\ \A i, j \in DOMAIN down' : i < j => down'[i].of <= down'[j].of
      BY <3>1, <3>2 DEF OrderInv
    <3>4. \A k \in Received', i \in DOMAIN down' : shown'[k].of <= down'[i].of
      BY <2>4, <2>8, <3>1 DEF OrderInv
    <3> QED
      BY <1>0, <2>2, <2>5, <2>6, <3>3, <3>4 DEF OrderInv
  <2> QED
    BY <2>1, <2>7, <2>8 DEF Told
<1> QED
  BY <1>2, <1>3, <1>4, <1>5, <1>6 DEF Next

(* Nothing is shown before the client connects.                             *)
LEMMA InitOrder == Init => OrderInv
BY InitTypes DEF Init, OrderInv, AnswersInOrder, Received

(* Whatever the user clicks and however late the server answers, answers    *)
(* are shown in the order of their requests and never before them.          *)
THEOREM InOrder == Spec => []AnswersInOrder
<1>1. OrderInv => AnswersInOrder
  BY DEF OrderInv
<1> QED
  BY InitOrder, OrderInductive, <1>1, PTL DEF Spec

-------------------------------------------------------------------------------
(* A sale is reported by one record, and shown once at most.                *)
SaleInv ==
  /\ OrderInv
  /\ \A i \in DOMAIN down : down[i].type = "BUY_SUCCEED" =>
       /\ down[i].of \in sold
       /\ \A j \in DOMAIN down : down[j].of = down[i].of => j = i
  /\ \A i \in DOMAIN down, k \in Received :
       down[i].type = "BUY_SUCCEED" /\ shown[k].says = "bought" => shown[k].of # down[i].of
  /\ SuccessIsSale

(* Every step keeps the sales apart.                                        *)
LEMMA SaleInductive ==
  ASSUME SaleInv, [Next]_vars
  PROVE  SaleInv'
<1> USE DEF user, sale
<1>0. /\ TypeInv /\ OrderInv /\ OrderInv'
      /\ up \in Seq(Requests) /\ down \in Seq(RecordSet) /\ shown \in Seq(NoticeSet)
  BY OrderInductive DEF SaleInv, OrderInv, TypeInv, TypeOK, RecordSet, NoticeSet
<1>t. /\ \A j \in DOMAIN up : up[j].n \in Nat
      /\ \A i \in DOMAIN down : down[i].of \in Nat
      /\ \A k \in DOMAIN shown : shown[k].of \in Nat
      /\ DOMAIN down \subseteq Nat
  BY <1>0, Numbers
<1>1. ASSUME sold \subseteq sold', down' \in {down, << >>},
             \A k \in Received' : k \in Received /\ shown'[k] = shown[k]
      PROVE  SaleInv'
  <2>1. SuccessIsSale'
    BY <1>1 DEF SaleInv, SuccessIsSale
  <2>2. DOMAIN << >> = {}
    OBVIOUS
  <2> QED
    BY <1>0, <1>1, <2>1, <2>2 DEF SaleInv
<1>2. CASE \/ Connect \/ Disconnect \/ ServerClose \/ Finished \/ UNCHANGED vars
           \/ \E kind \in Kinds : Click(kind)
  BY <1>1, <1>2 DEF Connect, Disconnect, ServerClose, Finished, vars, Click, Received
<1>6. CASE HangUp
  BY <1>1, <1>6 DEF HangUp, Decide, Received
<1>3. ASSUME NEW kind \in Kinds, SendFails(kind) PROVE SaleInv'
  <2> DEFINE x == [n |-> clicks + 1, of |-> Garbage, says |-> "send failed", afterTimeout |-> late]
  <2>1. UNCHANGED <<sold, down>> /\ shown' = Append(shown, x) /\ x.of = Garbage
    BY <1>3 DEF SendFails
  <2> HIDE DEF x
  <2>2. \A k \in DOMAIN shown' : (k \in DOMAIN shown /\ shown'[k] = shown[k]) \/ shown'[k] = x
    <3>1. Len(shown) \in Nat /\ DOMAIN shown = 1 .. Len(shown)
      BY <1>0, LenProperties
    <3> QED
      BY <2>1, <3>1
  <2> QED
    BY <1>1, <2>1, <2>2 DEF Received
<1>4. CASE Handle
  <2> DEFINE r == Head(up)
  <2>1. /\ up # << >> /\ shown' = shown
        /\ down' \in {down, down \o AnswerTo(r)}
        /\ sold' = IF Sells(r) THEN sold \cup {r.n} ELSE sold
    BY <1>4 DEF Handle, Decide
  <2>2. r \in Requests /\ r = up[1] /\ 1 \in DOMAIN up
    BY <1>0, <2>1, TailElements
  <2>3. Received' = Received /\ SuccessIsSale'
    BY <2>1 DEF SaleInv, SuccessIsSale, Received
  <2>4. CASE down' = down
    BY <1>0, <2>1, <2>3, <2>4 DEF SaleInv
  <2>5. CASE down' = down \o AnswerTo(r)
    <3>1. /\ AnswerTo(r) \in Seq(RecordSet)
          /\ \A i \in DOMAIN AnswerTo(r) :
               /\ AnswerTo(r)[i].of = up[1].n
               /\ AnswerTo(r)[i].type = "BUY_SUCCEED" =>
                    Sells(r) /\ \A j \in DOMAIN AnswerTo(r) : j = i
      BY <2>2, Answers
    <3>2. \A i \in DOMAIN down' :
            \/ i \in DOMAIN down /\ down'[i] = down[i]
            \/ \E j \in DOMAIN AnswerTo(r) : i = Len(down) + j /\ down'[i] = AnswerTo(r)[j]
      BY <1>0, <2>5, <3>1, JoinedElements
    <3>3. \A i \in DOMAIN down : down[i].of # up[1].n
      BY <1>t, <2>2 DEF SaleInv, OrderInv
    <3>4. \A k \in Received : shown[k].of # up[1].n
      BY <1>t, <2>2 DEF SaleInv, OrderInv, Received
    <3>5. ASSUME NEW i \in DOMAIN down', down'[i].type = "BUY_SUCCEED"
          PROVE  /\ down'[i].of \in sold'
                 /\ \A j \in DOMAIN down' : down'[j].of = down'[i].of => j = i
                 /\ \A k \in Received : shown[k].says = "bought" => shown[k].of # down'[i].of
      <4>1. CASE i \in DOMAIN down /\ down'[i] = down[i]
        BY <2>1, <3>1, <3>2, <3>3, <3>5, <4>1 DEF SaleInv
      <4>2. CASE \E j \in DOMAIN AnswerTo(r) : i = Len(down) + j /\ down'[i] = AnswerTo(r)[j]
        BY <2>1, <2>2, <3>1, <3>2, <3>3, <3>4, <3>5, <4>2
      <4> QED
        BY <3>2, <4>1, <4>2
    <3> QED
      BY <1>0, <2>1, <2>3, <3>5 DEF SaleInv
  <2> QED
    BY <2>1, <2>4, <2>5
<1>5. CASE Recv
  <2>1. PICK notices \in Seq(NoticeSet) : Told(notices)
    BY <1>0, <1>5, RecvTells
  <2>2. /\ sold' = sold /\ shown' = shown \o notices
        /\ \A j \in DOMAIN notices : notices[j].of # Garbage =>
             /\ j \in DOMAIN down /\ notices[j].of = down[j].of
             /\ notices[j].says = "bought" => down[j].type = "BUY_SUCCEED"
    BY <2>1 DEF Told
  <2>3. \A k \in Received' :
          \/ k \in Received /\ shown'[k] = shown[k]
          \/ \E j \in DOMAIN down :
               /\ j \in DOMAIN notices /\ k = Len(shown) + j /\ shown'[k].of = down[j].of
               /\ shown'[k].says = "bought" => down[j].type = "BUY_SUCCEED"
    <3>1. \A k \in Received' :
            \/ k \in Received /\ shown'[k] = shown[k]
            \/ \E j \in DOMAIN notices : /\ k = Len(shown) + j /\ shown'[k] = notices[j]
                                         /\ notices[j].of # Garbage
      BY <1>0, <2>2, ReceivedAfter
    <3> QED
      BY <2>2, <3>1
  <2>4. SuccessIsSale'
    <3> SUFFICES ASSUME NEW k \in Received', shown'[k].says = "bought"
                 PROVE  /\ shown'[k].of \in sold
                        /\ \A m \in Received' :
                             shown'[m].says = "bought" /\ shown'[m].of = shown'[k].of => m = k
      BY <2>2 DEF SuccessIsSale
    <3>1. CASE k \in Received /\ shown'[k] = shown[k]
      BY <2>3, <3>1 DEF SaleInv, SuccessIsSale
    <3>2. CASE \E j \in DOMAIN down :
                 /\ j \in DOMAIN notices /\ k = Len(shown) + j /\ shown'[k].of = down[j].of
                 /\ down[j].type = "BUY_SUCCEED"
      <4>1. PICK j \in DOMAIN down : /\ k = Len(shown) + j /\ shown'[k].of = down[j].of
                                     /\ down[j].type = "BUY_SUCCEED"
        BY <3>2
      <4>2. ASSUME NEW m \in Received', shown'[m].says = "bought", shown'[m].of = shown'[k].of
            PROVE  m = k
        BY <2>3, <4>1, <4>2 DEF SaleInv
      <4> QED
        BY <4>1, <4>2 DEF SaleInv
    <3> QED
      BY <2>3, <3>1, <3>2
  <2>5. CASE down' = << >>
    <3>1. DOMAIN down' = {}
      BY <2>5
    <3> QED
      BY <1>0, <2>4, <3>1 DEF SaleInv
  <2>6. CASE down # << >> /\ down' = Tail(down) /\ DOMAIN notices = {1}
    <3>1. /\ 1 \in DOMAIN down
          /\ \A i \in DOMAIN down' : i + 1 \in DOMAIN down /\ down'[i] = down[i + 1] /\ i + 1 > 1
      BY <1>0, <2>6, TailElements
    <3>2. \A i, j \in DOMAIN down' : i + 1 = j + 1 => i = j
      <4>1. DOMAIN down' \subseteq Nat
        BY <1>0, LenProperties DEF OrderInv, TypeInv, TypeOK
      <4> QED
        BY <4>1
    <3>3. \A i \in DOMAIN down' : down'[i].type = "BUY_SUCCEED" =>
            /\ down'[i].of \in sold
            /\ \A j \in DOMAIN down' : down'[j].of = down'[i].of => j = i
      BY <3>1, <3>2 DEF SaleInv
    <3>4. \A i \in DOMAIN down' : down'[i].type = "BUY_SUCCEED" => down[1].of # down'[i].of
      <4>1. \A i \in DOMAIN down' : 1 # i + 1
        BY <3>1
      <4> QED
        BY <3>1, <4>1 DEF SaleInv
    <3>5. \A i \in DOMAIN down', k \in Received' :
            down'[i].type = "BUY_SUCCEED" /\ shown'[k].says = "bought"
               => shown'[k].of # down'[i].of
      BY <2>3, <2>6, <3>1, <3>4 DEF SaleInv
    <3> QED
      BY <1>0, <2>2, <2>4, <3>3, <3>5 DEF SaleInv
  <2> QED
    BY <2>1, <2>5, <2>6 DEF Told
<1> QED
  BY <1>2, <1>3, <1>4, <1>5, <1>6 DEF Next

(* Nothing is sold before the client connects.                              *)
LEMMA InitSale == Init => SaleInv
BY InitOrder DEF Init, SaleInv, SuccessIsSale, Received

(* However late answers come, a "Buy succeed!" that is made of a received   *)
(* record stands for a sale of its own.                                     *)
THEOREM BoughtIsSold == Spec => []SuccessIsSale
<1>1. SaleInv => SuccessIsSale
  BY DEF SaleInv
<1> QED
  BY InitSale, SaleInductive, <1>1, PTL DEF Spec

-------------------------------------------------------------------------------
(* As long as no recv timed out, request and answer go in step: there is at *)
(* most one request, which is on its way or answered.                       *)
InStep ==
  /\ up = << >> \/ (up = <<waiting>> /\ down = << >>)
  /\ waiting = NoRequest => up = << >> /\ down = << >>
  /\ \A i \in DOMAIN down : down[i].of = waiting.n
  /\ waiting.kind = "BUY_TICKET" => Len(down) <= 1

(* What a handler showed of a buffer that was never written, or without     *)
(* having sent anything.                                                    *)
Unread == {k \in DOMAIN shown : shown[k].of = Garbage /\ shown[k].says # "accept failed"}

(* A request that is answered while its handler waits has its answer in the *)
(* stream; and the server has no request left of which something unread was *)
(* shown, because that takes a connection that it closed.                   *)
AnsweredInv ==
  /\ \A n \in answered : n <= clicks
  /\ \A j \in DOMAIN up : up[j].n <= clicks
  /\ \A k \in DOMAIN shown : shown[k].n <= clicks
  /\ waiting # NoRequest /\ waiting.n \in answered => down # << >>
  /\ \A j \in DOMAIN up, k \in Unread : shown[k].n # up[j].n

StepInv ==
  /\ TypeInv
  /\ ~open => up = << >>
  /\ isconnected /\ ~late => InStep
  /\ AnsweredInv
  /\ OwnAnswer

(* What is shown, after one notice more or after those of a handler.        *)
LEMMA ShownAfter ==
  ASSUME NEW notices \in Seq(NoticeSet), shown \in Seq(NoticeSet), shown' = shown \o notices
  PROVE  \A k \in DOMAIN shown' : \/ k \in DOMAIN shown /\ shown'[k] = shown[k]
                                  \/ \E j \in DOMAIN notices : shown'[k] = notices[j]
BY JoinedElements

(* Every step keeps request and answer in step while no recv timed out, and *)
(* the answers that were sent apart from what was shown without one.        *)
LEMMA StepInductive ==
  ASSUME StepInv, [Next]_vars
  PROVE  StepInv'
<1> USE DEF user, sale
<1>0. /\ TypeInv /\ TypeInv' /\ AnsweredInv /\ OwnAnswer
      /\ up \in Seq(Requests) /\ down \in Seq(RecordSet) /\ shown \in Seq(NoticeSet)
      /\ isconnected \in BOOLEAN /\ open \in BOOLEAN /\ late \in BOOLEAN
      /\ clicks \in Nat /\ answered \subseteq 1 .. MaxClicks /\ MaxClicks \in Nat
      /\ NoRequest.kind = "none" /\ \A r \in Requests : r # NoRequest /\ r.n \in Nat
  BY TypeInductive, SessionAssumption
     DEF StepInv, TypeInv, TypeOK, RecordSet, NoticeSet, NoRequest, Request, Requests, Kinds
<1>e. Len(<< >>) = 0 /\ DOMAIN << >> = {} /\ 0 <= 1
  OBVIOUS
<1>n. /\ \A k \in DOMAIN shown : shown[k].n \in Nat
      /\ \A n \in answered : n \in Nat
      /\ \A j \in DOMAIN up : up[j].n \in Nat
  BY <1>0, Numbers
(* A step that shows nothing and answers nothing.                           *)
<1>a. ASSUME UNCHANGED <<shown, answered, clicks>>, up' \in {up, << >>},
             waiting' = NoRequest \/ (waiting' = waiting /\ down' = down)
      PROVE  AnsweredInv' /\ OwnAnswer'
  <2>1. Unread' = Unread /\ OwnAnswer'
    BY <1>0, <1>a DEF Unread, OwnAnswer
  <2> QED
    BY <1>0, <1>a, <1>e, <2>1 DEF AnsweredInv
<1>1. CASE Connect
  <2>1. up' = << >> /\ down' = << >> /\ waiting' = waiting /\ UNCHANGED <<shown, answered, clicks>>
    BY <1>1 DEF Connect
  <2>2. InStep'
    BY <1>e, <2>1 DEF InStep
  <2>3. waiting' = NoRequest
    BY <1>0, <1>1, <2>1 DEF Connect, TypeInv
  <2> QED
    BY <1>0, <1>a, <2>1, <2>2, <2>3 DEF StepInv
<1>2. CASE Disconnect
  <2>1. AnsweredInv' /\ OwnAnswer'
    BY <1>2, <1>a DEF Disconnect
  <2> QED
    BY <1>0, <1>2, <2>1 DEF Disconnect, StepInv
<1>3. CASE ServerClose \/ HangUp
  <2>1. /\ up' = << >> /\ UNCHANGED <<isconnected, down, waiting, late>>
        /\ UNCHANGED <<shown, answered, clicks>>
    BY <1>3 DEF ServerClose, HangUp
  <2>2. InStep => InStep'
    BY <2>1 DEF InStep
  <2> QED
    BY <1>0, <1>a, <2>1, <2>2 DEF StepInv
<1>4. CASE Finished \/ UNCHANGED vars
  <2>1. UNCHANGED vars
    BY <1>4 DEF Finished
  <2>2. AnsweredInv' /\ OwnAnswer'
    BY <1>a, <2>1 DEF vars
  <2> QED
    BY <1>0, <2>1, <2>2 DEF vars, StepInv, InStep
<1>5. ASSUME NEW kind \in Kinds, Click(kind) PROVE StepInv'
  <2> DEFINE r == Request(clicks + 1, kind)
  <2>1. /\ waiting = NoRequest /\ isconnected /\ waiting' = r /\ clicks' = clicks + 1
        /\ UNCHANGED <<isconnected, open, down, late, shown, answered>>
        /\ up' = IF open THEN Append(up, r) ELSE up
    BY <1>5 DEF Click
  <2>2. r \in Requests /\ r.n = clicks + 1
    BY <1>0, <1>5, SessionAssumption DEF Click, Requests, Request, TypeInv, TypeOK
  <2> HIDE DEF r
  <2>3. ASSUME ~late PROVE InStep'
    <3>1. up = << >> /\ down = << >>
      BY <2>1, <2>3 DEF StepInv, InStep
    <3>2. Append(<< >>, r) = <<r>>
      OBVIOUS
    <3>3. up' \in {<<r>>, << >>} /\ down' = << >> /\ waiting' # NoRequest
      BY <1>0, <2>1, <2>2, <3>1, <3>2
    <3> QED
      BY <1>e, <2>1, <3>3 DEF InStep
  <2>4. ~open' => up' = << >>
    BY <2>1 DEF StepInv
  <2>5. Unread' = Unread /\ OwnAnswer'
    BY <1>0, <2>1 DEF Unread, OwnAnswer
  <2>6. /\ \A n \in answered : n <= clicks' /\ n # clicks + 1
        /\ \A k \in DOMAIN shown : shown[k].n <= clicks' /\ shown[k].n # clicks + 1
        /\ \A j \in DOMAIN up : up[j].n <= clicks'
    <3>1. \A m \in Nat : m <= clicks => m <= clicks + 1 /\ m # clicks + 1
      BY <1>0
    <3> QED
      BY <1>0, <1>n, <2>1, <3>1 DEF AnsweredInv
  <2>7. \A j \in DOMAIN up' : up'[j].n = clicks + 1 \/ (j \in DOMAIN up /\ up'[j] = up[j])
    BY <1>0, <2>1, <2>2
  <2>8. AnsweredInv'
    <3>1. \A j \in DOMAIN up', k \in Unread : shown[k].n # up'[j].n
      BY <1>0, <2>6, <2>7 DEF AnsweredInv, Unread
    <3>2. waiting'.n \notin answered
      BY <2>1, <2>2, <2>6
    <3> QED
      BY <1>0, <2>1, <2>5, <2>6, <2>7, <3>1, <3>2 DEF AnsweredInv
  <2> QED
    BY <1>0, <2>1, <2>3, <2>4, <2>5, <2>8 DEF StepInv
<1>6. ASSUME NEW kind \in Kinds, SendFails(kind) PROVE StepInv'
  <2> DEFINE x == [n |-> clicks + 1, of |-> Garbage, says |-> "send failed", afterTimeout |-> late]
  <2>1. /\ UNCHANGED <<isconnected, open, up, down, waiting, late, answered>>
        /\ shown' = Append(shown, x) /\ x.of = Garbage /\ x.n = clicks + 1
        /\ clicks' = clicks + 1 /\ ~open /\ waiting = NoRequest
    BY <1>6 DEF SendFails
  <2> HIDE DEF x
  <2>2. \A k \in DOMAIN shown' : (k \in DOMAIN shown /\ shown'[k] = shown[k]) \/ shown'[k] = x
    <3>1. Len(shown) \in Nat /\ DOMAIN shown = 1 .. Len(shown)
      BY <1>0, LenProperties
    <3> QED
      BY <2>1, <3>1
  <2>3. /\ \A n \in answered : n <= clicks' /\ n # clicks + 1
        /\ \A k \in DOMAIN shown : shown[k].n <= clicks'
        /\ x.n <= clicks'
    BY <1>0, <1>n, <2>1 DEF AnsweredInv
  <2>4. OwnAnswer'
    BY <1>0, <2>1, <2>2, <2>3 DEF OwnAnswer
  <2>5. DOMAIN up' = {}
    BY <1>e, <2>1 DEF StepInv
  <2>6. AnsweredInv'
    BY <2>1, <2>2, <2>3, <2>5 DEF AnsweredInv
  <2> QED
    BY <1>0, <2>1, <2>4, <2>6 DEF StepInv, InStep
<1>7. CASE Handle
  <2> DEFINE r == Head(up)
  <2>1. /\ open /\ up # << >> /\ up' = Tail(up)
        /\ UNCHANGED <<isconnected, open, waiting, late, shown, clicks>>
        /\ IF isconnected THEN down' = down \o AnswerTo(r) /\ answered' = answered \cup {r.n}
                          ELSE down' = down /\ answered' = answered
    BY <1>7 DEF Handle
  <2>r. /\ r \in Requests /\ r = up[1] /\ 1 \in DOMAIN up
        /\ \A i \in DOMAIN up' : i + 1 \in DOMAIN up /\ up'[i] = up[i + 1]
    BY <1>0, <2>1, TailElements
  <2>a. /\ AnswerTo(r) \in Seq(RecordSet) /\ Len(AnswerTo(r)) >= 1
        /\ \A i \in DOMAIN AnswerTo(r) : AnswerTo(r)[i].of = r.n
        /\ r.kind = "BUY_TICKET" => Len(AnswerTo(r)) = 1
    BY <2>r, Answers
  <2> HIDE DEF r
  <2>2. ASSUME isconnected, ~late PROVE InStep'
    <3>1. up = <<waiting>> /\ down = << >> /\ waiting # NoRequest
      BY <2>1, <2>2 DEF StepInv, InStep
    <3>2. r = waiting /\ up' = << >>
      BY <2>1, <2>r, <3>1
    <3>5. down' = AnswerTo(waiting)
      BY <2>1, <2>2, <2>a, <3>1, <3>2, ConcatEmptySeq
    <3> QED
      BY <1>0, <2>1, <2>a, <3>1, <3>2, <3>5 DEF InStep
  <2>3. Unread' = Unread /\ \A k \in Unread : shown[k].n # r.n
    BY <1>0, <2>1, <2>r DEF AnsweredInv, Unread
  <2>4. answered' \in {answered, answered \cup {r.n}}
    BY <2>1
  <2>5. OwnAnswer'
    <3> SUFFICES ASSUME NEW k \in DOMAIN shown,
                        ~(shown[k].of = shown[k].n \/ shown[k].says = "accept failed"),
                        ~(shown[k].of # Garbage /\ shown[k].afterTimeout)
                 PROVE  shown[k].of = Garbage /\ shown[k].n \notin answered'
      BY <2>1 DEF OwnAnswer
    <3>1. shown[k].of = Garbage /\ shown[k].n \notin answered
      BY <1>0 DEF OwnAnswer
    <3>2. k \in Unread
      BY <3>1 DEF Unread
    <3> QED
      BY <2>3, <2>4, <3>1, <3>2
  <2>6. AnsweredInv'
    <3>1. down' = << >> => ~isconnected
      <4>1. isconnected => Len(down') = Len(down) + Len(AnswerTo(r)) /\ Len(down) \in Nat
        BY <1>0, <2>1, <2>a, ConcatProperties, LenProperties
      <4>2. Len(AnswerTo(r)) \in Nat
        BY <2>a, LenProperties
      <4> QED
        BY <1>e, <2>a, <4>1, <4>2
    <3>2. waiting' # NoRequest => down' # << >> \/ ~isconnected
      BY <3>1
    <3>3. waiting' # NoRequest => isconnected
      BY <1>0, <2>1 DEF TypeInv
    <3>4. r.n <= clicks
      <4>1. \A j \in DOMAIN up : up[j].n <= clicks
        BY <1>0 DEF AnsweredInv
      <4> QED
        BY <2>r, <4>1
    <3>5. \A n \in answered' : n <= clicks
      BY <1>0, <2>4, <3>4 DEF AnsweredInv
    <3>6. \A j \in DOMAIN up' : up'[j].n <= clicks /\ \A k \in Unread : shown[k].n # up'[j].n
      BY <1>0, <2>r DEF AnsweredInv
    <3> QED
      BY <1>0, <2>1, <2>3, <3>1, <3>3, <3>5, <3>6 DEF AnsweredInv
  <2> QED
    BY <1>0, <2>1, <2>2, <2>5, <2>6 DEF StepInv
<1>8. CASE Recv
  <2>1. PICK notices \in Seq(NoticeSet) : Told(notices)
    BY <1>0, <1>8, RecvTells
  <2>2. /\ waiting \in Requests /\ waiting' = NoRequest /\ waiting # NoRequest /\ isconnected
        /\ shown' = shown \o notices /\ UNCHANGED <<isconnected, open, up, answered, clicks>>
        /\ (late' = late /\ (down # << >> \/ ~open)) \/ late' = TRUE
        /\ waiting.n = clicks
    BY <1>0, <2>1 DEF Told, TypeInv
  <2>3. \A k \in DOMAIN shown' : \/ k \in DOMAIN shown /\ shown'[k] = shown[k]
                                 \/ \E j \in DOMAIN notices : shown'[k] = notices[j]
    BY <1>0, <2>2, ShownAfter
  <2> DEFINE Fine(x) == \/ x.of = x.n
                        \/ x.says = "accept failed"
                        \/ x.of # Garbage /\ x.afterTimeout
                        \/ x.of = Garbage /\ x.n \notin answered
  <2>4. ASSUME NEW j \in DOMAIN notices
        PROVE  /\ notices[j].n = clicks
               /\ Fine(notices[j])
               /\ notices[j].of = Garbage /\ notices[j].says # "accept failed" => up = << >>
    <3>1. /\ notices[j].n = waiting.n /\ notices[j].afterTimeout = late
          /\ notices[j].of # Garbage => j \in DOMAIN down /\ notices[j].of = down[j].of
          /\ notices[j].of = Garbage =>
               notices[j].says = "accept failed" \/ (down = << >> /\ ~open)
      BY <2>1, <2>4 DEF Told
    <3>2. CASE notices[j].of = Garbage
      BY <1>0, <2>2, <3>1, <3>2 DEF StepInv, AnsweredInv
    <3>3. CASE notices[j].of # Garbage /\ late
      BY <2>2, <3>1, <3>3
    <3>4. CASE notices[j].of # Garbage /\ ~late
      BY <2>2, <3>1, <3>4 DEF StepInv, InStep
    <3> QED
      BY <1>0, <3>2, <3>3, <3>4
  <2>5. OwnAnswer'
    <3>1. \A k \in DOMAIN shown : Fine(shown[k])
      BY <1>0 DEF OwnAnswer
    <3>2. \A k \in DOMAIN shown' : Fine(shown'[k])
      <4> HIDE DEF Fine
      <4> QED
        BY <2>3, <2>4, <3>1
    <3> QED
      BY <2>2, <3>2 DEF OwnAnswer
  <2>6. AnsweredInv'
    <3> HIDE DEF Fine
    <3>0. \A k \in DOMAIN shown : shown[k].n <= clicks
      BY <1>0 DEF AnsweredInv
    <3>1. \A k \in DOMAIN shown' : shown'[k].n <= clicks
      <4>1. \A j \in DOMAIN notices : notices[j].n <= clicks
        <5>1. clicks <= clicks
          BY <1>0
        <5>2. \A j \in DOMAIN notices : notices[j].n = clicks
          BY <2>4
        <5> QED
          BY <5>1, <5>2
      <4> QED
        BY <2>3, <3>0, <4>1
    <3>2. \A k \in Unread' : (k \in Unread /\ shown'[k] = shown[k]) \/ DOMAIN up = {}
      BY <1>e, <2>3, <2>4 DEF Unread
    <3> QED
      BY <1>0, <2>2, <3>1, <3>2 DEF AnsweredInv
  <2>7. ASSUME ~late' PROVE InStep'
    <3>1. ~late /\ (down # << >> \/ ~open)
      BY <2>2, <2>7
    <3>2. InStep
      BY <2>2, <3>1 DEF StepInv
    <3>3. up' = << >>
      BY <2>2, <3>1, <3>2 DEF StepInv, InStep
    <3>4. down' = << >>
      <4>1. CASE down # << >> /\ down' = Tail(down) /\ waiting.kind = "BUY_TICKET"
        BY <1>0, <3>2, <4>1, TailElements DEF InStep
      <4> QED
        BY <2>1, <4>1 DEF Told
    <3> QED
      BY <1>0, <1>e, <2>2, <3>3, <3>4 DEF InStep
  <2> QED
    BY <1>0, <2>2, <2>5, <2>6, <2>7 DEF StepInv
<1> QED
  BY <1>1, <1>2, <1>3, <1>4, <1>5, <1>6, <1>7, <1>8 DEF Next

(* Before the client connects nothing is out of step.                       *)
LEMMA InitStep == Init => StepInv
BY InitTypes DEF Init, StepInv, AnsweredInv, Unread, OwnAnswer

(* Whatever the user is shown for a request is made of the answer to that   *)
(* request, but for "Accept failed!", what follows a timeout, and what is   *)
(* shown without an answer for a request that was never answered.           *)
THEOREM AnswersOwn == Spec => []OwnAnswer
<1>1. StepInv => OwnAnswer
  BY DEF StepInv
<1> QED
  BY InitStep, StepInductive, <1>1, PTL DEF Spec
===============================================================================
