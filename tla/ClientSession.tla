----------------------------- MODULE ClientSession -----------------------------
(***************************************************************************)
(* A client (gnome_ticket_buy/client.c) and its connection to the server.  *)
(* The client is one GTK thread: a handler sends a record and waits for an *)
(* answer for at most five seconds, on a stream in which nothing says to   *)
(* which request a record belongs.  The server is the atomic one of        *)
(* AtomicSale, with one flight; it may answer late, and it may close the   *)
(* connection (stopserver, or check_connection when another client comes   *)
(* from the same address), also between a sale and its answer.  What the   *)
(* user types is valid (the handlers refuse other input before anything is *)
(* sent).                                                                  *)
(***************************************************************************)
EXTENDS Integers, Sequences, SequencesExt

CONSTANTS
  MaxClicks,     \* bound: requests the user makes
  SEATS,         \* seats of the flight
  FLIGHT_NUM     \* records of an answer to INQUIRE_ALL

ASSUME SessionAssumption ==
  MaxClicks \in Nat /\ SEATS \in Nat /\ FLIGHT_NUM \in Nat \ {0}

VARIABLES
  isconnected,   \* isconnected of client.c
  open,          \* is the server's end of the connection open?
  up, down,      \* requests and records on their way
  clicks,        \* requests made so far: request n is the n-th
  waiting,       \* the request whose handler waits in recv, or NoRequest
  seats, sold,   \* the server's stock, and the requests it sold a seat for
  answered,      \* the requests whose answer it sent to the client
  late,          \* has a recv timed out on this connection?
  shown          \* what the user was shown, in order

vars == <<isconnected, open, up, down, clicks, waiting, seats, sold, answered, late, shown>>

Kinds == {"BUY_TICKET", "INQUIRE_ONE", "INQUIRE_ALL"}
Request(n, kind) == [n |-> n, kind |-> kind]
NoRequest == Request(0, "none")
Record(of, type) == [of |-> of, type |-> type]
Garbage == 0           \* `of' of a record that was never received

(* What a handler displays: for request n, made of the answer to request    *)
(* `of', the text `says'; afterTimeout: had a recv timed out before?        *)
Notice(of, says) == [n |-> waiting.n, of |-> of, says |-> says, afterTimeout |-> late]

Init ==
  /\ isconnected = FALSE /\ open = FALSE
  /\ up = << >> /\ down = << >>
  /\ clicks = 0 /\ waiting = NoRequest
  /\ seats = SEATS /\ sold = {} /\ answered = {}
  /\ late = FALSE
  /\ shown = << >>

user == <<clicks, waiting>>
sale == <<seats, sold, answered>>
-------------------------------------------------------------------------------
(* connectserver.  Requests of the old connection that the server has not   *)
(* taken yet are lost: its thread is cancelled or its input was discarded.  *)
Connect ==
  /\ ~isconnected
  /\ isconnected' = TRUE /\ open' = TRUE
  /\ up' = << >> /\ down' = << >>
  /\ late' = FALSE
  /\ UNCHANGED <<user, sale, shown>>

(* disconnect: the socket is closed and what was not read is gone.  The     *)
(* server still serves what it received.                                    *)
Disconnect ==
  /\ isconnected /\ waiting = NoRequest
  /\ isconnected' = FALSE
  /\ down' = << >>
  /\ UNCHANGED <<open, up, user, sale, late, shown>>

(* button_buyticket, button_inquireone and inquireall up to their recv.     *)
Click(kind) ==
  LET r == Request(clicks + 1, kind) IN
  /\ isconnected /\ waiting = NoRequest
  /\ clicks < MaxClicks
  /\ clicks' = clicks + 1
  /\ waiting' = r
  /\ up' = IF open THEN Append(up, r) ELSE up
  /\ UNCHANGED <<isconnected, open, down, sale, late, shown>>

(* send fails on a connection that the server closed: nothing is awaited.   *)
SendFails(kind) ==
  /\ isconnected /\ waiting = NoRequest /\ ~open
  /\ clicks < MaxClicks
  /\ clicks' = clicks + 1
  /\ shown' = Append(shown, [n |-> clicks + 1, of |-> Garbage, says |-> "send failed",
                             afterTimeout |-> late])
  /\ UNCHANGED <<isconnected, open, up, down, waiting, sale, late>>
-------------------------------------------------------------------------------
(* The server takes the next request, in one step (see AtomicSale).         *)
MutantSellsLastTwice(r) == r.kind = "BUY_TICKET" /\ seats >= 0

Sells(r) == r.kind = "BUY_TICKET" /\ seats > 0

AnswerTo(r) ==
  CASE r.kind = "BUY_TICKET" ->
         <<Record(r.n, IF Sells(r) THEN "BUY_SUCCEED" ELSE "BUY_FAILED")>>
    [] r.kind = "INQUIRE_ONE" -> <<Record(r.n, "INQUIRE_SUCCEED")>>
    [] OTHER -> [f \in 1 .. FLIGHT_NUM |-> Record(r.n, "INQUIRE_SUCCEED")]

Decide(r) ==
  /\ seats' = IF Sells(r) THEN seats - 1 ELSE seats
  /\ sold' = IF Sells(r) THEN sold \cup {r.n} ELSE sold

Handle ==
  /\ open /\ up # << >>
  /\ LET r == Head(up) IN
       /\ Decide(r)
       /\ down' = IF isconnected THEN down \o AnswerTo(r) ELSE down
       /\ answered' = IF isconnected THEN answered \cup {r.n} ELSE answered
  /\ up' = Tail(up)
  /\ UNCHANGED <<isconnected, open, user, late, shown>>

(* The thread is cancelled in add_info or in send (servicethread.h:108-110).*)
HangUp ==
  /\ open /\ up # << >>
  /\ Decide(Head(up))
  /\ open' = FALSE /\ up' = << >>
  /\ UNCHANGED <<isconnected, down, user, answered, late, shown>>

ServerClose ==
  /\ open
  /\ open' = FALSE
  /\ up' = << >>
  /\ UNCHANGED <<isconnected, down, user, sale, late, shown>>
-------------------------------------------------------------------------------
(* The handler shows something and returns to the GTK loop.                 *)
Return(kind, notices) ==
  /\ waiting.kind = kind
  /\ waiting' = NoRequest
  /\ shown' = shown \o notices
  /\ UNCHANGED <<isconnected, open, up, clicks, sale>>

MutantTestsForFailure(type) == IF type # "BUY_FAILED" THEN "bought" ELSE "not bought"

BuySays(type) == IF type = "BUY_SUCCEED" THEN "bought" ELSE "not bought"
InquireSays(type) == IF type = "INQUIRE_SUCCEED" THEN "stock" ELSE "unknown stock"

(* Buying reads one record and tells success by its type.                   *)
ReadBuy ==
  /\ down # << >>
  /\ Return("BUY_TICKET", <<Notice(Head(down).of, BuySays(Head(down).type))>>)
  /\ down' = Tail(down)
  /\ UNCHANGED late

(* An inquiry reads all that is there (up to 512 bytes) and uses the first  *)
(* record.                                                                  *)
ReadOne ==
  /\ down # << >>
  /\ Return("INQUIRE_ONE", <<Notice(Head(down).of, InquireSays(Head(down).type))>>)
  /\ down' = << >>
  /\ UNCHANGED late

MutantReadsOneRecord ==
  /\ down # << >>
  /\ Return("INQUIRE_ALL", <<Notice(Head(down).of, "stock")>>)
  /\ down' = Tail(down)
  /\ UNCHANGED late

MutantShowsBackwards ==
  /\ down # << >>
  /\ Return("INQUIRE_ALL", [k \in DOMAIN down |-> Notice(Reverse(down)[k].of, "stock")])
  /\ down' = << >>
  /\ UNCHANGED late

(* Inquiring all shows every record as the stock of a flight, whatever its  *)
(* type is (the test at client.c:394 assigns).                              *)
ReadAll ==
  /\ down # << >>
  /\ Return("INQUIRE_ALL", [k \in DOMAIN down |-> Notice(down[k].of, "stock")])
  /\ down' = << >>
  /\ UNCHANGED late

(* recv returns 0 after the server closed.  No handler tests for it: the    *)
(* record is taken from a buffer that was never written.                    *)
ReadNothing ==
  /\ down = << >> /\ ~open
  /\ \/ \E says \in {"bought", "not bought"} : Return("BUY_TICKET", <<Notice(Garbage, says)>>)
     \/ \E says \in {"stock", "unknown stock"} : Return("INQUIRE_ONE", <<Notice(Garbage, says)>>)
     \/ Return("INQUIRE_ALL", << >>)
  /\ UNCHANGED <<down, late>>

MutantNoTimeout ==
  /\ down = << >> /\ ~open
  /\ \E kind \in Kinds : Return(kind, <<Notice(Garbage, "accept failed")>>)
  /\ late' = TRUE
  /\ UNCHANGED down

(* recv returns -1, after five seconds or because of a reset.               *)
Timeout ==
  /\ down = << >>
  /\ \E kind \in Kinds : Return(kind, <<Notice(Garbage, "accept failed")>>)
  /\ late' = TRUE
  /\ UNCHANGED down

Recv == ReadBuy \/ ReadOne \/ ReadAll \/ ReadNothing \/ Timeout

(* The user stops after MaxClicks requests.                                 *)
Finished ==
  /\ clicks = MaxClicks /\ waiting = NoRequest
  /\ UNCHANGED vars

Next ==
  \/ Connect \/ Disconnect
  \/ \E kind \in Kinds : Click(kind) \/ SendFails(kind)
  \/ Handle \/ ServerClose
  \/ Recv
  \/ HangUp
  \/ Finished

Spec == Init /\ [][Next]_vars

(* recv returns: SO_RCVTIMEO is set on the socket (client.c:85).            *)
FairSpec == Spec /\ WF_vars(Recv)
-------------------------------------------------------------------------------
Requests == [n : 1 .. MaxClicks, kind : Kinds]
Types == {"BUY_SUCCEED", "BUY_FAILED", "INQUIRE_SUCCEED"}
Says == {"bought", "not bought", "stock", "unknown stock", "accept failed", "send failed"}

TypeOK ==
  /\ isconnected \in BOOLEAN /\ open \in BOOLEAN /\ late \in BOOLEAN
  /\ up \in Seq(Requests)
  /\ down \in Seq([of : 1 .. MaxClicks, type : Types])
  /\ clicks \in 0 .. MaxClicks
  /\ waiting \in Requests \cup {NoRequest}
  /\ seats \in 0 .. SEATS
  /\ sold \subseteq 1 .. MaxClicks /\ answered \subseteq 1 .. MaxClicks
  /\ shown \in Seq([n : 1 .. MaxClicks, of : 0 .. MaxClicks, says : Says,
                    afterTimeout : BOOLEAN])

Received == {k \in DOMAIN shown : shown[k].of # Garbage}

(* Whatever the user is shown for a request is made of the answer to that   *)
(* request (client.c:206-236, 302-330, 368-401), but: "Accept failed!"; what *)
(* follows a timeout on the same connection and is made of some answer; and  *)
(* what is made of no answer, because send failed or recv returned 0, for a  *)
(* request that the server never answered.  Every handler reads exactly what *)
(* its request is answered with, and loses no answer to a closed connection. *)
OwnAnswer ==
  \A k \in DOMAIN shown :
    \/ shown[k].of = shown[k].n
    \/ shown[k].says = "accept failed"
    \/ shown[k].of # Garbage /\ shown[k].afterTimeout
    \/ shown[k].of = Garbage /\ shown[k].n \notin answered

(* Even after timeouts a "Buy succeed!" made of a received record stands    *)
(* for a sale, and no two of them for the same sale (client.c:226-232).     *)
SuccessIsSale ==
  \A k \in Received : shown[k].says = "bought" =>
    /\ shown[k].of \in sold
    /\ \A m \in Received : shown[m].says = "bought" /\ shown[m].of = shown[k].of => m = k

(* Answers are shown in the order of their requests, and never before their *)
(* request; a late answer is shown later or not at all.                     *)
AnswersInOrder ==
  /\ \A k \in Received : shown[k].of <= shown[k].n
  /\ \A k, m \in Received : k < m => shown[k].of <= shown[m].of

(* A handler returns to the GTK loop, whatever the server does.             *)
HandlersReturn == waiting # NoRequest ~> waiting = NoRequest

(* client.c:219 tells the user to send the request again when no answer     *)
(* came; that is safe only if the first one was not, and will not be, sold. *)
RetryIsSafe ==
  \A k \in DOMAIN shown : shown[k].says = "accept failed" => shown[k].n \notin sold
===============================================================================
