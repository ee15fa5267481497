--------------------------------- MODULE UdpEcho ---------------------------------
(***************************************************************************)
(* socket/7ex_udp_server.c and 8ex_udp_client.c: clients send each line in *)
(* a datagram and wait for its echo.  Datagrams may be lost and overtake   *)
(* each other; nobody sends one again.                                     *)
(***************************************************************************)
EXTENDS Integers, Sequences

CONSTANTS
  EchoClients,
  MaxEchoes      \* bound: how many lines each client reads

ASSUME EchoAssumption == MaxEchoes \in Nat

VARIABLES
  requests, answers,   \* the datagrams on their way
  message,             \* what the server holds; no datagram at first
  addr,                \* the sender's address of the last datagram; none at first
  serving,             \* is the server between recvfrom and sendto?
  lines,               \* how many lines each client has read
  waiting,             \* the clients that wait for an echo
  echoes,              \* what each client received
  lost                 \* the clients of which a datagram was lost

echoVars == <<requests, answers, message, addr, serving, lines, waiting, echoes, lost>>

Nothing == << >>

EchoInit ==
  /\ requests = {} /\ answers = {}
  /\ message = Nothing /\ addr = {} /\ serving = FALSE
  /\ lines = [c \in EchoClients |-> 0] /\ waiting = {}
  /\ echoes = [c \in EchoClients |-> << >>]
  /\ lost = {}

(* The client.  It stops at the end of its input, between two echoes.       *)
SendLine(c) ==
  /\ c \notin waiting /\ lines[c] < MaxEchoes
  /\ lines' = [lines EXCEPT ![c] = @ + 1]
  /\ requests' = requests \cup {[from |-> c, text |-> <<c, lines[c] + 1>>]}
  /\ waiting' = waiting \cup {c}
  /\ UNCHANGED <<answers, message, addr, serving, echoes, lost>>

(* n is 0 here, the value of a comparison: the client shows an empty text   *)
(* whatever it received.                                                    *)
ReceiveEcho(c) ==
  /\ c \in waiting
  /\ \E d \in answers : /\ d.to = c
                        /\ answers' = answers \ {d}
                        /\ echoes' = [echoes EXCEPT ![c] = Append(@, d.text)]
  /\ waiting' = waiting \ {c}
  /\ UNCHANGED <<requests, message, addr, serving, lines, lost>>

(* The server.                                                              *)
MutantFirstAddress(from) == IF addr = {} THEN {from} ELSE addr
MutantNoAddress(from) == {}

SenderOf(from) == {from}

Recvfrom(c) ==
  /\ ~serving
  /\ \E d \in requests : /\ d.from = c
                         /\ requests' = requests \ {d}
                         /\ message' = d.text
                         /\ addr' = SenderOf(c)
  /\ serving' = TRUE
  /\ UNCHANGED <<answers, lines, waiting, echoes, lost>>

Sendto ==
  /\ serving
  /\ answers' = answers \cup {[to |-> c, text |-> message] : c \in addr}
  /\ serving' = FALSE
  /\ UNCHANGED <<requests, message, addr, lines, waiting, echoes, lost>>

Lose ==
  /\ \/ \E d \in requests : /\ requests' = requests \ {d} /\ lost' = lost \cup {d.from}
                            /\ UNCHANGED answers
     \/ \E d \in answers : /\ answers' = answers \ {d} /\ lost' = lost \cup {d.to}
                           /\ UNCHANGED requests
  /\ UNCHANGED <<message, addr, serving, lines, waiting, echoes>>

EchoNext ==
  \/ Sendto \/ Lose
  \/ \E c \in EchoClients : Recvfrom(c) \/ SendLine(c) \/ ReceiveEcho(c)

EchoSpec == EchoInit /\ [][EchoNext]_echoVars
-------------------------------------------------------------------------------
EchoTexts == EchoClients \X (1 .. MaxEchoes)

EchoTypeOK ==
  /\ requests \subseteq [from : EchoClients, text : EchoTexts]
  /\ answers \subseteq [to : EchoClients, text : EchoTexts]
  /\ (serving => message \in EchoTexts) /\ addr \subseteq EchoClients /\ serving \in BOOLEAN
  /\ lines \in [EchoClients -> 0 .. MaxEchoes]
  /\ waiting \subseteq EchoClients /\ lost \subseteq EchoClients
  /\ echoes \in [EchoClients -> Seq(EchoTexts)]

(* With several clients at once and datagrams that overtake each other, a   *)
(* client gets the echoes of its own lines, in order, and one for each line *)
(* but the one it waits for.                                                *)
EchoesInOrder ==
  \A c \in EchoClients :
    /\ \A k \in 1 .. Len(echoes[c]) : echoes[c][k] = <<c, k>>
    /\ Len(echoes[c]) = lines[c] - (IF c \in waiting THEN 1 ELSE 0)

(* A client waits for ever only if a datagram of its own was lost.          *)
EchoArrives == \A c \in EchoClients : c \in waiting ~> c \notin waiting \/ c \in lost
================================================================================
