------------------------------- MODULE MCProcesses -------------------------------
(* The programs that consist of processes.  One of them runs, as `program'  *)
(* says: the chat (21ex), the handshake (19ex, 20ex), the printers of words *)
(* (17ex), the message queue (14ex, 15ex), the echo (7ex, 8ex), or the      *)
(* named pipe (pipe_server, pipe_client).                                   *)
EXTENDS SharedMemoryChat, ShmHandshake, WordPrinters, MessageQueue, UdpEcho, NamedPipe

VARIABLE program

MCVars == <<program, vars, handshakeVars, wordVars, queueVars, echoVars, pipeVars>>

MCInit ==
  /\ program \in {"chat", "handshake", "words", "queue", "echo", "pipe"}
  /\ Init /\ (program # "chat" => distinctKeys)
  /\ PipeInit /\ (program # "pipe" => server = "mknod")
  /\ HandshakeInit /\ WordsInit /\ QueueInit /\ EchoInit

ChatRuns(A) ==
  program = "chat" /\ A
    /\ UNCHANGED <<program, handshakeVars, wordVars, queueVars, echoVars, pipeVars>>
HandshakeRuns(A) ==
  program = "handshake" /\ A
    /\ UNCHANGED <<program, vars, wordVars, queueVars, echoVars, pipeVars>>
WordsRun(A) ==
  program = "words" /\ A
    /\ UNCHANGED <<program, vars, handshakeVars, queueVars, echoVars, pipeVars>>
QueueRuns(A) ==
  program = "queue" /\ A
    /\ UNCHANGED <<program, vars, handshakeVars, wordVars, echoVars, pipeVars>>
EchoRuns(A) ==
  program = "echo" /\ A
    /\ UNCHANGED <<program, vars, handshakeVars, wordVars, queueVars, pipeVars>>
PipeRuns(A) ==
  program = "pipe" /\ A
    /\ UNCHANGED <<program, vars, handshakeVars, wordVars, queueVars, echoVars>>

MCNext ==
  \/ ChatRuns(Next) \/ HandshakeRuns(HandshakeNext) \/ WordsRun(WordsNext)
  \/ QueueRuns(QueueNext) \/ EchoRuns(EchoNext) \/ PipeRuns(PipeNext)

(* Programs that run are scheduled, and what is free again and again (a     *)
(* semaphore, room in the queue, the server's recvfrom) goes to each that   *)
(* waits for it: the kernel queues them.  The user of the chat goes on      *)
(* typing until "end".  Nobody has to start a program of the chat, to type  *)
(* a line elsewhere, or to kill a program, and no datagram need be lost.    *)
MCFairness ==
  /\ WF_MCVars(ChatRuns(ServerStep)) /\ WF_MCVars(ChatRuns(ClientStep))
  /\ SF_MCVars(ChatRuns(ServerP)) /\ SF_MCVars(ChatRuns(ClientP))
  /\ WF_MCVars(HandshakeRuns(ServerWorks))
  /\ \A c \in Clients : WF_MCVars(HandshakeRuns(ClientWorks(c)))
  /\ \A r \in Runs : WF_MCVars(WordsRun(Runs17(r))) /\ SF_MCVars(WordsRun(P(r)))
  /\ \A r \in Receivers : WF_MCVars(QueueRuns(ReceiverWorks(r)))
  /\ \A s \in Senders : SF_MCVars(QueueRuns(Msgsnd(s))) /\ WF_MCVars(QueueRuns(QueueFails(s)))
  /\ WF_MCVars(EchoRuns(Sendto))
  /\ \A c \in EchoClients : WF_MCVars(EchoRuns(ReceiveEcho(c))) /\ SF_MCVars(EchoRuns(Recvfrom(c)))

MCSpec == MCInit /\ [][MCNext]_MCVars /\ MCFairness

(* The variables of every program have their types: no client of the        *)
(* handshake leaves the text, the queue keeps its bound, no third segment   *)
(* of the chat is made.                                                     *)
ProcessesTypeOK ==
  TypeOK /\ HandshakeTypeOK /\ WordsTypeOK /\ QueueTypeOK /\ EchoTypeOK /\ PipeTypeOK

(* What has to happen happens: the chat ends with its last line, a client   *)
(* of the handshake prints the alphabet and ends the server, no printer of  *)
(* words and no sender of messages waits for ever, an echo arrives.         *)
ProcessesEnd ==
  /\ program = "chat" => ServerEnds /\ LastLineArrives
  /\ program = "handshake" => WholeAlphabet /\ StarSeen
  /\ program = "words" => NobodyStuck
  /\ program = "queue" => SendersReleased
  /\ program = "echo" => EchoArrives
================================================================================
