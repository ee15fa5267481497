------------------------------ MODULE MessageQueue ------------------------------
(***************************************************************************)
(* ipc/14ex_msg_get.c and 15ex_msg_send.c: runs of the sender put lines    *)
(* into the message queue of one key, until their line is "end"; a run of  *)
(* the receiver prints what it gets, and removes the queue when that is    *)
(* "end".  A step is a system call with the local work around it.          *)
(***************************************************************************)
EXTENDS Integers, Sequences

CONSTANTS
  Senders, Receivers,
  QBYTES,      \* messages of BUFSIZ bytes that fit (2: 16384 / 8192 in Linux)
  MaxTyped     \* bound: how many lines are typed into each sender

ASSUME QueueAssumption == QBYTES \in Nat \ {0} /\ MaxTyped \in Nat

VARIABLES
  queue,      \* the messages of the queue found under the key
  msqid,      \* that queue; 0: there is none
  queues,     \* how many were made so far
  msgid,      \* the queue each run got
  typed,      \* how many lines were typed into each sender
  msgbuf,     \* the line in each sender
  stage,      \* where each run stands
  got         \* the messages that were received, in this order

queueVars == <<queue, msqid, queues, msgid, typed, msgbuf, stage, got>>

Message(s, n, end) == [from |-> s, n |-> n, end |-> end]

QueueInit ==
  /\ queue = << >> /\ msqid = 0 /\ queues = 0
  /\ msgid = [p \in Senders \cup Receivers |-> 0]
  /\ typed = [s \in Senders |-> 0]
  /\ msgbuf = [s \in Senders |-> Message(s, 0, FALSE)]
  /\ stage = [p \in Senders \cup Receivers |-> "msgget"]
  /\ got = << >>

To(p, from, to) == stage[p] = from /\ stage' = [stage EXCEPT ![p] = to]
Found(p) == msgid[p] = msqid

Msgget(p) ==
  /\ To(p, "msgget", IF p \in Senders THEN "fgets" ELSE "msgrcv")
  /\ queues' = IF msqid = 0 THEN queues + 1 ELSE queues
  /\ msqid' = IF msqid = 0 THEN queues' ELSE msqid
  /\ msgid' = [msgid EXCEPT ![p] = msqid']
  /\ UNCHANGED <<queue, typed, msgbuf, got>>

(* At the end of its input fgets changes nothing, and the sender repeats    *)
(* its last line for ever: to the queue, as if it were typed again.         *)
FgetsText(s) ==
  /\ typed[s] < MaxTyped
  /\ To(s, "fgets", "msgsnd")
  /\ typed' = [typed EXCEPT ![s] = @ + 1]
  /\ \E end \in BOOLEAN : msgbuf' = [msgbuf EXCEPT ![s] = Message(s, typed[s] + 1, end)]
  /\ UNCHANGED <<queue, msqid, queues, msgid, got>>

(* msgsnd waits for room.                                                   *)
Msgsnd(s) ==
  /\ Found(s) /\ Len(queue) < QBYTES
  /\ To(s, "msgsnd", IF msgbuf[s].end THEN "ended" ELSE "fgets")
  /\ queue' = Append(queue, msgbuf[s])
  /\ UNCHANGED <<msqid, queues, msgid, typed, msgbuf, got>>

(* msg_to_receive = 0: the first message of the queue.                      *)
Received == 1

Msgrcv(r) ==
  /\ Found(r) /\ queue # << >>
  /\ To(r, "msgrcv", IF queue[Received].end THEN "msgctl" ELSE "msgrcv")
  /\ got' = Append(got, queue[Received])
  /\ queue' = [k \in 1 .. Len(queue) - 1 |-> queue[IF k < Received THEN k ELSE k + 1]]
  /\ UNCHANGED <<msqid, queues, msgid, typed, msgbuf>>

(* A removed queue takes its messages with it, and msgsnd and msgrcv of the *)
(* runs that wait fail; they exit, and so does a second msgctl.             *)
Msgctl(r) ==
  /\ To(r, "msgctl", "ended")
  /\ IF Found(r) THEN msqid' = 0 /\ queue' = << >> ELSE UNCHANGED <<msqid, queue>>
  /\ UNCHANGED <<queues, msgid, typed, msgbuf, got>>

MutantSenderGetsNewQueue(p) ==
  /\ ~Found(p)
  /\ \/ p \in Senders /\ To(p, "msgsnd", "msgget")
     \/ p \in Receivers /\ To(p, "msgrcv", "ended")
  /\ UNCHANGED <<queue, msqid, queues, msgid, typed, msgbuf, got>>

QueueFails(p) ==
  /\ ~Found(p)
  /\ To(p, IF p \in Senders THEN "msgsnd" ELSE "msgrcv", "ended")
  /\ UNCHANGED <<queue, msqid, queues, msgid, typed, msgbuf, got>>

ReceiverWorks(r) == Msgget(r) \/ Msgrcv(r) \/ Msgctl(r) \/ QueueFails(r)

QueueNext ==
  \/ \E s \in Senders : Msgget(s) \/ FgetsText(s) \/ Msgsnd(s) \/ QueueFails(s)
  \/ \E r \in Receivers : ReceiverWorks(r)

QueueSpec == QueueInit /\ [][QueueNext]_queueVars
-------------------------------------------------------------------------------
MessageType == [from : Senders, n : 0 .. MaxTyped, end : BOOLEAN]

QueueTypeOK ==
  /\ queue \in Seq(MessageType) /\ Len(queue) <= QBYTES
  /\ msqid \in 0 .. queues /\ msgid \in [Senders \cup Receivers -> 0 .. queues]
  /\ typed \in [Senders -> 0 .. MaxTyped] /\ msgbuf \in [Senders -> MessageType]
  /\ stage \in [Senders \cup Receivers ->
                  {"msgget", "fgets", "msgsnd", "msgrcv", "msgctl", "ended"}]
  /\ got \in Seq(MessageType)

(* The numbers of a sender's lines among the first k messages of a sequence,*)
(* and a sequence in which just the lines 1 to n - 1 come before line n.    *)
NumbersTo(s, q, k) == {q[l].n : l \in {l \in 1 .. k : q[l].from = s}}

Ordered(q) ==
  \A k \in 1 .. Len(q) : q[k].n >= 1 /\ NumbersTo(q[k].from, q, k - 1) = 1 .. q[k].n - 1

(* The lines of each sender arrive in their order, with none left out but   *)
(* the last of them, which a removed queue took along: however often the    *)
(* receivers remove the queue and a msgget makes a new one (14ex:46,        *)
(* 15ex:20), no sender goes on in another queue than the one it began in.   *)
MessagesInOrder == Ordered(got)

(* While a receiver works on its queue, a sender that waits for room goes   *)
(* on or is sent away.                                                      *)
SendersReleased ==
  \A s \in Senders :
    stage[s] = "msgsnd" /\ (\E r \in Receivers : msgid[r] = msgid[s] /\ stage[r] = "msgrcv")
      ~> stage[s] # "msgsnd"
================================================================================
