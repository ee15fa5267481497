---------------------------- MODULE SharedMemoryChat ----------------------------
(***************************************************************************)
(* ipc/21ex_serve_semaphore_and_shm.c and 21ex_client_semaphore_and_shm.c: *)
(* a server passes lines of text through shared memory to a client, with   *)
(* the semaphores `consumer' and `producer' around it (ipc/myshm.h).  Both *)
(* programs set both semaphores to 1 when they start, in any order, and    *)
(* use them with SEM_UNDO.  A step is one system call, or one access to    *)
(* the shared memory, with the local work around it.                       *)
(***************************************************************************)
EXTENDS Integers

CONSTANTS
  MaxLines,   \* bound: the user types "end" in this line at the latest
  MaxShown,   \* bound: the number of lines the client showed saturates here
  SEMAEM      \* limit of the kernel on the sum of a process's undos (32767)

ASSUME ChatAssumption ==
  MaxLines \in Nat \ {0} /\ MaxShown \in Nat /\ SEMAEM \in Nat \ {0}

Programs == {"server", "client"}
Names == {"consumer", "producer"}

VARIABLES
  distinctKeys,  \* do the files exist that ftok makes the keys of?
  sem,           \* the semaphores of the kernel
  segments,      \* how many shared segments were made so far
  found,         \* is the last of them still found under its key?
  data,          \* the contents of each segment
  shmid,         \* the segment each program got
  pc,            \* where each program stands
  readbuf,       \* the line the server has read
  shown,         \* how many lines the client showed
  complained,    \* has a semop failed?
  withdrawn,     \* did an undo at the end of a program lower a semaphore?
  misled         \* did the client take a mix of two lines for "end"?

vars == <<distinctKeys, sem, segments, found, data, shmid, pc, readbuf, shown,
          complained, withdrawn, misled>>
shm == <<segments, found, data, shmid>>

(* A line is known by its number and by being "end"; `torn': the writer is  *)
(* in the middle of it.  A new segment is empty.                            *)
Line(n, end) == [n |-> n, end |-> end, torn |-> FALSE]
EmptyLine == Line(0, FALSE)

(* Without the files ftok fails with -1 for both names, a valid key: then   *)
(* there is one semaphore.                                                  *)
Sem(name) == IF distinctKeys THEN name ELSE "consumer"

Init ==
  /\ distinctKeys \in BOOLEAN
  /\ sem = [s \in Names |-> [exists |-> FALSE, val |-> 0, adj |-> [p \in Programs |-> 0]]]
  /\ segments = 0 /\ found = FALSE
  /\ data = [g \in 1 .. 2 |-> EmptyLine]
  /\ shmid = [p \in Programs |-> 0]
  /\ pc = [p \in Programs |-> "consumer"]
  /\ readbuf = EmptyLine
  /\ shown = 0
  /\ complained = FALSE /\ withdrawn = FALSE /\ misled = FALSE
-------------------------------------------------------------------------------
(* Both programs.                                                           *)
Goto(p, from, to) == pc[p] = from /\ pc' = [pc EXCEPT ![p] = to]

(* semget and init_a_semaphore: SETVAL forgets the undos of all programs.   *)
InitSem(p, name, to) ==
  /\ Goto(p, name, to)
  /\ sem' = [sem EXCEPT ![Sem(name)] =
               [exists |-> TRUE, val |-> 1, adj |-> [q \in Programs |-> 0]]]
  /\ UNCHANGED <<distinctKeys, shm, readbuf, shown, complained, withdrawn, misled>>

(* semop with SEM_UNDO waits while the value would be negative.  It fails   *)
(* on a removed semaphore and when the sum of undos would leave its range;  *)
(* semaphore_P and _V then say so, return 0, and nobody looks at that.      *)
Waits(s, op) == sem[s].exists /\ sem[s].val + op < 0
Fails(p, s, op) == ~sem[s].exists \/ sem[s].adj[p] - op \notin -SEMAEM - 1 .. SEMAEM
Adjusted(p, s, op) == [sem[s] EXCEPT !.val = @ + op, !.adj[p] = @ - op]

Semop(p, name, op) ==
  LET s == Sem(name) IN
  /\ ~Waits(s, op)
  /\ complained' = (complained \/ Fails(p, s, op))
  /\ sem' = IF Fails(p, s, op) THEN sem ELSE [sem EXCEPT ![s] = Adjusted(p, s, op)]

semaphore_P(p, name) == Semop(p, name, -1)
semaphore_V(p, name) == Semop(p, name, 1)

(* shmget makes a segment when none is found under the key.                 *)
ShmGet(p) ==
  /\ Goto(p, "shmget", "shmat")
  /\ found' = TRUE
  /\ segments' = IF found THEN segments ELSE segments + 1
  /\ shmid' = [shmid EXCEPT ![p] = segments']
  /\ UNCHANGED <<distinctKeys, sem, data, readbuf, shown, complained, withdrawn, misled>>

(* A removed segment lives on while a program is attached to it.            *)
Starting == {"consumer", "producer", "shmget", "shmat"}
Attached(g) == \E q \in Programs : shmid[q] = g /\ pc[q] \notin Starting \cup {"done"}
Lives(g) == Attached(g) \/ (found /\ g = segments)

ShmAttach(p, to) ==
  /\ IF Lives(shmid[p]) THEN Goto(p, "shmat", to) ELSE Goto(p, "shmat", "exit")
  /\ UNCHANGED <<distinctKeys, sem, shm, readbuf, shown, complained, withdrawn, misled>>

(* The end of a program: the kernel undoes what it did to the semaphores.   *)
Undone(p, s) ==
  LET v == sem[s].val + (IF sem[s].exists THEN sem[s].adj[p] ELSE 0) IN
  IF v < 0 THEN 0 ELSE v

Exit(p) ==
  /\ Goto(p, "exit", "done")
  /\ sem' = [s \in Names |-> [sem[s] EXCEPT !.val = Undone(p, s), !.adj[p] = 0]]
  /\ withdrawn' = (withdrawn \/ \E s \in Names : Undone(p, s) < sem[s].val)
  /\ UNCHANGED <<distinctKeys, shm, readbuf, shown, complained, misled>>
-------------------------------------------------------------------------------
(* The server.  The user types lines, "end" at some time.                   *)
FgetsLine ==
  /\ Goto("server", "fgets", "P")
  /\ \E end \in BOOLEAN :
       /\ readbuf.n + 1 = MaxLines => end
       /\ readbuf' = Line(readbuf.n + 1, end)
  /\ UNCHANGED <<distinctKeys, sem, shm, shown, complained, withdrawn, misled>>

ServerP ==
  /\ Goto("server", "P", "sprintf")
  /\ semaphore_P("server", "consumer")
  /\ UNCHANGED <<distinctKeys, shm, readbuf, shown, withdrawn, misled>>

(* sprintf copies byte by byte; between its two steps the text is a mix.    *)
SprintfBegin ==
  /\ Goto("server", "sprintf", "copying")
  /\ data' = [data EXCEPT ![shmid["server"]] = [readbuf EXCEPT !.torn = TRUE]]
  /\ UNCHANGED <<distinctKeys, sem, segments, found, shmid, readbuf, shown,
                 complained, withdrawn, misled>>

SprintfEnd ==
  /\ Goto("server", "copying", "V")
  /\ data' = [data EXCEPT ![shmid["server"]] = readbuf]
  /\ UNCHANGED <<distinctKeys, sem, segments, found, shmid, readbuf, shown,
                 complained, withdrawn, misled>>

MutantServerForgetsV ==
  /\ Goto("server", "V", IF readbuf.end THEN "remove" ELSE "fgets")
  /\ UNCHANGED <<distinctKeys, sem, shm, readbuf, shown, complained, withdrawn, misled>>

ServerV ==
  /\ Goto("server", "V", IF readbuf.end THEN "remove" ELSE "fgets")
  /\ semaphore_V("server", "producer")
  /\ UNCHANGED <<distinctKeys, shm, readbuf, shown, withdrawn, misled>>

(* shmctl(IPC_RMID): the segment is no longer found.                        *)
RemoveSegment ==
  /\ Goto("server", "remove", "exit")
  /\ found' = FALSE
  /\ UNCHANGED <<distinctKeys, sem, segments, data, shmid, readbuf, shown, complained,
                 withdrawn, misled>>
-------------------------------------------------------------------------------
(* The client.                                                              *)
ClientV ==
  /\ Goto("client", "V", "P")
  /\ semaphore_V("client", "consumer")
  /\ UNCHANGED <<distinctKeys, shm, readbuf, shown, withdrawn, misled>>

MutantClientSkipsP ==
  /\ Goto("client", "P", "printf")
  /\ UNCHANGED <<distinctKeys, sem, shm, readbuf, shown, complained, withdrawn, misled>>

ClientP ==
  /\ Goto("client", "P", "printf")
  /\ semaphore_P("client", "producer")
  /\ UNCHANGED <<distinctKeys, shm, readbuf, shown, withdrawn, misled>>

PrintLine ==
  /\ Goto("client", "printf", "test")
  /\ shown' = IF shown < MaxShown THEN shown + 1 ELSE shown
  /\ UNCHANGED <<distinctKeys, sem, shm, readbuf, complained, withdrawn, misled>>

(* A second later the client looks at the segment again, whatever is there  *)
(* by now.  A mix of the new line and the one before it may begin with      *)
(* "end" though neither does (an "egg" over an "and"); the first line comes *)
(* over zeros and can only do so itself.                                    *)
MutantStopsAtAnyLine(line) == {line.n > 0}

MaySeeEnd(line) == IF line.torn /\ (line.end \/ line.n > 1) THEN BOOLEAN ELSE {line.end}

TestEnd ==
  LET line == data[shmid["client"]] IN
  /\ pc["client"] = "test"
  /\ \E end \in MaySeeEnd(line) :
       /\ Goto("client", "test", IF end THEN "rmid producer" ELSE "V")
       /\ misled' = (misled \/ (end /\ line.torn /\ ~line.end))
  /\ UNCHANGED <<distinctKeys, sem, shm, readbuf, shown, complained, withdrawn>>

RemoveSem(name, from, to) ==
  /\ Goto("client", from, to)
  /\ sem' = [sem EXCEPT ![Sem(name)].exists = FALSE]
  /\ UNCHANGED <<distinctKeys, shm, readbuf, shown, complained, withdrawn, misled>>
-------------------------------------------------------------------------------
Start(p) == InitSem(p, "consumer", "producer")

ServerStep ==
  \/ InitSem("server", "producer", "shmget")
  \/ ShmGet("server") \/ ShmAttach("server", "fgets")
  \/ FgetsLine \/ ServerP \/ SprintfBegin \/ SprintfEnd \/ ServerV
  \/ RemoveSegment \/ Exit("server")

ClientStep ==
  \/ InitSem("client", "producer", "shmget")
  \/ ShmGet("client") \/ ShmAttach("client", "V")
  \/ ClientV \/ ClientP \/ PrintLine \/ TestEnd
  \/ RemoveSem("producer", "rmid producer", "rmid consumer")
  \/ RemoveSem("consumer", "rmid consumer", "exit")
  \/ Exit("client")

Next == (\E p \in Programs : Start(p)) \/ ServerStep \/ ClientStep

Spec == Init /\ [][Next]_vars
-------------------------------------------------------------------------------
SemType == [exists : BOOLEAN, val : Nat, adj : [Programs -> -SEMAEM - 1 .. SEMAEM]]
LineType == [n : 0 .. MaxLines, end : BOOLEAN, torn : BOOLEAN]

(* All variables have their types; no third segment is ever made.           *)
TypeOK ==
  /\ distinctKeys \in BOOLEAN /\ sem \in [Names -> SemType]
  /\ segments \in 0 .. 2 /\ found \in BOOLEAN
  /\ data \in [1 .. 2 -> LineType]
  /\ shmid \in [Programs -> 0 .. segments]
  /\ readbuf \in LineType /\ shown \in 0 .. MaxShown
  /\ complained \in BOOLEAN /\ withdrawn \in BOOLEAN /\ misled \in BOOLEAN

Blocked(p, name) == pc[p] = "P" /\ Waits(Sem(name), -1)
ServerBlocked == Blocked("server", "consumer")
ClientBlocked == Blocked("client", "producer")

(* However the two starts interleave, and whatever the second start does to *)
(* the semaphores the first is using, server and client never wait for each *)
(* other.                                                                   *)
NeverBothWait == ~(ServerBlocked /\ ClientBlocked)

InLoop(p) == pc[p] \notin Starting

(* While both run on two semaphores and every semop works, neither gets away *)
(* from the other: the client has shown at most two lines too many (each     *)
(* start sets producer to 1), and the server has at most three lines out     *)
(* that were not shown, and one more it waits with.                          *)
KeepsUp ==
  /\ distinctKeys /\ ~complained
  /\ InLoop("client") /\ InLoop("server") /\ pc["server"] \notin {"exit", "done"}
  => readbuf.n - shown \in -2 .. 4

(* The client removes the semaphores only when the server is past its last  *)
(* wait, or is copying a line over another one that makes an "end" with it  *)
(* (21ex_client:40): nothing else lets a semaphore vanish under a server    *)
(* that still has lines to send.                                            *)
RemovedAtTheEnd ==
  pc["client"] \in {"rmid producer", "rmid consumer"} /\ ~misled =>
    readbuf.end /\ pc["server"] \in {"copying", "V", "remove", "exit", "done"}

(* Once both programs run, the server gets its last line out and ends.      *)
ServerEnds ==
  InLoop("server") /\ InLoop("client") ~> pc["server"] = "done"

(* The client ends as well, and gets the last line first if it is not       *)
(* misled to leave before it (see RemovedAtTheEnd), unless the kernel       *)
(* withdrew the server's last V (SEM_UNDO), a semop failed, or the client   *)
(* uses a segment made after the server's was removed.                      *)
LastLineArrives ==
  InLoop("server") /\ InLoop("client")
    ~> pc["client"] = "done" \/ withdrawn \/ complained \/ shmid["client"] # shmid["server"]
================================================================================
