----------------------------- MODULE BoundedBuffer -----------------------------
(***************************************************************************)
(* The producer and the consumer of pthread/, around a ring of BUFFER_SIZE *)
(* slots of which one stays empty.  Two programs share the ring and the    *)
(* threads and differ in how put and get wait:                             *)
(*   4ex_mutex_and_condition_variable.c: a mutex and the conditions        *)
(*     notfull and notempty.  A section of the mutex runs from the lock    *)
(*     to the unlock or to pthread_cond_wait, and is one action.           *)
(*   5ex_use_semaphore_in_pthread.c: the semaphores sem_write and          *)
(*     sem_read, with nothing else around the ring.  Each call of a        *)
(*     semaphore, and the work between two of them, is one action.         *)
(* The variable `example' says which of the two runs.                      *)
(***************************************************************************)
EXTENDS Integers, Sequences

CONSTANTS BUFFER_SIZE,   \* 4 in the code
          ITEMS          \* how many numbers the producer puts (10 in the code)

ASSUME BufferAssumption == BUFFER_SIZE \in Nat \ {0, 1} /\ ITEMS \in Nat

VARIABLES
  example,           \* "condition" (4ex) or "semaphore" (5ex)
  buffer,            \* the ring
  readpos, writepos,
  n,                 \* how many values the producer has put
  received,          \* what the consumer got
  producer,          \* where the producer stands
  consumer,          \* where the consumer stands
  semRead, semWrite  \* the semaphores of 5ex

vars == <<example, buffer, readpos, writepos, n, received, producer, consumer,
          semRead, semWrite>>

OVER == -1
Item(k) == IF k < ITEMS THEN k ELSE OVER
Positions == 0 .. BUFFER_SIZE - 1

MutantAdvance(pos) == IF pos + 1 > BUFFER_SIZE THEN 0 ELSE pos + 1

Advance(pos) == IF pos + 1 >= BUFFER_SIZE THEN 0 ELSE pos + 1

MutantWholeRing == BUFFER_SIZE

FreeAtStart == BUFFER_SIZE - 1

Init ==
  /\ example \in {"condition", "semaphore"}
  /\ buffer = [i \in Positions |-> 0]
  /\ readpos = 0 /\ writepos = 0
  /\ n = 0 /\ received = << >>
  /\ producer = "put" /\ consumer = "get"
  /\ semRead = 0 /\ semWrite = FreeAtStart

(* buffer[writepos] = data; writepos++, and around at the end.              *)
Write ==
  /\ buffer' = [buffer EXCEPT ![writepos] = Item(n)]
  /\ writepos' = Advance(writepos)
  /\ n' = n + 1
  /\ UNCHANGED <<example, readpos, received>>

Read ==
  /\ received' = Append(received, buffer[readpos])
  /\ readpos' = Advance(readpos)
  /\ UNCHANGED <<example, buffer, writepos, n>>

ring == <<example, buffer, readpos, writepos, n, received>>
sems == <<semRead, semWrite>>

(* The producer puts OVER last; the consumer stops when it gets it.         *)
AfterPut(count) == IF count > ITEMS THEN "done" ELSE "put"
AfterGet(values) == IF values[Len(values)] = OVER THEN "done" ELSE "get"
-------------------------------------------------------------------------------
(* 4ex.  pthread_cond_signal wakes the other thread if it waits; a woken    *)
(* thread takes the mutex and tests its condition again.                    *)
MutantNeverFull == writepos + 1 = readpos

Full == (writepos + 1) % BUFFER_SIZE = readpos
Empty == writepos = readpos

MutantNoSignal == UNCHANGED consumer

SignalNotEmpty == consumer' = IF consumer = "waiting" THEN "get" ELSE consumer
SignalNotFull == producer' = IF producer = "waiting" THEN "put" ELSE producer

CondPut ==
  /\ example = "condition" /\ producer = "put"
  /\ \/ Full /\ producer' = "waiting" /\ UNCHANGED <<ring, consumer>>
     \/ ~Full /\ Write /\ producer' = AfterPut(n') /\ SignalNotEmpty
  /\ UNCHANGED sems

CondGet ==
  /\ example = "condition" /\ consumer = "get"
  /\ \/ Empty /\ consumer' = "waiting" /\ UNCHANGED <<ring, producer>>
     \/ ~Empty /\ Read /\ consumer' = AfterGet(received') /\ SignalNotFull
  /\ UNCHANGED sems

(* pthread_cond_wait may return without a signal.                           *)
SpuriousWakeup ==
  /\ \/ producer = "waiting" /\ producer' = "put" /\ UNCHANGED consumer
     \/ consumer = "waiting" /\ consumer' = "get" /\ UNCHANGED producer
  /\ UNCHANGED <<ring, sems>>
-------------------------------------------------------------------------------
(* 5ex.                                                                     *)
WaitWrite ==
  /\ example = "semaphore" /\ producer = "put"
  /\ semWrite > 0
  /\ semWrite' = semWrite - 1
  /\ producer' = "write"
  /\ UNCHANGED <<ring, consumer, semRead>>

SemWrite == producer = "write" /\ Write /\ producer' = "post" /\ UNCHANGED <<consumer, sems>>

PostRead ==
  /\ producer = "post"
  /\ semRead' = semRead + 1
  /\ producer' = AfterPut(n)
  /\ UNCHANGED <<ring, consumer, semWrite>>

WaitRead ==
  /\ example = "semaphore" /\ consumer = "get"
  /\ semRead > 0
  /\ semRead' = semRead - 1
  /\ consumer' = "read"
  /\ UNCHANGED <<ring, producer, semWrite>>

SemRead == consumer = "read" /\ Read /\ consumer' = "post" /\ UNCHANGED <<producer, sems>>

PostWrite ==
  /\ consumer = "post"
  /\ semWrite' = semWrite + 1
  /\ consumer' = AfterGet(received)
  /\ UNCHANGED <<ring, producer, semRead>>
-------------------------------------------------------------------------------
ProducerStep == CondPut \/ WaitWrite \/ SemWrite \/ PostRead
ConsumerStep == CondGet \/ WaitRead \/ SemRead \/ PostWrite

(* main has joined both threads.                                            *)
Joined == producer = "done" /\ consumer = "done"

Next == ProducerStep \/ ConsumerStep \/ SpuriousWakeup \/ (Joined /\ UNCHANGED vars)

Spec == Init /\ [][Next]_vars

(* Both threads run; a wakeup that nobody signalled need not happen.        *)
FairSpec == Spec /\ WF_vars(ProducerStep) /\ WF_vars(ConsumerStep)
-------------------------------------------------------------------------------
TypeOK ==
  /\ example \in {"condition", "semaphore"}
  /\ buffer \in [Positions -> Int]
  /\ readpos \in Positions /\ writepos \in Positions
  /\ n \in Nat
  /\ received \in Seq(Int)
  /\ producer \in {"put", "waiting", "write", "post", "done"}
  /\ consumer \in {"get", "waiting", "read", "post", "done"}
  /\ semRead \in Nat /\ semWrite \in Nat

Held == (writepos - readpos) % BUFFER_SIZE
One(condition) == IF condition THEN 1 ELSE 0

(* 4ex: a thread sleeps on its condition only while the condition is false. *)
(* No signal is lost between the test and the wait (the mutex is held), and *)
(* one signal per call is enough (4ex:29-32, 43, 52-54, 62).                *)
SleepersHaveReason ==
  /\ producer = "waiting" => Full
  /\ consumer = "waiting" => Empty

(* 5ex: the semaphores count the ring: values that can be read and places   *)
(* that can be written, less what the other thread took but did not return. *)
(* So neither thread needs to look at the other's position (5ex:33-38, 44). *)
CountsMatch ==
  example = "semaphore" =>
    /\ semRead + One(consumer = "read") + One(producer = "post") = Held
    /\ semWrite + One(producer = "write") + One(consumer = "post") = BUFFER_SIZE - 1 - Held

(* All that was put arrives, and both threads end, so that main returns.    *)
AllArrives == <>(Joined /\ received = [k \in 1 .. ITEMS + 1 |-> Item(k - 1)])

Abstract == INSTANCE Fifo WITH
  CAPACITY <- BUFFER_SIZE - 1,
  Values <- OVER .. ITEMS,
  queue <- [k \in 1 .. Held |-> buffer[(readpos + k - 1) % BUFFER_SIZE]]

(* Both programs are a first-in first-out queue: no value is lost, doubled, *)
(* overtaken or read from a place that holds none.                          *)
ImplementsFifo == Abstract!Spec
===============================================================================
