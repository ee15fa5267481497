-------------------------- MODULE BoundedBufferProofs --------------------------
(***************************************************************************)
(* Theorems about BoundedBuffer, for every size of the ring and every      *)
(* number of values: the types, the condition variables of 4ex, the        *)
(* semaphores of 5ex, and that both programs are a first-in first-out      *)
(* queue.                                                                  *)
(***************************************************************************)
EXTENDS BoundedBuffer, TLAPS, SequenceTheorems

(* The size of the ring and the number of values, as numbers.               *)
LEMMA Size == BUFFER_SIZE \in Nat /\ BUFFER_SIZE >= 2 /\ ITEMS \in Nat
BY BufferAssumption

(* The arithmetic of the positions, less than one turn around the ring.     *)
LEMMA Wrap ==
  ASSUME NEW a \in Int, -BUFFER_SIZE <= a, a < 2 * BUFFER_SIZE
  PROVE  a % BUFFER_SIZE = IF a < 0 THEN a + BUFFER_SIZE
                           ELSE IF a < BUFFER_SIZE THEN a ELSE a - BUFFER_SIZE
BY Size

-------------------------------------------------------------------------------
(* The mutex and the conditions belong to 4ex, the semaphores to 5ex, and   *)
(* what is put is a number or OVER.                                         *)
Data == OVER .. ITEMS

TypeInv ==
  /\ TypeOK
  /\ buffer \in [Positions -> Data] /\ received \in Seq(Data)
  /\ example = "condition" => /\ producer \in {"put", "waiting", "done"}
                              /\ consumer \in {"get", "waiting", "done"}
  /\ example = "semaphore" => producer # "waiting" /\ consumer # "waiting"

(* The buffer starts with these types.                                      *)
LEMMA InitTypeInv == Init => TypeInv
BY Size DEF Init, FreeAtStart, TypeInv, TypeOK, Data, OVER, Positions

(* The position after a position is one.                                    *)
LEMMA AdvanceTypes ==
  ASSUME NEW p \in Positions
  PROVE  Advance(p) \in Positions
BY Size DEF Advance, Positions

(* What is put for a number is a number or OVER.                            *)
LEMMA ItemTypes ==
  ASSUME NEW k \in Nat
  PROVE  Item(k) \in Data
BY Size DEF Item, Data, OVER

(* A write changes the slot, the position and the number that comes next.   *)
LEMMA WriteTypes ==
  ASSUME TypeInv, Write
  PROVE  /\ buffer' \in [Positions -> Data] /\ buffer' \in [Positions -> Int]
         /\ writepos' \in Positions /\ n' \in Nat
         /\ UNCHANGED <<example, readpos, received>>
<1>1. Item(n) \in Data /\ Item(n) \in Int
  BY ItemTypes, Size DEF TypeInv, TypeOK, Data, OVER
<1> QED
  BY <1>1, AdvanceTypes DEF Write, TypeInv, TypeOK

(* A read changes the position and what was received.                       *)
LEMMA ReadTypes ==
  ASSUME TypeInv, Read
  PROVE  /\ received' \in Seq(Data) /\ received' \in Seq(Int)
         /\ readpos' \in Positions
         /\ UNCHANGED <<example, buffer, writepos, n>>
<1>1. buffer[readpos] \in Data /\ buffer[readpos] \in Int
  BY DEF TypeInv, TypeOK
<1> QED
  BY <1>1, AdvanceTypes DEF Read, TypeInv, TypeOK

(* TypeInv is inductive.                                                    *)
LEMMA TypeInductive ==
  ASSUME TypeInv, [Next]_vars
  PROVE  TypeInv'
<1> USE DEF AfterPut, AfterGet, ring, sems
<1>1. CASE CondPut
  BY <1>1, WriteTypes DEF CondPut, SignalNotEmpty, TypeInv, TypeOK
<1>2. CASE CondGet
  BY <1>2, ReadTypes DEF CondGet, SignalNotFull, TypeInv, TypeOK
<1>3. CASE SpuriousWakeup
  BY <1>3 DEF SpuriousWakeup, TypeInv, TypeOK
<1>4. CASE WaitWrite \/ PostRead
  BY <1>4 DEF WaitWrite, PostRead, TypeInv, TypeOK
<1>5. CASE SemWrite
  BY <1>5, WriteTypes DEF SemWrite, TypeInv, TypeOK
<1>6. CASE WaitRead \/ PostWrite
  BY <1>6 DEF WaitRead, PostWrite, TypeInv, TypeOK
<1>7. CASE SemRead
  BY <1>7, ReadTypes DEF SemRead, TypeInv, TypeOK
<1>8. CASE UNCHANGED vars
  BY <1>8 DEF vars, TypeInv, TypeOK
<1> QED
  BY <1>1, <1>2, <1>3, <1>4, <1>5, <1>6, <1>7, <1>8
     DEF Next, ProducerStep, ConsumerStep

(* Every variable keeps its type: both positions stay in the ring, and no   *)
(* semaphore falls below zero.                                              *)
THEOREM TypeCorrect == Spec => []TypeOK
<1>1. TypeInv => TypeOK
  BY DEF TypeInv
<1> QED
  BY InitTypeInv, TypeInductive, <1>1, PTL DEF Spec
-------------------------------------------------------------------------------
(* How many values the ring holds, and what a put and a get do to that.     *)
LEMMA Distance ==
  ASSUME NEW r \in Positions, NEW w \in Positions
  PROVE  /\ (w - r) % BUFFER_SIZE = IF w >= r THEN w - r ELSE w - r + BUFFER_SIZE
         /\ (w - r) % BUFFER_SIZE \in 0 .. BUFFER_SIZE - 1
         /\ (w + 1) % BUFFER_SIZE = Advance(w)
BY Size, Wrap DEF Positions, Advance

(* Full and Empty, by how much the ring holds.                              *)
LEMMA FullAndEmpty ==
  ASSUME TypeInv
  PROVE  /\ Held \in 0 .. BUFFER_SIZE - 1
         /\ Full <=> Held = BUFFER_SIZE - 1
         /\ Empty <=> Held = 0
<1>1. readpos \in Positions /\ writepos \in Positions
  BY DEF TypeInv, TypeOK
<1> QED
  BY <1>1, Distance, Size DEF Held, Full, Empty, Positions, Advance

(* A write brings the positions one further apart, a read one closer.       *)
LEMMA DistanceGrows ==
  ASSUME NEW r \in Positions, NEW w \in Positions
  PROVE  /\ (w - r) % BUFFER_SIZE # BUFFER_SIZE - 1
              => (Advance(w) - r) % BUFFER_SIZE = ((w - r) % BUFFER_SIZE) + 1
         /\ (w - r) % BUFFER_SIZE # 0
              => (w - Advance(r)) % BUFFER_SIZE = ((w - r) % BUFFER_SIZE) - 1
<1> DEFINE Gap(a, b) == IF b >= a THEN b - a ELSE b - a + BUFFER_SIZE
<1>1. Advance(w) \in Positions /\ Advance(r) \in Positions
  BY AdvanceTypes
<1>2. /\ (w - r) % BUFFER_SIZE = Gap(r, w)
      /\ (Advance(w) - r) % BUFFER_SIZE = Gap(r, Advance(w))
      /\ (w - Advance(r)) % BUFFER_SIZE = Gap(Advance(r), w)
  BY <1>1, Distance
<1>3. /\ Gap(r, w) # BUFFER_SIZE - 1 => Gap(r, Advance(w)) = Gap(r, w) + 1
      /\ Gap(r, w) # 0 => Gap(Advance(r), w) = Gap(r, w) - 1
  BY Size DEF Positions, Advance
<1> QED
  BY <1>2, <1>3

(* A write into a ring with room adds one.                                  *)
LEMMA WriteHeld ==
  ASSUME TypeInv, Write, Held # BUFFER_SIZE - 1
  PROVE  Held' = Held + 1
BY DistanceGrows DEF Write, Held, TypeInv, TypeOK

(* A read from a ring that holds something takes one.                       *)
LEMMA ReadHeld ==
  ASSUME TypeInv, Read, Held # 0
  PROVE  Held' = Held - 1
BY DistanceGrows DEF Read, Held, TypeInv, TypeOK

-------------------------------------------------------------------------------
(* 4ex.  SleepersHaveReason is inductive with the types alone.              *)
LEMMA SleepersInductive ==
  ASSUME TypeInv, SleepersHaveReason, [Next]_vars
  PROVE  SleepersHaveReason'
<1> USE DEF SleepersHaveReason, AfterPut, AfterGet, ring, sems
<1>1. CASE CondPut
  BY <1>1, FullAndEmpty, Size DEF CondPut, SignalNotEmpty, Full, Empty, TypeInv, TypeOK
<1>2. CASE CondGet
  BY <1>2, FullAndEmpty, Size DEF CondGet, SignalNotFull, Full, Empty, TypeInv, TypeOK
<1>3. CASE SpuriousWakeup
  BY <1>3 DEF SpuriousWakeup, Full, Empty
<1>4. CASE WaitWrite \/ SemWrite \/ PostRead \/ WaitRead \/ SemRead \/ PostWrite
  BY <1>4 DEF WaitWrite, SemWrite, PostRead, WaitRead, SemRead, PostWrite, TypeInv, TypeOK
<1>5. CASE UNCHANGED vars
  BY <1>5 DEF vars, Full, Empty
<1> QED
  BY <1>1, <1>2, <1>3, <1>4, <1>5 DEF Next, ProducerStep, ConsumerStep

(* A thread of 4ex sleeps only while it has reason to: no signal is lost.   *)
THEOREM NoLostSignal == Spec => []SleepersHaveReason
<1>1. Init => SleepersHaveReason
  BY DEF Init, SleepersHaveReason
<1> QED
  BY InitTypeInv, TypeInductive, SleepersInductive, <1>1, PTL DEF Spec

-------------------------------------------------------------------------------
(* 5ex.  The counts say that a thread that got through its semaphore finds  *)
(* a place to write, or a value to read.                                    *)
CountsInv == TypeInv /\ CountsMatch

(* Who goes on to write has room, who goes on to read has a value.          *)
LEMMA Room ==
  ASSUME CountsInv
  PROVE  /\ example = "condition" /\ ~Full => Held # BUFFER_SIZE - 1
         /\ example = "condition" /\ ~Empty => Held # 0
         /\ producer = "write" => Held # BUFFER_SIZE - 1 /\ example = "semaphore"
         /\ consumer = "read" => Held # 0 /\ example = "semaphore"
BY FullAndEmpty, Size DEF CountsInv, CountsMatch, One, TypeInv, TypeOK

(* CountsInv is inductive.                                                  *)
LEMMA CountsInductive ==
  ASSUME CountsInv, [Next]_vars
  PROVE  CountsInv'
<1>0. TypeInv /\ TypeInv'
  BY TypeInductive DEF CountsInv
<1>h. Held \in 0 .. BUFFER_SIZE - 1
  BY <1>0, FullAndEmpty
<1> USE DEF CountsInv, CountsMatch, One, ring, sems
<1>1. CASE CondPut \/ CondGet
  BY <1>0, <1>1 DEF CondPut, CondGet, Write, Read, TypeInv, TypeOK
<1>2. CASE SpuriousWakeup
  BY <1>0, <1>2 DEF SpuriousWakeup, TypeInv
<1>3. CASE SemWrite
  <2>1. Held' = Held + 1
    BY <1>0, <1>3, Room, WriteHeld DEF SemWrite
  <2> QED
    BY <1>0, <1>3, <1>h, <2>1, Size DEF SemWrite, Write, TypeInv, TypeOK
<1>4. CASE SemRead
  <2>1. Held' = Held - 1
    BY <1>0, <1>4, Room, ReadHeld DEF SemRead
  <2> QED
    BY <1>0, <1>4, <1>h, <2>1, Size DEF SemRead, Read, TypeInv, TypeOK
<1>5. CASE WaitWrite \/ PostRead \/ WaitRead \/ PostWrite
  <2>1. Held' = Held /\ example' = example
    BY <1>5 DEF WaitWrite, PostRead, WaitRead, PostWrite, Held
  <2>2. CASE WaitWrite
    BY <1>0, <1>h, <2>1, <2>2, Size DEF WaitWrite, TypeInv, TypeOK
  <2>3. CASE PostRead
    BY <1>0, <1>h, <2>1, <2>3, Size DEF PostRead, AfterPut, TypeInv, TypeOK
  <2>4. CASE WaitRead
    BY <1>0, <1>h, <2>1, <2>4, Size DEF WaitRead, TypeInv, TypeOK
  <2>5. CASE PostWrite
    BY <1>0, <1>h, <2>1, <2>5, Size DEF PostWrite, AfterGet, TypeInv, TypeOK
  <2> QED
    BY <1>5, <2>2, <2>3, <2>4, <2>5
<1>6. CASE UNCHANGED vars
  BY <1>0, <1>6 DEF vars, Held
<1> QED
  BY <1>1, <1>2, <1>3, <1>4, <1>5, <1>6 DEF Next, ProducerStep, ConsumerStep

(* The semaphores start as 5ex sets them.                                   *)
LEMMA InitCounts == Init => CountsInv
<1> SUFFICES ASSUME Init PROVE CountsInv
  OBVIOUS
<1>1. TypeInv /\ readpos = 0 /\ writepos = 0
  BY InitTypeInv DEF Init
<1>2. Held = 0
  BY <1>1, FullAndEmpty DEF Empty
<1> QED
  BY <1>1, <1>2, Size DEF Init, FreeAtStart, CountsInv, CountsMatch, One

(* The semaphores of 5ex always say what the ring holds, so that neither    *)
(* thread overwrites a value that was not read, or reads one twice.         *)
THEOREM SemaphoresCount == Spec => []CountsMatch
<1>1. CountsInv => CountsMatch
  BY DEF CountsInv
<1> QED
  BY InitCounts, CountsInductive, <1>1, PTL DEF Spec

-------------------------------------------------------------------------------
(* The queue that the ring stands for: what is held, from readpos on.       *)
Queue == [k \in 1 .. Held |-> buffer[(readpos + k - 1) % BUFFER_SIZE]]

(* The slots from a position on, around the end of the ring.                *)
LEMMA QueueSlots ==
  ASSUME NEW r \in Positions, NEW k \in 1 .. BUFFER_SIZE
  PROVE  /\ (r + k - 1) % BUFFER_SIZE = IF r + k - 1 < BUFFER_SIZE THEN r + k - 1
                                        ELSE r + k - 1 - BUFFER_SIZE
         /\ (r + k - 1) % BUFFER_SIZE \in Positions
         /\ (r + 1 - 1) % BUFFER_SIZE = r
<1>1. r + k - 1 \in Int /\ -BUFFER_SIZE <= r + k - 1 /\ r + k - 1 < 2 * BUFFER_SIZE
  BY Size DEF Positions
<1>2. (r + k - 1) % BUFFER_SIZE = IF r + k - 1 < BUFFER_SIZE THEN r + k - 1
                                  ELSE r + k - 1 - BUFFER_SIZE
  BY <1>1, Wrap, Size DEF Positions
<1>3. (r + 1 - 1) % BUFFER_SIZE = r
  BY Wrap, Size DEF Positions
<1> QED
  BY <1>1, <1>2, <1>3, Size DEF Positions

(* The queue is a sequence of values; its head is the slot at readpos.      *)
LEMMA QueueTypes ==
  ASSUME TypeInv
  PROVE  /\ Queue \in Seq(Data) /\ Len(Queue) = Held
         /\ Held # 0 => Queue # << >> /\ Head(Queue) = buffer[readpos]
<1>1. Held \in 0 .. BUFFER_SIZE - 1 /\ readpos \in Positions /\ buffer \in [Positions -> Data]
  BY FullAndEmpty DEF TypeInv, TypeOK
<1>2. \A k \in 1 .. Held : buffer[(readpos + k - 1) % BUFFER_SIZE] \in Data
  BY <1>1, QueueSlots, Size
<1>3. Queue \in Seq(Data) /\ Len(Queue) = Held
  BY <1>1, <1>2 DEF Queue
<1>4. ASSUME Held # 0 PROVE Queue # << >> /\ Head(Queue) = buffer[readpos]
  <2>1. 1 \in 1 .. Held /\ 1 \in 1 .. BUFFER_SIZE
    BY <1>1, <1>4, Size
  <2>2. Queue[1] = buffer[readpos]
    BY <1>1, <2>1, QueueSlots DEF Queue
  <2> QED
    BY <1>3, <1>4, <2>2
<1> QED
  BY <1>3, <1>4

(* Two sequences with the same elements are the same.                       *)
LEMMA IsAppend ==
  ASSUME NEW S, NEW p \in Seq(S), NEW q \in Seq(S), NEW e \in S, Len(p) = Len(q) + 1,
         \A k \in 1 .. Len(q) : p[k] = q[k], p[Len(q) + 1] = e
  PROVE  p = Append(q, e)
<1>1. /\ Append(q, e) \in Seq(S) /\ Len(Append(q, e)) = Len(q) + 1
      /\ \A k \in 1 .. Len(q) : Append(q, e)[k] = q[k]
      /\ Append(q, e)[Len(q) + 1] = e
  BY AppendProperties
<1>2. \A k \in 1 .. Len(p) : k \in 1 .. Len(q) \/ k = Len(q) + 1
  OBVIOUS
<1>3. \A k \in 1 .. Len(p) : p[k] = Append(q, e)[k]
  BY <1>1, <1>2
<1> QED
  BY <1>1, <1>3, SeqEqual

(* A sequence with the elements of another but the first is its tail.       *)
LEMMA IsTail ==
  ASSUME NEW S, NEW p \in Seq(S), NEW q \in Seq(S), q # << >>, Len(p) = Len(q) - 1,
         \A k \in 1 .. Len(p) : p[k] = q[k + 1]
  PROVE  p = Tail(q)
<1>1. /\ Tail(q) \in Seq(S) /\ Len(Tail(q)) = Len(q) - 1
      /\ \A k \in 1 .. Len(Tail(q)) : Tail(q)[k] = q[k + 1]
  BY HeadTailProperties
<1> QED
  BY <1>1, SeqEqual

(* The place of writepos is the one after the last value held.              *)
LEMMA WriteSlot ==
  ASSUME TypeInv, Held # BUFFER_SIZE - 1
  PROVE  /\ (readpos + (Held + 1) - 1) % BUFFER_SIZE = writepos
         /\ \A k \in 1 .. Held : (readpos + k - 1) % BUFFER_SIZE # writepos
<1>1. /\ readpos \in Positions /\ writepos \in Positions
      /\ Held = IF writepos >= readpos THEN writepos - readpos
                ELSE writepos - readpos + BUFFER_SIZE
      /\ Held \in 0 .. BUFFER_SIZE - 1
  BY Distance DEF TypeInv, TypeOK, Held
<1>2. (readpos + (Held + 1) - 1) % BUFFER_SIZE = writepos
  <2>1. Held + 1 \in 1 .. BUFFER_SIZE
    BY <1>1, Size
  <2>2. (readpos + (Held + 1) - 1) % BUFFER_SIZE =
          IF readpos + (Held + 1) - 1 < BUFFER_SIZE THEN readpos + (Held + 1) - 1
          ELSE readpos + (Held + 1) - 1 - BUFFER_SIZE
    BY <1>1, <2>1, QueueSlots
  <2> QED
    BY <1>1, <2>2, Size DEF Positions
<1>3. ASSUME NEW k \in 1 .. Held PROVE (readpos + k - 1) % BUFFER_SIZE # writepos
  <2>1. k \in 1 .. BUFFER_SIZE
    BY <1>1, Size
  <2>2. (readpos + k - 1) % BUFFER_SIZE =
          IF readpos + k - 1 < BUFFER_SIZE THEN readpos + k - 1
          ELSE readpos + k - 1 - BUFFER_SIZE
    BY <1>1, <2>1, QueueSlots
  <2> QED
    BY <1>1, <2>2, Size DEF Positions
<1> QED
  BY <1>2, <1>3

(* A write appends to the queue.                                            *)
LEMMA WriteQueue ==
  ASSUME TypeInv, Write, Held # BUFFER_SIZE - 1
  PROVE  Queue' = Append(Queue, Item(n))
<1>1. Held' = Held + 1 /\ Held \in Nat
  BY WriteHeld, FullAndEmpty
<1>2. buffer \in [Positions -> Data] /\ writepos \in Positions /\ readpos' = readpos
  BY DEF Write, TypeInv, TypeOK
<1>3. buffer'[writepos] = Item(n) /\ \A p \in Positions \ {writepos} : buffer'[p] = buffer[p]
  BY <1>2 DEF Write
<1>4. Queue' = [k \in 1 .. Held + 1 |-> buffer'[(readpos + k - 1) % BUFFER_SIZE]]
  BY <1>1, <1>2 DEF Queue
<1>5. ASSUME NEW k \in 1 .. Held PROVE Queue'[k] = Queue[k]
  <2>1. k \in 1 .. BUFFER_SIZE /\ k \in 1 .. Held + 1
    BY <1>1, FullAndEmpty, Size
  <2>2. (readpos + k - 1) % BUFFER_SIZE \in Positions \ {writepos}
    BY <2>1, QueueSlots, WriteSlot DEF TypeInv, TypeOK
  <2> QED
    BY <1>3, <1>4, <2>1, <2>2 DEF Queue
<1>6. Queue'[Held + 1] = Item(n)
  BY <1>1, <1>3, <1>4, WriteSlot
<1>7. Len(Queue) = Held /\ Queue \in Seq(Data) /\ Item(n) \in Data
  BY QueueTypes, ItemTypes DEF TypeInv, TypeOK
<1>8. \A k \in 1 .. Held + 1 : k \in 1 .. Held \/ k = Held + 1
  BY <1>1
<1>9. \A k \in 1 .. Held + 1 : Queue'[k] \in Data
  BY <1>5, <1>6, <1>7, <1>8
<1>10. Queue' \in Seq(Data) /\ Len(Queue') = Held + 1
  BY <1>1, <1>4, <1>9
<1> QED
  BY <1>5, <1>6, <1>7, <1>10, IsAppend

(* A read takes the head of the queue.                                      *)
LEMMA ReadQueue ==
  ASSUME TypeInv, Read, Held # 0
  PROVE  Queue' = Tail(Queue) /\ received' = Append(received, Head(Queue))
<1>1. Held' = Held - 1 /\ Held \in 1 .. BUFFER_SIZE - 1
  BY ReadHeld, FullAndEmpty
<1>2. /\ buffer' = buffer /\ readpos' = Advance(readpos) /\ readpos \in Positions
      /\ Advance(readpos) \in Positions
  BY AdvanceTypes DEF Read, TypeInv, TypeOK
<1>3. Queue' = [k \in 1 .. Held - 1 |-> buffer[(Advance(readpos) + k - 1) % BUFFER_SIZE]]
  BY <1>1, <1>2 DEF Queue
<1>4. ASSUME NEW k \in 1 .. Held - 1 PROVE Queue'[k] = Queue[k + 1]
  <2>1. k \in 1 .. BUFFER_SIZE /\ k + 1 \in 1 .. BUFFER_SIZE /\ k + 1 \in 1 .. Held
    BY <1>1, Size
  <2>2. (Advance(readpos) + k - 1) % BUFFER_SIZE = (readpos + (k + 1) - 1) % BUFFER_SIZE
    <3>1. (Advance(readpos) + k - 1) % BUFFER_SIZE =
            IF Advance(readpos) + k - 1 < BUFFER_SIZE THEN Advance(readpos) + k - 1
            ELSE Advance(readpos) + k - 1 - BUFFER_SIZE
      BY <1>2, <2>1, QueueSlots
    <3>2. (readpos + (k + 1) - 1) % BUFFER_SIZE =
            IF readpos + (k + 1) - 1 < BUFFER_SIZE THEN readpos + (k + 1) - 1
            ELSE readpos + (k + 1) - 1 - BUFFER_SIZE
      BY <1>2, <2>1, QueueSlots
    <3> QED
      BY <1>1, <1>2, <3>1, <3>2, Size DEF Advance, Positions
  <2> QED
    BY <1>3, <2>1, <2>2 DEF Queue
<1>5. Queue \in Seq(Data) /\ Len(Queue) = Held /\ Queue # << >> /\ Head(Queue) = buffer[readpos]
  BY <1>1, QueueTypes
<1>6. \A k \in 1 .. Held - 1 : Queue'[k] \in Data
  <2>1. \A k \in 1 .. Held - 1 : k + 1 \in 1 .. Held
    BY <1>1
  <2> QED
    BY <1>4, <1>5, <2>1
<1>7. Queue' \in Seq(Data) /\ Len(Queue') = Held - 1
  BY <1>1, <1>3, <1>6
<1>8. Queue' = Tail(Queue)
  BY <1>4, <1>5, <1>7, IsTail
<1> QED
  BY <1>5, <1>8 DEF Read

(* What the ring holds changes by an access of one of the threads only; a   *)
(* write has room and a read has a value.                                   *)
LEMMA Accesses ==
  ASSUME CountsInv, [Next]_vars
  PROVE  \/ Write /\ Held # BUFFER_SIZE - 1
         \/ Read /\ Held # 0
         \/ UNCHANGED <<Queue, received>>
<1> USE DEF ring, sems
<1>1. CASE CondPut
  BY <1>1, Room DEF CondPut, Queue, Held
<1>2. CASE CondGet
  BY <1>2, Room DEF CondGet, Queue, Held
<1>3. CASE SemWrite \/ SemRead
  BY <1>3, Room DEF SemWrite, SemRead
<1>4. CASE SpuriousWakeup \/ WaitWrite \/ PostRead \/ WaitRead \/ PostWrite
  BY <1>4 DEF SpuriousWakeup, WaitWrite, PostRead, WaitRead, PostWrite, Queue, Held
<1>5. CASE UNCHANGED vars
  BY <1>5 DEF vars, Queue, Held
<1> QED
  BY <1>1, <1>2, <1>3, <1>4, <1>5 DEF Next, ProducerStep, ConsumerStep

(* Every step of a program is a put, a get or nothing to the queue.         *)
LEMMA FifoStep ==
  ASSUME CountsInv, [Next]_vars
  PROVE  Abstract!Next \/ UNCHANGED <<Queue, received>>
<1>1. TypeInv
  BY DEF CountsInv
<1>2. CASE Write /\ Held # BUFFER_SIZE - 1
  <2>1. Queue' = Append(Queue, Item(n)) /\ Item(n) \in OVER .. ITEMS /\ received' = received
    BY <1>1, <1>2, WriteQueue, ItemTypes DEF TypeInv, TypeOK, Write, Data
  <2>2. Len(Queue) < BUFFER_SIZE - 1
    BY <1>1, <1>2, QueueTypes, FullAndEmpty, Size
  <2>3. Abstract!Put
    BY <2>1, <2>2 DEF Abstract!Put, Queue
  <2> QED
    BY <2>3 DEF Abstract!Next
<1>3. CASE Read /\ Held # 0
  <2>1. Queue # << >> /\ Queue' = Tail(Queue) /\ received' = Append(received, Head(Queue))
    BY <1>1, <1>3, QueueTypes, ReadQueue
  <2>2. Abstract!Get
    BY <2>1 DEF Abstract!Get, Queue
  <2> QED
    BY <2>2 DEF Abstract!Next
<1> QED
  BY <1>2, <1>3, Accesses

(* Both programs are a first-in first-out queue of BUFFER_SIZE - 1 places:  *)
(* no value is lost, doubled, overtaken, or read where none is.             *)
THEOREM IsFifo == Spec => ImplementsFifo
<1>1. Init => Abstract!Init
  <2> SUFFICES ASSUME Init PROVE Abstract!Init
    OBVIOUS
  <2>1. TypeInv /\ Held = 0 /\ received = << >>
    BY InitTypeInv, FullAndEmpty DEF Init, Empty
  <2>2. Queue = << >>
    BY <2>1, QueueTypes
  <2> QED
    BY <2>1, <2>2 DEF Abstract!Init, Queue
<1>2. CountsInv /\ [Next]_vars => [Abstract!Next]_<<Queue, received>>
  BY FifoStep
<1> QED
  BY InitCounts, CountsInductive, <1>1, <1>2, PTL DEF Spec, ImplementsFifo, Abstract!Spec, Queue
===============================================================================
