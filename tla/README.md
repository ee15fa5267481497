# Verification of the programs of learn_linux_c

TLA+ modules, TLC configurations and TLAPS proofs for the concurrent programs of
this repository. The repository is a collection of Linux C programs; its one
larger program is a ticket shop, a threaded TCP server and a client with GTK
windows (`src/gnome_ticket_buy`). The small programs under `src/pthread`,
`src/ipc`, `src/process` and `src/socket` each show one facility.

`PROJECT.json` lists the runs, the source lines behind each definition, the
hazards, the findings and the theorems.

## 1. The system

### The ticket server (`src/gnome_ticket_buy`)

Three kinds of thread live in the server process.

- The **GTK thread** runs `startserver` and `stopserver` (menu) and, every 500 ms,
  `info_print` (`server.c`).
- One **listen thread** accepts connections, ends an older thread of the same
  client address (`check_connection`), takes a slot of `thread_buff`
  (`get_free_buff`), fills it and creates a service thread (`server.c:17-68`).
- A **service thread** per connection registers its handle in the slot and
  answers the requests BUY_TICKET, INQUIRE_ONE and INQUIRE_ALL
  (`servicethread.h`).

They share: `ticket_list` with one mutex per flight; the global record `message`,
with no mutex; the table `thread_buff` under `buff_mutex`; and the ring `info` of
output lines under `info_mutex`. Threads are ended with `pthread_cancel` and
`pthread_join` (deferred cancellation). The client is one GTK thread that sends a
16-byte record and waits for an answer for at most five seconds.

| part | state | operations | module |
|---|---|---|---|
| request service, ticket list | `ticket_list`, `message`, locals of each thread | `service_thread`, `init_message`, `init_ticket_list` | `TicketSale`, abstract: `AtomicSale` |
| info ring | `info[]`, the slot each writer was given | `get_free_info`, `add_info`, `info_print` | `InfoRing`, with texts and the window: `InfoBuffer` |
| threads and thread table | `thread_buff[]`, `buff_mutex`, connections, life of the threads | `startserver`, `stopserver`, `listen_thread`, `check_connection`, `free_buff`, `thread_err` | `ServerLifecycle`, which instantiates `InfoRing` |
| client | `isconnected`, the socket, the awaited answer | `connectserver`, `disconnect`, `button_buyticket`, `button_inquireone`, `inquireall` | `ClientSession` |
| server window | the mutexes of `ticket_list`, the ring | `button_inquireone` (`server.c`), the same loops in `service_thread` | `ServerWindow`, which extends `InfoRing` |
| bounded buffers (`pthread/4ex`, `5ex`) | ring, positions, semaphores | `put`, `get` | `BoundedBuffer`, abstract: `Fifo` |
| shared memory with semaphores (`ipc/21ex`, `myshm.h`) | two System V semaphores with their undos, the segment | `init_a_semaphore`, `semaphore_P`, `semaphore_V`, both `main` | `SharedMemoryChat` |
| shared memory handshake (`ipc/19ex`, `20ex`) | the segment | both `main` | `ShmHandshake` |
| hand-over with a flag (`pthread/3ex`) | one buffer, `buffer_has_item`, `retflag` | `readfun`, `writefun`, the return of `main` | `FlagHandover` |
| search race (`pthread/6ex`) | `lock`, `started`, `tries`, the cancels | `main`, `search` | `SearchRace` |
| mutex in a signal handler (`pthread/dead_mutex`) | `mutex`, `signal_handler_exit` | `hold_mutex`, `signal_handler`, `main` | `HandlerMutex` |
| word printers (`ipc/17ex`) | one semaphore, the undo of each run | `main`, `semaphore_P`, `semaphore_V` | `WordPrinters` |
| message queue (`ipc/14ex`, `15ex`) | the queue of the key | both `main` | `MessageQueue` |
| named pipe (`ipc/pipe_server`, `pipe_client`) | the FIFO, its open ends | both `main` | `NamedPipe` |
| UDP echo (`socket/7ex`, `8ex`) | datagrams under way, `addr`, `message` | both `main` | `UdpEcho` |

What is hard here: threads that interleave inside one request (the shared
`message`); two critical sections that belong together (`add_info`); a full ring
that only the GTK thread empties, while that thread waits in `stopserver`;
joining threads with a mutex held; handles that a thread registers late; timeouts
of the client on a stream without request numbers; semaphores that two programs set
in any order and that the kernel changes back when one ends; queues, semaphores and
pipes that one program removes or forgets to close while others use them; programs
that are killed; datagrams that are lost. The list "hazards" of
`PROJECT.json` gives each at its line.

### What makes each part correct

- *Request service*: seats are never oversold, and the answer tells what was done.
- *Info ring*: lines are not doubled, lost or reordered; `add_info` returns.
- *Threads and table*: one thread per address, slots in step with their threads,
  only the slot's own thread is cancelled and joined, nothing left and no mutex lost
  after a stop, every connection served or refused, and `stopserver` returns.
- *Client*: what it shows is the answer to its request; handlers return.
- *Bounded buffer*: first in, first out; nobody sleeps for no reason; all arrives.
- *Server window*: an inquiry never freezes the thread that empties the ring.
- *Hand-over, search, handler*: at most the last line stays unread; one thread wins
  and all others end; who is first at the mutex decides whether the program ends.
- *Words, messages, texts, echoes*: whole, in order, to the right reader, and
  nobody waits for ever unless the reason is one the property names.
- *Shared memory*: the programs do not block each other, in whatever order they
  start; neither runs away from the other; both end; a reader gets the whole text.

Several of these do not hold of the code as it is. Then the passing run states
what does hold, with its exceptions named in the property, and a run that is expected
to fail shows the counterexample (section 5).

## 2. The modules

**`AtomicSale`** is the promise of the server: `Receive`, `Decide` (one step, from
the seats left at that moment), `Deliver`; a request for an unknown flight is
ignored, and a connection may end before its answer.

**`TicketSale`** is `service_thread`. A step is one access to `message` or to a
ticket, with the local work around it: `memcpy` moves the record in two 8-byte
halves (`CopyHead`, `CopyNum` in; `OutHead`, `OutNum` out), and the sale reads
`message.ticket_num` a second time (`Take`) after the comparison (`Check`).
`Word` is the range of `unsigned int`. The price is left out, it travels with
the number of seats. `frame` holds the locals of a thread, `sold` in it (the
seats taken for the request) is a history variable. With `Overlap = FALSE` a
request is received only when no other is being served; with `TRUE` at any time.
`Reopen` is `init_ticket_list` called by `startserver`.

**`InfoRing`** has one action per section of `info_mutex`: `GetFreeInfo`,
`StoreInfo`, `InfoPrint`. **`InfoBuffer`** extends it with the text of the lines
and with the window, as a sequence of batches. A writer that finds the ring full
waits at `GetFreeInfo`, which stands for the loop with `sleep(1)`.

**`ServerLifecycle`** has the places of the GTK thread (`gtk`), of the listen thread
(`listener`) and of the service threads (`thr`). A cancel sets a mark in
`cancelled`, which takes effect at the cancellation points: `accept`, `recv`,
`send`, `close`, `pthread_join`, and the sleep of `add_info` (`asleep`); not in
`pthread_mutex_lock` or `pthread_create`. A section of `buff_mutex` without
a cancellation point is one action; `check_connection` and `stopserver` hold the
mutex over several steps (`buffMutex`). `stopserver` may be called and may proceed at
any place of the listen thread, also between the unlock of `server.c:212` (`Sweep`) and
the cancel of `:213` (`CancelListener`); a cancelled listen thread ends where it stands,
with the mutex if it had it. Handles are used again once they were joined.
`pthread_create` fails when no handle is left, which `server.c:55` does not notice.
Cancelling -1 or 0 crashes the process; in the model the step cannot be taken
(`Crashed`). Requests are abstracted to one that is logged, one that is not (unknown
type) and the end of the connection. Three history variables name what the code does
not guard against: `late` (the connections that the listen thread had in hand while
`stopserver` closed), `hasty` (a slot's handle was used before the slot's thread had
stored it) and `unserved` (connections whose thread could not be created). `Orderly`
says that the first two did not happen.

**`ClientSession`** has the two directions of the connection (`up`, `down`) as
sequences, the waiting handler, and what the user was shown, each with the number of
the request it answers. The server is the atomic one with one flight; its thread may
end before a request, after one, or between the sale and the answer (`HangUp`).
`answered` is a history variable, the requests whose answer was sent. `ReadNothing` is
`recv` returning 0: the code then reads a buffer it never wrote, so what it says is any
of the texts.

**`BoundedBuffer`** holds both programs; `example` is chosen in `Init`. In 4ex a
section of the mutex is one action, which ends in the unlock or in
`pthread_cond_wait`; a wakeup, signalled or spurious, leads back to the test.
In 5ex a call of a semaphore and the work between two calls are separate actions.
**`Fifo`** is what both implement.

**`SharedMemoryChat`** has the two semaphores of the kernel (`sem`: value, and per
program the sum `adj` that `SEM_UNDO` adds at its end), the segments, and the place of
each program. `Semop` is `semop`: it waits, works, or fails (removed semaphore, or sum
of undos out of range), and like the code nobody looks at a failure. `Exit` is what
the kernel does. `sprintf` into the segment takes two steps, between which the text
is a mix of two lines (`torn`); the mix may begin with "end" though neither line does
(an "egg" over an "and"), and `MaySeeEnd` lets the client find either. `misled` is the
history variable of a client that did. The files `consumer` and `producer` are not in the repository: when
`ftok` fails for both, both names are the key -1 and one semaphore; `distinctKeys` in
`Init` chooses. A client that attaches after the server removed the segment gets a
new one. `complained` (a semop failed, which the code prints) and `withdrawn` (an
undo lowered a value) are history variables.

**`ShmHandshake`** is `19ex` and several runs of `20ex_shm_client`: each letter is one
step, and so are a client's `shmget` and `shmat`, between which the server may remove
the segment. A removed segment lives as long as a program is attached (`SegmentLives`).

**`ServerWindow`** looks at the flights' mutexes (`owner`) and the info ring together:
`Lock` and `Leave` are the loop that `button_inquireone` and `service_thread` share,
`FindInfo` and `AddInfo` the lines that only a service thread adds, `Timer` is
`info_print`, which runs on the GTK thread and so only when that is idle. The tickets
themselves are in `TicketSale`.

**`FlagHandover`**: a section of the mutex is one action, the test and the setting of
`retflag` are actions of their own, and `Return` is `main` taking the reader down.

**`SearchRace`**: `Seed` and `TakeLock` are a `trylock` that succeeded; one that finds
the mutex taken changes nothing but may meet the cancel (`TestCancel`). `Find` may
happen at any time, also in several threads. `TakeLock` has no unlock, like the code.

**`HandlerMutex`** has the places of the three threads; the handler runs on
`sleepThread`. `Kill` may come before or after `mutex_thread` is in its section.

**`WordPrinters`**: a removed semaphore keeps its number, a new one under the same key
gets the next. `Undo` is what the kernel does at the end of a run, which `Killed` lets
happen at any place. `setInside` is a history variable: a creator set the semaphore
while another run was printing.

**`MessageQueue`**: lines are records (sender, number, is it "end"). A removed queue is
gone with its messages; `QueueFails` is what that does to a run that waits in it. The
order of messages inside a queue is the kernel's (`Received`); what the programs add is
that a sender ends with its queue, and never goes on in the next one.

**`NamedPipe`**: the two-sided wait of `open` on a FIFO (`met` tells the server that a
writer came), the probing `fopen` of the server's start, `fgets` collecting until the
last writer is gone or `readbuff` is full, the `FILE` that is not closed when `fgets`
returned NULL (`leaked`), and SIGPIPE. `expected` and `cut` are history variables.

**`UdpEcho`**: datagrams under way are sets, so they overtake each other; `Lose` takes
any of them.

**`MCThreads`** and **`MCProcesses`** extend these small programs and let one of them
run (`program`, chosen in the initial state; the variables of the others stay as they
are). They also conjoin the type invariants, and the liveness properties: `ThreadsEnd`
is `AllArrives`, `HandoverEnds`, `SearchEnds` and `InquiryReturns`; `ProcessesEnd` is
`ServerEnds`, `LastLineArrives`, `WholeAlphabet`, `StarSeen`, `NobodyStuck`,
`SendersReleased` and `EchoArrives`, each for its program.

Other `MC*` modules only define the model values and sets for TLC.

## 3. The runs

Bounds are named constants; nothing else limits the models.

| run | instance | shows |
|---|---|---|
| `info_race` | 2 writers, 3 slots, 3 lines each | `ShownOnce`, `LossBounded`, `NearlyInOrder`, and the liveness `EverythingShown`. 6 lines for 3 slots fill the ring and wrap it. |
| `info_slot_shared` | 2 writers, 2 slots | counterexample to `DistributedIsFree` |
| `sale_serial` | 2 threads, 2 flights of 2 seats, purchases of 1 to 3 seats, every kind of request, `Overlap = FALSE` | `NeverOversold`, `AnswerTellsSale`, `RequestsEnd`, and that `TicketSale` implements `AtomicSale` |
| `sale_overlap` | the same with purchases only, `Overlap = TRUE` | counterexample to `AnswerTellsSale` |
| `lifecycle_safe` | 2 addresses, 3 connections (two from one address), 2 handles, 2 slots, 1 line in the ring, server opened twice | `OneThreadPerAddress`, `SlotFollowsThread`, `QuietCloseEnds`, `MutexLostToTwo`, `HandlesOwn` |
| `lifecycle_live` | any 2 of these connections, 2 handles, 1 slot and one session, so that the table is full | `ServedOrRefused`, `StopCompletes` |
| `lifecycle_reconnect` | 2 connections, 1 slot | counterexample to `Renewed` |
| `lifecycle_stop` | the same | counterexample to `ClosedMeansEnded` |
| `session` | 4 requests, 1 seat, 2 flights in an INQUIRE_ALL | `OwnAnswer`, `SuccessIsSale`, `AnswersInOrder`, `HandlersReturn` |
| `session_retry` | 2 requests | counterexample to `RetryIsSafe` |
| `threads` | 4ex, 5ex and 3ex in the sizes of the code (4 slots, 10 numbers and OVER; 10 lines); 4 search threads; window: 2 service threads, 2 flights, 2 lines in the ring | `SleepersHaveReason`, `CountsMatch`, `ImplementsFifo` (both programs implement `Fifo`); `OnlyLastUnread`; `FoundOnce`; `FirstDecides`; `ThreadsEnd` |
| `processes` | chat: 4 lines, undo limit 3 (32767 in Linux), both cases of `ftok`; handshake: 3 letters, 2 clients; words: 3 runs, 2 of them creators, 2 words; queue: 2 senders, 2 receivers, 2 lines each, room for 2; echo: 2 clients, 3 lines each; pipe: 2 writing clients, 1 silent, 2 texts in `readbuff`, 1 file to leak | `NeverBothWait`, `KeepsUp`, `RemovedAtTheEnd`; `WordsWhole`; `MessagesInOrder`; `EchoesInOrder`; `ExpectedArrives`; `ProcessesEnd` |

Why the bounds are enough. Two flights and two threads give every branch of the
search loop and every pair of interfering requests. `Word = 8` with stocks of 2
leaves room for a wrap to be seen (a wrapped stock exceeds `INIT_TICKETS`). Three
connections from two addresses give a reconnect with another client present; two
handles for three connections make `pthread_create` fail; a ring of one slot makes
every writer sleep. Two sessions show what the first leaves behind: with them a service
thread that a late connection got in the first reads its connection from a slot that
the second session has filled again, so that the properties of the table hold only
while nothing was `late`. The liveness run was also tried with three connections, and
with two sessions, and passes (each takes nearly three minutes, so the smaller one is
kept). Four clicks allow a late answer to meet two later requests. Four
lines are more than the tokens that can be in play (at most three) and more than the
undo limit of 3 allows, so that semops also fail; `MaxShown` (6) is never reached while
they work on two semaphores, because `KeepsUp` bounds the difference. Two creators and
a third run give every overlap of setting, using and removing one semaphore, and a new
semaphore after a removed one. A queue with room for 2 fills up under two senders, and
with two receivers is removed under the second. One leaked end shows its effect on
writers, and with `OPEN_MAX = 1` also the server that cannot open any more. Four search
threads (5 in the code) give a winner, a loser that found the number, one that did
not and one without a seed.

The lifecycle runs set `CHECK_DEADLOCK FALSE`: the server may really stop. It
does so in the ways that `StopCompletes` names, and it has nothing to do once
all connections the bound allows were made and all sessions are over. So do
`threads` and `processes`: their programs end, or one waits for ever (section 5). The
other runs check deadlock; their models say explicitly when everybody is done.

What the properties excuse, by name:

- The lifecycle has no switches; its runs contain every order of reconnects, stops and
  thread starts. `OneThreadPerAddress`, `SlotFollowsThread` and `QuietCloseEnds` hold
  while the behaviour is `Orderly`. A stop that finds connections being served, ending or
  not yet accepted is orderly; one that gets `buff_mutex` while the listen thread has a
  connection in hand, or is handed one before the listen thread is gone, is not.
- `HandlesOwn` excuses a slot whose thread has not run yet, is about to be created, or
  could not be created; these are the three ways in which the code cancels a wrong
  handle.
- `ServedOrRefused` and `Renewed` assume that clients stop sending at some time
  (`ClientsCalmDown`): a writer that sleeps can find the ring full again as long as
  others log.
- The requests of `sale_serial` do not overlap (`Overlap = FALSE`).
- The chat's properties excuse a client that was `misled`, a lowered semaphore
  (`withdrawn`) and failed semops (`complained`); words a set with a run inside
  (`setInside`); echoes a lost datagram.

Fairness. `WF` on the step of each thread: the scheduler runs a runnable thread.
`WF` on `InfoPrint` and `Show`: the GTK timer returns `TRUE` and so fires again
(`server.c:385`). `WF` on `Recv` of the client: `SO_RCVTIMEO` ends it. No fairness for
users, clients and spurious wakeups. `threads` has `WF` on each thread, and `SF` on
`Lock` of the window, a mutex that is free again and again. A search thread gets
to its number some time, because its numbers go round. `processes` has `WF` on each
program, and `SF` on what the kernel queues for (`semop`, `msgsnd`, and the server's
`recvfrom` for the datagrams of each client). The chat's user goes on typing until
"end"; elsewhere nobody has to type, to be killed or to lose a datagram, and nobody is
obliged to start a program of the chat. The pipe has no fairness: what is said of it is
safety.

## 4. The proofs

TLAPS checks these for every value of the constants. Every invariant and every
refinement that a passing run checks is stated by a theorem; what is left to TLC alone is
listed at the end of this section. Each safety proof has the same shape: the type
invariant, with what it needs to be inductive (`TypeInv` and its like); the invariant
named below; one case per action; PTL at the end.

**Request service** (`TicketSaleProofs`, `TicketSaleSerial`)

- `TypeCorrect`, with and without overlap.
- `SerialSaleIsCorrect`: if requests do not overlap,
  `Spec => [](NeverOversold /\ AnswerTellsSale)`. The two are not inductive: that the
  subtraction does not wrap rests on a comparison three steps earlier, and that the
  answer is true on what the branch wrote into `message`. `SerialInv` records, per group
  of places, what the thread may rely on (`NothingYet`, `OnlyBuySells`, `Matched`,
  `BranchType`, `Truthful`). The proof has two halves: `OwnStepKeeps`, for the thread
  that moves, and `OthersKeep`, that nobody else is disturbed, because at most one
  thread is busy (`AtMostOneBusy`). The second half is what fails with overlap.
  `SerialNeverOversells` states the first half by itself.
- `SerialSaleIsAtomic`: if requests do not overlap, `Spec => ImplementsAtomicSale`.
  `SaleInv` adds to `SerialInv` that `message` is the request until the answer is written
  (`Copied`), what the branch taken says about it (`Branch`), and that the records an
  INQUIRE_ALL has collected are still true (`Listed`). Then one lemma per group of
  actions says which step of `AtomicSale` it is: `Take`, `Unknown` and the last `Stock`
  are `Decide` (`Deciding`), the end of the search loop is `Ignore`, DISCONNECT and the
  end of a thread are `HangUp`, and the copying is nothing (`QuietSteps`, `OutMaps`).

**Info ring** (`InfoBufferProofs`)

- `BufferTypeCorrect`; `NoLineTwice` (`ShownOnce`), because a stored line stands in at
  most one place (`OnePlace`); `OneWriterLosesNothing`.
- `LossIsBounded` (`LossBounded`), for finitely many writers. `LossInv` counts the
  writers whose distributed slot has been filled since (`Threatened`) together with the
  lost lines: a store into a free slot keeps one line more and threatens the other
  writers at most, a store into a filled one loses a line and is one threat less.
- `WindowInOrder` (`NearlyInOrder`). A line that is not its writer's oldest in the ring
  was stored into a slot distributed after the last print, as the lowest free one; so
  everything below it is occupied (`FullBelow`), and the slot its writer is given next is
  above it (`ClaimsFullBelow`, `ClaimsAbove`).

**Server threads and table** (`ServerLifecycleProofs`)

- `TypeCorrect`. `ControlInv` relates the places of the GTK and the listen thread, the
  holder of `buff_mutex` and the cancel mark of the listen thread.
- `LostToTwo` (`MutexLostToTwo`), without any assumption. `HandInv`: while `stopserver` has
  `buff_mutex` or is past it, a slot that is taken behind its loop belongs to a `late`
  connection (`SweptAreLate`). So a listen thread that finds a slot to join there has
  one late connection in the slot and another of the same address in hand.
- `SlotsHandles` (`HandlesOwn`), without any assumption. `HandleInv`: a handle in a slot
  is that of a thread that ran there (`HandleOwned`), in a taken slot that of the live one
  but for the exceptions (`TakenSettled`); between cancel and join it stays a handle
  (`JoinsHandle`); and a live thread with a cancel mark is being joined, or never will be because the
  mutex is lost (`CancelledAwaited`, `LostForEver`).
- `OwnSlots` (`SlotFollowsThread`), `OneServes` (`OneThreadPerAddress`) and `NobodyLeft`
  (`QuietCloseEnds`), from `TableInv`, which adds for orderly behaviours that no two taken
  slots have one address (`OneSlotPerAddress`) and that what the listen thread found out
  about the table is still true when it uses it (`ListenerKnows`). `lifecycle_stop` shows
  that `late` is needed. `QuietCloseEnds` also needs `HandInv`: all that could be left is
  behind the sweep, and that is late.

**Client** (`ClientSessionProofs`)

- `TypeCorrect`; `InOrder` (`AnswersInOrder`): the numbers of the requests grow from what
  was shown over the records on their way to the requests not yet taken (`OrderInv`);
  `BoughtIsSold` (`SuccessIsSale`): a sale is reported by one record (`SaleInv`);
  `AnswersOwn` (`OwnAnswer`): while no `recv` timed out there is one request at most, on
  its way or answered, and `down` holds exactly its answer (`InStep`); a request that was
  answered is never the one that `recv` returning 0 is shown for (`AnsweredInv`), since
  the answer is then still to be read.

**Bounded buffers** (`BoundedBufferProofs`)

- `TypeCorrect`; `NoLostSignal` (`SleepersHaveReason`); `SemaphoresCount`
  (`CountsMatch`); `IsFifo` (`ImplementsFifo`): every access to the ring is a `Put` or a
  `Get` of `Fifo`, which rests on the arithmetic of the positions (`Wrap`), and, in 5ex, on
  the counts: who got through its semaphore finds room, or a value.

**The other programs with threads** (`ThreadProofs`)

- `LosesLastOnly` (`OnlyLastUnread`), `OneWins` (`FoundOnce`), `NeverJoined` (the second
  half of `FirstDecides`: once `mutex_thread` is first, main never ends), and
  `NoMutexInSleep`: no service thread waits for the info ring with a mutex of
  `ticket_list` in hand, which is why the window cannot freeze.
- `ThreadsTypes`: `ThreadsTypeOK` of `MCThreads`; by `ThreadProgramsRun` its specification
  implies that of each program, which runs or stands still.

**The programs with processes** (`ProcessProofs`)

- Chat. `RemovesLast` (`RemovedAtTheEnd`): "end" stands in a segment only once the server
  has read it and has begun to copy it, behind its last wait, and a mix of lines only
  while it copies (`EndInv`, `TornWhileCopying`). `OneWaits` (`NeverBothWait`): value and undos of
  a semaphore add up to the 1 it was set to (`Balanced`), and both programs together owe
  one unit at most while they wait (`OweLittle`), so that one of the values is
  positive. `NeitherGetsAway` (`KeepsUp`): a semaphore holds what was given since its
  last SETVAL, but for the few calls a second SETVAL forgot (`ConsumerCounts`,
  `ProducerCounts`), and the client leaves with the last line or misled
  (`ClientLeaves`). It assumes
  `MaxShown >= MaxLines + 2`, that is, that the model's bound is never met.
- `NoWordMixed` (`WordsWhole`), from the value of the semaphore while a run is inside and
  from what its undo gives back (`InsideInv`, `UndoInv`, `FreshInv`).
- `LinesInOrder` (`MessagesInOrder`): received and queued messages together are in order
  (`QueueInv`). `EchoesOwn` (`EchoesInOrder`): of each client there is one datagram at most
  (`EchoInv`). `TextsArrive` (`ExpectedArrives`): the server stays until the text is
  printed (`PipeInv`).
- `ProcessesTypes`: `ProcessesTypeOK` of `MCProcesses`, by `ProgramsRun`.

What the proofs assume of the constants are the assumptions of the modules, which TLC
evaluates in every run (sizes are positive numbers, `MarksAssumption`: the marks for
"no thread" and "no connection" are no threads and connections, `WordsAssumption`:
finitely many runs), and what the theorems name: `~Overlap`, finitely many writers, and
room in `MaxShown`.

Only model-checked:

- Liveness (`EverythingShown`, `RequestsEnd`, `ServedOrRefused`, `StopCompletes`,
  `HandlersReturn`, `ThreadsEnd`, `ProcessesEnd`) and the first half of `FirstDecides`, an
  eventuality: the prover does not do fairness and `ENABLED`.
- The counterexamples of section 5, which need no proof.

## 5. Findings

- `get_free_info` does not mark the slot it distributes, so two writers share it and
  a line is lost (`info_slot_shared`; how much can be lost: `LossBounded`).
- `message` is shared by all service threads: wrong answers (`sale_overlap`, which checks
  nothing else). With an unlucky replacement between `servicethread.h:100` and `:104`
  also the stock wraps: `NeverOversold` does not hold of `TicketSale` with
  `Overlap = TRUE`, which no run checks.
- `check_connection` joins a thread with `buff_mutex` held while that thread may be
  waiting for it in `free_buff` (`lifecycle_reconnect`). `stopserver` can meet the same
  fate (`JoinsWaiter`).
- The ways in which `stopserver` can fail to return are, in the instance of
  `lifecycle_live`, exactly these; each of them is reachable:
  `JoinsWaiter`; `RingAgainstMutex`, the listen thread holds `buff_mutex` in
  `check_connection` and sleeps in `add_info` on a full ring, which only the GTK thread
  can empty, while that waits for `buff_mutex` (`threadbuff.h:81-90`, `global.h:132-135`,
  `server.c:198`); `JoinsUncancelled`, a thread stores its handle between the cancel and
  the join of an older handle in its slot; `Crashed`, -1 or 0 is cancelled; and
  `MutexLost`, the listen thread was cancelled inside `check_connection`
  (`MutexLostToTwo` says which clients that takes).
- `stopserver` sweeps before it stops the listen thread (`lifecycle_stop`).
- The client advises to send again although the purchase may go through
  (`session_retry`).
- `client.c:394` assigns instead of comparing, so `inquireall` shows every record as
  the stock of a flight (`ReadAll`).
- No handler of the client tests for a `recv` that returned 0, so after the server closed
  the connection the client shows what its uninitialised buffer holds (`ReadNothing`).
  `OwnAnswer` says that this never happens to a request that the server answered.

Limits of the small programs that their properties name; the repository
promises nothing they contradict:

- `SEM_UNDO` takes the server's V back when it ends. A client that had not taken the
  last token by then waits for ever (`withdrawn` in `LastLineArrives`).
- A client that reads while a line is written over another one can take the mix for
  "end" and remove the semaphores under the server (`misled`).
- Both semaphores start at 1, so the client shows up to two lines too many, and lines
  are written over before they are shown; `KeepsUp` is the exact bound.
- `dead_mutex` ends when the handler is first at the mutex, and never when
  `mutex_thread` is (`FirstDecides` states both).
- `3ex` may leave its last line unread (`OnlyLastUnread`).
- A run of `17ex` that starts with another argument than 1 while others print lets two
  print at once (`setInside` in `WordsWhole`), and its end sends the others away.
- A sender of `15ex` waits for ever when the queue is full and no receiver runs; the
  messages behind an "end" are removed with the queue.
- `8ex` waits for ever for a lost datagram (`EchoArrives`). Its `n = recvfrom(...) < 0`
  (`8ex_udp_client.c:33`) makes `n` the value of the comparison, so it shows an empty
  text whatever it received.
- The first open of `pipe_server` takes the text of the client that it meets with it
  (`pipe_server.c:13-19`); a client that comes between two opens may be killed by
  SIGPIPE. `ExpectedArrives` is about the others.
- In `6ex` the winner, too, prints that it was cancelled (`pthread_cleanup_pop(1)`).
- A client of `20ex` that is done before the first letter is written loses its star.

## 6. Not modelled

- `inquireall` of the server window only reads; the price; the texts of lines; input
  checks of the dialogs; failures of the calls that make a socket, a semaphore, a queue
  or a segment, after which the programs exit.
- The GTK, MySQL and shell examples call external libraries and keep no state.
- `pthread/1ex, 2ex, 7ex, 8ex, test` create, join and configure threads without a
  protocol; `process/2ex` forks once; `ipc/signal` and `signal_set` install a handler
  that prints.
- TCP: `socket/2ex`, `3ex` answer one connection at a time. `5ex`/`6ex` send urgent
  data: what their handler reads depends on the TCP of the system (a second urgent byte
  before the first was read, merged signals), which the repository says nothing of.
- `pipe_client` before the FIFO exists: its `fopen` makes a regular file.
- `thread_err` (`servicethread.h:10`) frees its slot without closing its connection; the
  open descriptor is in `ServerLifecycle`, its use by the system is not.

## 7. Plan

Done, in the order of importance: `AtomicSale`, `TicketSale`, `InfoRing`,
`InfoBuffer`, `ServerLifecycle`, `ClientSession`, `BoundedBuffer`, `SharedMemoryChat`,
`ShmHandshake`; then `ServerWindow`, `FlagHandover`, `SearchRace`, `HandlerMutex`,
`WordPrinters`, `MessageQueue`, `NamedPipe`, `UdpEcho`. What is left out has no
protocol to model (section 6).

Proved: every safety property of a passing run (section 4).

Next:

1. The safety that the liveness arguments rest on, as theorems: which places of
   `ServerLifecycle` and of the chat a step can be awaited in, so that the five ways that
   `StopCompletes` names are shown to be the only ones for any number of threads.
2. What overlap leaves intact in `TicketSale` without assumptions: a mutex of
   `ticket_list` belongs to the thread whose place says so, and only a flight that is
   locked is sold.
3. What is left of the table once a handle was used too early (`hasty`).
