-------------------------------- MODULE ThreadProofs --------------------------------
(***************************************************************************)
(* Proofs about the programs with threads that are not bounded buffers:    *)
(* the hand-over with a flag, the search race, the mutex in a signal       *)
(* handler and the server's window.  Each has its type invariant and, on   *)
(* top of it, the invariant that carries its properties.                   *)
(***************************************************************************)
EXTENDS MCThreads, BoundedBufferProofs, FiniteSetTheorems, TLAPS
-------------------------------------------------------------------------------
(* 3ex_pthread_synchronization.c.                                           *)

(* HANDED as a number, which the solver needs next to every count.          *)
LEMMA HandedPositive == HANDED \in Nat /\ HANDED >= 1
  BY HandedAssumption

(* Every variable of the hand-over keeps its type.                          *)
THEOREM HandoverTypes == HandoverSpec => []HandoverTypeOK
<1>1. HandoverInit => HandoverTypeOK
  <2>1. << >> \in Seq(0 .. HANDED - 1)
    OBVIOUS
  <2>2. 0 \in 0 .. HANDED - 1 /\ 0 \in 0 .. HANDED
    BY HandedPositive
  <2> QED BY <2>1, <2>2 DEF HandoverInit, HandoverTypeOK
<1>2. HandoverTypeOK /\ [HandoverNext]_handoverVars => HandoverTypeOK'
  <2> SUFFICES ASSUME HandoverTypeOK, [HandoverNext]_handoverVars PROVE HandoverTypeOK'
    OBVIOUS
  <2>1. CASE TestFlag
    BY <2>1 DEF HandoverTypeOK, TestFlag
  <2>2. CASE ReadSection
    <3>0. \A s \in Seq(0 .. HANDED - 1), x \in 0 .. HANDED - 1 :
            Append(s, x) \in Seq(0 .. HANDED - 1)
      OBVIOUS
    <3>1. printed' \in Seq(0 .. HANDED - 1)
      BY <2>2, <3>0 DEF HandoverTypeOK, ReadSection
    <3> QED BY <2>2, <3>1 DEF HandoverTypeOK, ReadSection
  <2>3. CASE WriteSection
    BY <2>3, HandedPositive DEF HandoverTypeOK, WriteSection, MayWrite
  <2>4. CASE SetFlag
    BY <2>4 DEF HandoverTypeOK, SetFlag
  <2>5. CASE Return
    BY <2>5 DEF HandoverTypeOK, Return
  <2>6. CASE UNCHANGED handoverVars
    BY <2>6 DEF HandoverTypeOK, handoverVars
  <2> QED BY <2>1, <2>2, <2>3, <2>4, <2>5, <2>6 DEF HandoverNext, Reader, Writer
<1> QED BY <1>1, <1>2, PTL DEF HandoverSpec

(* What the buffer holds is the one line that is written and not printed;   *)
(* an empty buffer means that all written lines are printed.                *)
HandoverInv ==
  /\ \A k \in 1 .. Len(printed) : printed[k] = k - 1
  /\ hasItem => text = written - 1 /\ Len(printed) = written - 1
  /\ ~hasItem => Len(printed) = written

(* HandoverInv is inductive, given the types.                               *)
LEMMA HandoverInductive ==
  HandoverTypeOK /\ HandoverInv /\ [HandoverNext]_handoverVars => HandoverInv'
<1> SUFFICES ASSUME HandoverTypeOK, HandoverInv, [HandoverNext]_handoverVars
             PROVE  HandoverInv'
  OBVIOUS
<1>1. CASE TestFlag
  BY <1>1 DEF HandoverInv, TestFlag
<1>2. CASE ReadSection
  <2>1. CASE hasItem
    <3>1. printed' = Append(printed, text) /\ text = Len(printed) /\ ~hasItem'
          /\ Len(printed) = written - 1 /\ written' = written
      BY <1>2, <2>1 DEF ReadSection, HandoverInv
    <3>2. /\ Len(printed') = Len(printed) + 1
          /\ \A k \in 1 .. Len(printed') :
               printed'[k] = IF k = Len(printed) + 1 THEN text ELSE printed[k]
      BY <3>1 DEF HandoverTypeOK
    <3> QED BY <3>1, <3>2 DEF HandoverInv, HandoverTypeOK
  <2>2. CASE ~hasItem
    BY <1>2, <2>2 DEF HandoverInv, ReadSection
  <2> QED BY <2>1, <2>2
<1>3. CASE WriteSection
  BY <1>3 DEF HandoverInv, HandoverTypeOK, WriteSection, MayWrite
<1>4. CASE SetFlag
  BY <1>4 DEF HandoverInv, SetFlag
<1>5. CASE Return
  BY <1>5 DEF HandoverInv, Return
<1>6. CASE UNCHANGED handoverVars
  BY <1>6 DEF HandoverInv, handoverVars
<1> QED BY <1>1, <1>2, <1>3, <1>4, <1>5, <1>6 DEF HandoverNext, Reader, Writer

(* However readfun's tests of the flag fall between the writes and the end  *)
(* of main, the lines are printed in order, each once, and at most the last *)
(* one is lost.                                                             *)
THEOREM LosesLastOnly == HandoverSpec => []OnlyLastUnread
<1>1. HandoverInit => HandoverInv
  BY DEF HandoverInit, HandoverInv
<1>2. HandoverTypeOK /\ HandoverInv => OnlyLastUnread
  <2> SUFFICES ASSUME HandoverTypeOK, HandoverInv PROVE OnlyLastUnread
    OBVIOUS
  <2>1. printed = [k \in 1 .. Len(printed) |-> k - 1]
    BY DEF HandoverTypeOK, HandoverInv
  <2>2. Len(printed) >= written - 1
    BY DEF HandoverTypeOK, HandoverInv
  <2> QED BY <2>1, <2>2 DEF OnlyLastUnread
<1> QED BY <1>1, <1>2, HandoverTypes, HandoverInductive, PTL DEF HandoverSpec
-------------------------------------------------------------------------------
(* 6ex_pthread_cleanup.c.                                                   *)

(* NUM_THREADS as a number.                                                 *)
LEMMA SearchersPositive == NUM_THREADS \in Nat /\ NUM_THREADS >= 1
  BY NumThreadsAssumption

(* Nobody is no thread.                                                     *)
LEMMA NobodyElse == Nobody \notin Searchers
  BY DEF Nobody, Searchers

(* The next thread that main creates or joins is a thread.                  *)
LEMMA NextSearcher ==
  ASSUME NEW k \in 0 .. NUM_THREADS
  PROVE  /\ k < NUM_THREADS => k + 1 \in Searchers /\ k + 1 \in 0 .. NUM_THREADS
         /\ k + 1 \in Searchers => k + 1 \in 0 .. NUM_THREADS
         /\ \A t \in Searchers : t <= k + 1 => t <= k \/ t = k + 1
  BY SearchersPositive DEF Searchers

(* The loop that cancels the others passes the threads one by one.          *)
LEMMA NextToCancel ==
  ASSUME NEW k \in 1 .. NUM_THREADS + 1
  PROVE  /\ k <= NUM_THREADS => k \in Searchers /\ k + 1 \in 1 .. NUM_THREADS + 1
         /\ \A m \in 0 .. NUM_THREADS : k <= m => k \in Searchers
         /\ \A m \in 0 .. NUM_THREADS : k <= m \/ k > m
         /\ \A m \in 1 .. NUM_THREADS + 1 : ~(m < m)
         /\ \A t \in Searchers : t < k => t < k + 1
         /\ k < k + 1
  BY SearchersPositive DEF Searchers

(* Every variable of the search keeps its type.                             *)
THEOREM SearchTypes == SearchSpec => []SearchTypeOK
<1>1. SearchInit => SearchTypeOK
  BY SearchersPositive DEF SearchInit, SearchTypeOK, Searchers, Nobody
<1>2. SearchTypeOK /\ [SearchNext]_searchVars => SearchTypeOK'
  <2> SUFFICES ASSUME SearchTypeOK, [SearchNext]_searchVars PROVE SearchTypeOK'
    OBVIOUS
  <2>1. CASE CreateThread
    <3>1. started \in 0 .. NUM_THREADS /\ started < NUM_THREADS
      BY <2>1 DEF CreateThread, SearchTypeOK
    <3>2. started + 1 \in Searchers /\ started + 1 \in 0 .. NUM_THREADS
      BY <3>1, NextSearcher
    <3> QED BY <2>1, <3>2 DEF CreateThread, Step, SearchTypeOK
  <2>2. CASE JoinThread
    <3>1. joined \in 0 .. NUM_THREADS /\ joined + 1 \in Searchers
      BY <2>2 DEF JoinThread, Ended, SearchTypeOK
    <3>2. joined + 1 \in 0 .. NUM_THREADS
      BY <3>1, NextSearcher
    <3> QED BY <2>2, <3>2 DEF JoinThread, SearchTypeOK
  <2>3. ASSUME NEW t \in Searchers, Searcher(t) PROVE SearchTypeOK'
    <3>1. CASE Seed(t)
      BY <3>1 DEF Seed, Step, SearchTypeOK
    <3>2. CASE BeginSearch(t)
      BY <3>2 DEF BeginSearch, Step, SearchTypeOK
    <3>3. CASE Find(t)
      BY <3>3 DEF Find, Step, SearchTypeOK
    <3>4. CASE TakeLock(t)
      BY <3>4, <2>3 DEF TakeLock, Step, SearchTypeOK
    <3>5. CASE CancelNext(t)
      <4>1. j[t] \in 1 .. NUM_THREADS + 1 /\ j[t] <= NUM_THREADS
        BY <3>5, <2>3 DEF CancelNext, SearchTypeOK
      <4>2. j[t] \in Searchers /\ j[t] + 1 \in 1 .. NUM_THREADS + 1
        BY <4>1, NextToCancel
      <4>3. cancels' \subseteq Searchers
        BY <3>5, <4>2 DEF CancelNext, SearchTypeOK
      <4> QED BY <3>5, <4>2, <4>3 DEF CancelNext, SearchTypeOK
    <3>6. CASE Finish(t)
      BY <3>6 DEF Finish, Step, SearchTypeOK
    <3>7. CASE TestCancel(t)
      BY <3>7 DEF TestCancel, SearchTypeOK
    <3> QED BY <2>3, <3>1, <3>2, <3>3, <3>4, <3>5, <3>6, <3>7 DEF Searcher
  <2>4. CASE UNCHANGED searchVars
    BY <2>4 DEF searchVars, SearchTypeOK
  <2> QED BY <2>1, <2>2, <2>3, <2>4 DEF SearchNext, SearchMain
<1> QED BY <1>1, <1>2, PTL DEF SearchSpec

(* The lock is taken once, for good: its holder is the only one that ever   *)
(* reaches the cancels, the count of tries is its own, and a cancel is sent *)
(* by it alone, to the threads its loop has passed, never to itself.  A     *)
(* thread that is joined has ended, and was cancelled unless it holds the   *)
(* lock.                                                                    *)
SearchInv ==
  /\ tries = lockedBy
  /\ \A t \in Searchers : search[t] \in {"cancel others", "found"} <=> t = lockedBy
  /\ \A t \in Searchers : search[t] = "cancelled" => t \in cancels
  /\ \A t \in cancels : lockedBy \in Searchers /\ t # lockedBy /\ t < j[lockedBy]
  /\ \A t \in Searchers : t <= joined => search[t] \in {"found", "cancelled"}

(* SearchInv is inductive, given the types.                                 *)
LEMMA SearchInductive ==
  SearchTypeOK /\ SearchInv /\ [SearchNext]_searchVars => SearchInv'
<1> SUFFICES ASSUME SearchTypeOK, SearchInv, [SearchNext]_searchVars PROVE SearchInv'
  OBVIOUS
<1> USE DEF SearchInv
<1>t. /\ started \in 0 .. NUM_THREADS /\ joined \in 0 .. NUM_THREADS
      /\ DOMAIN search = Searchers /\ DOMAIN j = Searchers
      /\ search = [t \in Searchers |-> search[t]] /\ j = [t \in Searchers |-> j[t]]
      /\ cancels \subseteq Searchers
      /\ \A t \in Searchers : j[t] \in 1 .. NUM_THREADS + 1
  BY DEF SearchTypeOK
<1>n. Nobody \notin Searchers
  BY NobodyElse
<1>1. CASE CreateThread
  <2>1. started + 1 \in Searchers
    BY <1>1, <1>t, NextSearcher DEF CreateThread
  <2> QED BY <1>1, <2>1, <1>t DEF CreateThread, Step
<1>2. CASE JoinThread
  <2>1. \A t \in Searchers : t <= joined + 1 => t <= joined \/ t = joined + 1
    BY <1>t, NextSearcher
  <2>2. search[joined + 1] \in {"found", "cancelled"} /\ joined' = joined + 1
    BY <1>2 DEF JoinThread, Ended
  <2> QED BY <1>2, <2>1, <2>2 DEF JoinThread
<1>3. ASSUME NEW t \in Searchers, Searcher(t) PROVE SearchInv'
  <2>1. CASE Seed(t)
    BY <2>1, <1>t DEF Seed, Step
  <2>2. CASE BeginSearch(t)
    BY <2>2, <1>t DEF BeginSearch, Step
  <2>3. CASE Find(t)
    BY <2>3, <1>t DEF Find, Step
  <2>4. CASE TakeLock(t)
    <3>1. /\ lockedBy = Nobody /\ lockedBy' = t /\ tries' = t
          /\ search' = [search EXCEPT ![t] = "cancel others"] /\ search[t] = "trylock"
          /\ joined' = joined /\ cancels' = cancels /\ j' = j
      BY <2>4, <1>3 DEF TakeLock, Step
    <3>2. cancels = {} /\ \A u \in Searchers : search[u] \notin {"cancel others", "found"}
      BY <3>1, <1>n
    <3>3. \A u \in Searchers : search'[u] = IF u = t THEN "cancel others" ELSE search[u]
      BY <3>1, <1>t
    <3>4. \A u \in Searchers : search'[u] \in {"cancel others", "found"} <=> u = lockedBy'
      BY <3>1, <3>2, <3>3
    <3>5. \A u \in Searchers : search'[u] = "cancelled" => u \in cancels'
      <4>1. ASSUME NEW u \in Searchers, search'[u] = "cancelled" PROVE u \in cancels
        BY <3>3, <4>1
      <4> QED BY <3>1, <4>1
    <3>6. \A u \in Searchers : u <= joined' => search'[u] \in {"found", "cancelled"}
      BY <3>1, <3>3
    <3> QED BY <3>1, <3>2, <3>4, <3>5, <3>6
  <2>5. CASE CancelNext(t)
    <3>1. t = lockedBy /\ j[t] \in 1 .. NUM_THREADS + 1
      BY <2>5, <1>3, <1>t DEF CancelNext
    <3>2. \A u \in cancels : u \in Searchers /\ u < j[t] + 1 /\ u # t
      BY <3>1, <1>t, NextToCancel
    <3>3. j'[t] = j[t] + 1 /\ cancels' = cancels \cup ({j[t]} \ {t})
      BY <2>5, <1>3, <1>t DEF CancelNext
    <3>4. \A u \in cancels' : u # t /\ u < j'[t]
      <4>1. j[t] < j[t] + 1
        BY <3>1, NextToCancel
      <4>2. \A u \in cancels \cup ({j[t]} \ {t}) : u # t /\ u < j[t] + 1
        BY <3>2, <4>1
      <4> QED BY <3>3, <4>2
    <3>5. UNCHANGED <<joined, lockedBy, tries, search>> /\ cancels \subseteq cancels'
      BY <2>5, <3>3 DEF CancelNext
    <3> QED BY <3>1, <3>4, <3>5
  <2>6. CASE Finish(t)
    BY <2>6, <1>3, <1>t DEF Finish, Step
  <2>7. CASE TestCancel(t)
    <3>1. \A u \in Searchers : search'[u] = IF u = t THEN "cancelled" ELSE search[u]
      BY <2>7, <1>t DEF TestCancel
    <3>2. /\ t \in cancels /\ search[t] \notin {"cancel others", "found", "cancelled"}
          /\ UNCHANGED <<started, joined, lockedBy, tries, j, cancels>>
      BY <2>7, <1>t DEF TestCancel
    <3> QED BY <3>1, <3>2
  <2> QED BY <1>3, <2>1, <2>2, <2>3, <2>4, <2>5, <2>6, <2>7 DEF Searcher
<1>4. CASE UNCHANGED searchVars
  BY <1>4 DEF searchVars
<1> QED BY <1>1, <1>2, <1>3, <1>4 DEF SearchNext, SearchMain

(* For any number of threads one wins the race, it never cancels a thread   *)
(* that main has joined, and the tries that main prints are its own.        *)
THEOREM OneWins == SearchSpec => []FoundOnce
<1>1. SearchInit => SearchInv
  BY SearchersPositive DEF SearchInit, SearchInv, Searchers, Nobody
<1>2. SearchTypeOK /\ SearchInv => FoundOnce
  <2> SUFFICES ASSUME SearchTypeOK, SearchInv PROVE FoundOnce
    OBVIOUS
  <2> DEFINE winners == {t \in Searchers : search[t] \in {"cancel others", "found"}}
  <2>1. Cardinality(winners) <= 1
    <3>1. winners \subseteq {lockedBy}
      BY DEF SearchInv
    <3>2. IsFiniteSet({lockedBy}) /\ Cardinality({lockedBy}) = 1
      BY FS_Singleton
    <3>3. Cardinality(winners) <= Cardinality({lockedBy})
      BY <3>1, <3>2, FS_Subset
    <3> QED BY <3>2, <3>3
  <2>2. ASSUME NEW w \in Searchers, search[w] \in {"cancel others", "found"}, j[w] # w
        PROVE  j[w] > joined
    <3>1. w = lockedBy
      BY <2>2 DEF SearchInv
    <3>2. j[w] \in 1 .. NUM_THREADS + 1 /\ joined \in 0 .. NUM_THREADS
      BY <2>2 DEF SearchTypeOK
    <3>3. ASSUME j[w] <= joined PROVE FALSE
      <4>1. j[w] \in Searchers
        BY <3>2, <3>3, NextToCancel
      <4>2. search[j[w]] = "cancelled"
        BY <4>1, <3>3, <2>2, <3>1 DEF SearchInv
      <4>3. j[w] < j[w]
        BY <4>1, <4>2, <3>1 DEF SearchInv
      <4> QED BY <4>3, <3>2, NextToCancel
    <3> QED BY <3>2, <3>3, NextToCancel
  <2>3. ASSUME joined = NUM_THREADS PROVE winners = {tries}
    <3>1. 1 \in Searchers /\ 1 <= joined
      BY <2>3, SearchersPositive DEF Searchers
    <3>2. search[1] \in {"found", "cancelled"}
      BY <3>1 DEF SearchInv
    <3>3. lockedBy \in Searchers
      BY <3>1, <3>2 DEF SearchInv
    <3> QED BY <3>3 DEF SearchInv
  <2> QED BY <2>1, <2>2, <2>3 DEF FoundOnce
<1> QED BY <1>1, <1>2, SearchTypes, SearchInductive, PTL DEF SearchSpec
-------------------------------------------------------------------------------
(* dead_mutex.c.                                                            *)

(* Every variable of the program keeps its type.                            *)
THEOREM MutexTypes == MutexSpec => []MutexTypeOK
<1>1. MutexInit => MutexTypeOK
  BY DEF MutexInit, MutexTypeOK
<1>2. MutexTypeOK /\ [MutexNext]_mutexVars => MutexTypeOK'
  BY DEF MutexTypeOK, MutexNext, MutexLocks, MutexUnlocks, HandlerLocks, HandlerUnlocks,
         HandlerReturns, SleepEnds, Kill, JoinBoth, mutexVars
<1> QED BY <1>1, <1>2, PTL DEF MutexSpec

(* The section belongs to one of the two threads at a time.                 *)
Excludes == ~(mutexThread = "in section" /\ sleepThread = "in section")

(* The mutex is never held twice.                                           *)
THEOREM HeldOnce == MutexSpec => []Excludes
<1>1. MutexInit => Excludes
  BY DEF MutexInit, Excludes
<1>2. Excludes /\ [MutexNext]_mutexVars => Excludes'
  BY DEF Excludes, MutexNext, MutexLocks, MutexUnlocks, HandlerLocks, HandlerUnlocks,
         HandlerReturns, SleepEnds, Kill, JoinBoth, mutexVars
<1> QED BY <1>1, <1>2, PTL DEF MutexSpec

(* The safety half of FirstDecides: once mutex_thread has the mutex before  *)
(* the handler let go of it, main never gets past its joins.                *)
THEOREM NeverJoined == MutexSpec => [](Stuck => [](mainThread # "ended"))
<1> DEFINE StuckInv == Stuck /\ mainThread # "ended" /\ Excludes
<1>1. MutexInit => mainThread # "ended"
  BY DEF MutexInit
<1>2. ASSUME StuckInv, [MutexNext]_mutexVars PROVE StuckInv'
  <2>1. /\ mutexThread = "in section" /\ sleepThread # "unlocked"
        /\ sleepThread # "in section" /\ mainThread # "ended"
    BY <1>2 DEF Stuck, Excludes
  <2>2. ~signal_handler_exit
    BY <1>2 DEF Stuck
  <2>3. ~MutexUnlocks
    <3>1. 0 # 1
      OBVIOUS
    <3> QED BY <2>2, <3>1, Zenon DEF MutexUnlocks, Sleeps
  <2>4. ~MutexLocks /\ ~HandlerLocks /\ ~HandlerUnlocks /\ ~HandlerReturns /\ ~JoinBoth
    BY <2>1 DEF MutexLocks, HandlerLocks, HandlerUnlocks, HandlerReturns, JoinBoth
  <2>5. SleepEnds \/ Kill \/ UNCHANGED mutexVars
    BY <1>2, <2>3, <2>4 DEF MutexNext
  <2>6. /\ mutexThread' = "in section" /\ sleepThread' # "unlocked"
        /\ sleepThread' # "in section" /\ mainThread' # "ended"
    BY <2>1, <2>5 DEF SleepEnds, Kill, mutexVars
  <2>7. ~signal_handler_exit'
    BY <2>2, <2>5 DEF SleepEnds, Kill, mutexVars
  <2> QED BY <2>6, <2>7 DEF Stuck, Excludes
<1>3. ASSUME ~(mainThread = "ended" /\ mutexThread # "ended"), [MutexNext]_mutexVars
      PROVE  ~(mainThread = "ended" /\ mutexThread # "ended")'
  BY <1>3 DEF MutexNext, MutexLocks, MutexUnlocks, HandlerLocks, HandlerUnlocks,
              HandlerReturns, SleepEnds, Kill, JoinBoth, mutexVars
<1>4. MutexInit => ~(mainThread = "ended" /\ mutexThread # "ended")
  BY DEF MutexInit
<1>5. Stuck /\ Excludes /\ ~(mainThread = "ended" /\ mutexThread # "ended") => StuckInv
  BY DEF Stuck
<1>6. StuckInv => mainThread # "ended"
  OBVIOUS
<1> QED BY <1>2, <1>3, <1>4, <1>5, <1>6, HeldOnce, PTL DEF MutexSpec
-------------------------------------------------------------------------------
(* The window of the ticket server and its service threads.                 *)

Places == {"idle", "lock", "locked", "header", "line", "ended"}
Flights == 1 .. FLIGHT_NUM

(* The loop over the flights stays in ticket_list, and begins at the first. *)
LEMMA NextFlight ==
  ASSUME NEW f \in Flights
  PROVE  1 \in Flights /\ (f # FLIGHT_NUM => f + 1 \in Flights)
  BY FlightNumAssumption DEF Flights

(* A step of the loop keeps the types of the two variables that it sets.    *)
LEMMA GoOnTypes ==
  ASSUME flight \in [Threads -> Flights], at \in [Threads -> Places], NEW t \in Threads, GoOn(t)
  PROVE  flight' \in [Threads -> Flights] /\ at' \in [Threads -> Places]
<1>1. \A f \in Flights : (IF f = FLIGHT_NUM THEN 1 ELSE f + 1) \in Flights
  BY NextFlight
<1>2. flight' \in [Threads -> Flights]
  BY <1>1 DEF GoOn
<1>3. at' \in [Threads -> Places]
  BY DEF GoOn, Places
<1> QED BY <1>2, <1>3

(* The functions of the ring keep its types.                                *)
LEMMA RingTypes ==
  ASSUME RingTypeOK
  PROVE  /\ InfoPrint => RingTypeOK'
         /\ \A w \in Writers : GetFreeInfo(w) \/ StoreInfo(w) => RingTypeOK'
         /\ UNCHANGED ringVars => RingTypeOK'
<1>1. InfoPrint => RingTypeOK'
  BY DEF InfoPrint, RingTypeOK
<1>2. ASSUME NEW w \in Writers, GetFreeInfo(w) PROVE RingTypeOK'
  BY <1>2 DEF GetFreeInfo, LowestFreed, Freed, RingTypeOK
<1>3. ASSUME NEW w \in Writers, StoreInfo(w) PROVE RingTypeOK'
  BY <1>3 DEF StoreInfo, RingTypeOK
<1>4. UNCHANGED ringVars => RingTypeOK'
  BY DEF ringVars, RingTypeOK
<1> QED BY <1>1, <1>2, <1>3, <1>4

(* Every variable of the window and of the service threads keeps its type.  *)
THEOREM WindowTypes == WindowSpec => []WindowTypeOK
<1> USE DEF Places, Flights, All, Unknown
<1>1. WindowInit => WindowTypeOK
  <2>1. 1 \in Flights /\ All \in All .. Unknown
    BY FlightNumAssumption
  <2>2. WindowInit => RingTypeOK
    BY DEF WindowInit, RingInit, RingTypeOK
  <2> QED BY <2>1, <2>2 DEF WindowInit, WindowTypeOK
<1>2. WindowTypeOK /\ [WindowNext]_windowVars => WindowTypeOK'
  <2> SUFFICES ASSUME WindowTypeOK, [WindowNext]_windowVars PROVE WindowTypeOK'
    OBVIOUS
  <2> HIDE DEF Places, Flights, All, Unknown
  <2>t. /\ RingTypeOK /\ owner \in [Flights -> SUBSET Threads]
        /\ wanted \in [Threads -> All .. Unknown]
        /\ flight \in [Threads -> Flights] /\ at \in [Threads -> Places]
    BY DEF WindowTypeOK, Flights, Places
  <2>s. ASSUME RingTypeOK', owner' \in [Flights -> SUBSET Threads],
               wanted' \in [Threads -> All .. Unknown],
               flight' \in [Threads -> Flights], at' \in [Threads -> Places]
        PROVE  WindowTypeOK'
    BY <2>s DEF WindowTypeOK, Flights, Places
  <2>w. \A w \in Writers : w \in Threads
    BY DEF Threads
  <2>p. \A p \in {"idle", "lock", "locked", "header", "line", "ended"} : p \in Places
    BY DEF Places
  <2>1. ASSUME NEW t \in Threads, NEW what \in All .. Unknown, Ask(t, what)
        PROVE  WindowTypeOK'
    <3>1. flight' \in [Threads -> Flights]
      BY <2>1, <2>t, NextFlight DEF Ask
    <3>2. RingTypeOK'
      BY <2>1, <2>t, RingTypes DEF Ask, ringVars
    <3> QED BY <2>1, <2>t, <2>s, <2>p, <3>1, <3>2 DEF Ask
  <2>2. ASSUME NEW t \in Threads, Lock(t) PROVE WindowTypeOK'
    <3>1. RingTypeOK'
      BY <2>2, <2>t, RingTypes DEF Lock, ringVars
    <3> QED BY <2>2, <2>t, <2>s, <2>p, <3>1 DEF Lock
  <2>3. ASSUME NEW t \in Threads, Leave(t) PROVE WindowTypeOK'
    <3>1. RingTypeOK'
      BY <2>3, <2>t, RingTypes DEF Leave, ringVars
    <3>2. owner' \in [Flights -> SUBSET Threads] /\ wanted' \in [Threads -> All .. Unknown]
      BY <2>3, <2>t DEF Leave, Unlock
    <3>3. CASE GoOn(t)
      BY <2>t, <2>s, <3>1, <3>2, <3>3, GoOnTypes
    <3>4. CASE ~GoOn(t)
      <4>1. flight' = flight /\ \E p \in Places : at' = [at EXCEPT ![t] = p]
        BY <2>3, <3>4, <2>p DEF Leave
      <4> QED BY <2>t, <2>s, <3>1, <3>2, <4>1
    <3> QED BY <3>3, <3>4
  <2>4. ASSUME NEW w \in Writers, FindInfo(w) PROVE WindowTypeOK'
    BY <2>4, <2>t, <2>s, RingTypes DEF FindInfo
  <2>5. ASSUME NEW w \in Writers, AddInfo(w) PROVE WindowTypeOK'
    <3>1. RingTypeOK' /\ owner' = owner /\ wanted' = wanted
      BY <2>5, <2>t, RingTypes DEF AddInfo
    <3>2. CASE GoOn(w)
      BY <2>t, <2>s, <2>w, <3>1, <3>2, GoOnTypes
    <3>3. CASE ~GoOn(w)
      BY <2>5, <2>t, <2>s, <2>p, <3>1, <3>3 DEF AddInfo
    <3> QED BY <3>2, <3>3
  <2>6. ASSUME NEW w \in Writers, Cancelled(w) PROVE WindowTypeOK'
    <3>1. RingTypeOK'
      BY <2>6, <2>t, RingTypes DEF Cancelled, ringVars
    <3> QED BY <2>6, <2>t, <2>s, <2>p, <3>1 DEF Cancelled
  <2>7. CASE Timer
    BY <2>7, <2>t, <2>s, RingTypes DEF Timer
  <2>8. CASE UNCHANGED windowVars
    BY <2>8, <2>t, <2>s, RingTypes DEF windowVars, ringVars
  <2>9. GTK \in Threads /\ \A f \in 1 .. FLIGHT_NUM : f \in All .. Unknown
    BY FlightNumAssumption DEF Threads, All, Unknown
  <2> QED BY <2>1, <2>2, <2>3, <2>4, <2>5, <2>6, <2>7, <2>8, <2>9, <2>w
          DEF WindowNext, Searching
<1> QED BY <1>1, <1>2, PTL DEF WindowSpec

(* A mutex of ticket_list belongs to the thread that looks at its flight,   *)
(* and to no other thread; at most one thread looks at a flight.            *)
MutexInv ==
  \A f \in Flights : /\ \A t \in Threads : t \in owner[f] <=> at[t] = "locked" /\ flight[t] = f
                     /\ \A t, u \in owner[f] : t = u

(* MutexInv is inductive, given the types.                                  *)
LEMMA MutexInductive ==
  WindowTypeOK /\ MutexInv /\ [WindowNext]_windowVars => MutexInv'
<1> SUFFICES ASSUME WindowTypeOK, MutexInv, [WindowNext]_windowVars PROVE MutexInv'
  OBVIOUS
<1>t. /\ owner \in [Flights -> SUBSET Threads] /\ flight \in [Threads -> Flights]
      /\ at \in [Threads -> Places]
  BY DEF WindowTypeOK, Flights, Places
(* A step that only moves a thread that is not in the section, elsewhere.   *)
<1>k. ASSUME NEW t \in Threads, NEW p, at[t] # "locked", p # "locked", owner' = owner,
             at' = [at EXCEPT ![t] = p], \A u \in Threads \ {t} : flight'[u] = flight[u]
      PROVE  MutexInv'
  BY <1>k, <1>t DEF MutexInv
<1>w. \A w \in Writers : w \in Threads
  BY DEF Threads
<1>1. ASSUME NEW t \in Threads, NEW what, Ask(t, what) PROVE MutexInv'
  BY <1>1, <1>k, <1>t DEF Ask
<1>2. ASSUME NEW t \in Threads, Lock(t) PROVE MutexInv'
  <2>1. /\ at[t] = "lock" /\ owner[flight[t]] = {} /\ flight[t] \in Flights
        /\ owner' = [owner EXCEPT ![flight[t]] = {t}]
        /\ at' = [at EXCEPT ![t] = "locked"] /\ flight' = flight
    BY <1>2, <1>t DEF Lock
  <2>2. \A f \in Flights : owner'[f] = IF f = flight[t] THEN {t} ELSE owner[f]
    BY <2>1, <1>t
  <2>3. \A u \in Threads : at'[u] = IF u = t THEN "locked" ELSE at[u]
    BY <2>1, <1>t
  <2> QED BY <2>1, <2>2, <2>3 DEF MutexInv
<1>3. ASSUME NEW t \in Threads, Leave(t) PROVE MutexInv'
  <2>1. /\ at[t] = "locked" /\ flight[t] \in Flights
        /\ owner' = [owner EXCEPT ![flight[t]] = {}]
    BY <1>3, <1>t DEF Leave, Unlock
  <2>2. /\ \A u \in Threads \ {t} : at'[u] = at[u] /\ flight'[u] = flight[u]
        /\ at'[t] # "locked"
    BY <1>3, <1>t DEF Leave, GoOn
  <2>3. \A f \in Flights : owner'[f] = IF f = flight[t] THEN {} ELSE owner[f]
    BY <2>1, <1>t
  <2> QED BY <2>1, <2>2, <2>3 DEF MutexInv
<1>4. ASSUME NEW w \in Writers, FindInfo(w) PROVE MutexInv'
  BY <1>4 DEF FindInfo, MutexInv
<1>5. ASSUME NEW w \in Writers, AddInfo(w) PROVE MutexInv'
  <2>1. /\ at[w] \in {"header", "line"} /\ owner' = owner
        /\ \E p \in Places \ {"locked"} : at' = [at EXCEPT ![w] = p]
        /\ \A u \in Threads \ {w} : flight'[u] = flight[u]
    BY <1>5, <1>t, <1>w DEF AddInfo, GoOn, Places
  <2> QED BY <2>1, <1>k, <1>w
<1>6. ASSUME NEW w \in Writers, Cancelled(w) PROVE MutexInv'
  BY <1>6, <1>k, <1>w DEF Cancelled
<1>7. CASE Timer
  BY <1>7 DEF Timer, MutexInv
<1>8. CASE UNCHANGED windowVars
  BY <1>8 DEF windowVars, MutexInv
<1>9. GTK \in Threads
  BY DEF Threads
<1> QED BY <1>1, <1>2, <1>3, <1>4, <1>5, <1>6, <1>7, <1>8, <1>9, <1>w DEF WindowNext, Searching

(* Nobody waits for a slot of the ring, sleeps in add_info, or is cancelled *)
(* with a mutex of ticket_list in hand, and two threads never look at the   *)
(* same flight: what keeps the window from freezing.                        *)
MutexesFree ==
  \A t \in Threads, f \in Flights :
    /\ t \in owner[f] => at[t] = "locked" /\ flight[t] = f
    /\ at[t] = "locked" => owner[flight[t]] = {t}

(* For any number of service threads, flights and slots of the ring.        *)
THEOREM NoMutexInSleep == WindowSpec => []MutexesFree
<1>1. WindowInit => MutexInv
  BY DEF WindowInit, MutexInv, Flights
<1>2. WindowTypeOK /\ MutexInv => MutexesFree
  <2> SUFFICES ASSUME WindowTypeOK, MutexInv PROVE MutexesFree
    OBVIOUS
  <2>1. owner \in [Flights -> SUBSET Threads] /\ flight \in [Threads -> Flights]
    BY DEF WindowTypeOK, Flights
  <2> QED BY <2>1 DEF MutexInv, MutexesFree
<1> QED BY <1>1, <1>2, WindowTypes, MutexInductive, PTL DEF WindowSpec
-------------------------------------------------------------------------------
(* MCThreads runs one of the programs and leaves the others alone, so what  *)
(* is proved of each is proved of what TLC runs.                            *)
LEMMA ThreadProgramsRun ==
  MCSpec => Spec /\ HandoverSpec /\ SearchSpec /\ MutexSpec /\ WindowSpec
<1>1. MCInit => Init /\ HandoverInit /\ SearchInit /\ MutexInit /\ WindowInit
  BY DEF MCInit
<1>2. [MCNext]_MCVars => /\ [Next]_vars /\ [HandoverNext]_handoverVars /\ [SearchNext]_searchVars
                         /\ [MutexNext]_mutexVars /\ [WindowNext]_windowVars
  BY DEF MCNext, MCVars, BufferRuns, HandoverRuns, SearchRuns, MutexRuns, WindowRuns
<1> QED BY <1>1, <1>2, PTL DEF MCSpec, Spec, HandoverSpec, SearchSpec, MutexSpec, WindowSpec

(* Every variable of the programs with threads keeps its type: the          *)
(* positions stay in the ring, the loops in their arrays.                   *)
THEOREM ThreadsTypes == MCSpec => []ThreadsTypeOK
BY ThreadProgramsRun, TypeCorrect, HandoverTypes, SearchTypes, MutexTypes, WindowTypes, PTL
   DEF ThreadsTypeOK
================================================================================
