-------------------------------- MODULE MCThreads --------------------------------
(* The programs with threads.  One of them runs, as `program' says: a       *)
(* bounded buffer (4ex, 5ex), the hand-over with a flag (3ex), the search   *)
(* race (6ex), the mutex in a signal handler (dead_mutex), or the server's  *)
(* window with its service threads.                                         *)
EXTENDS BoundedBuffer, FlagHandover, SearchRace, HandlerMutex, ServerWindow

VARIABLE program

MCVars == <<program, vars, handoverVars, searchVars, mutexVars, windowVars>>

MCInit ==
  /\ program \in {"buffer", "handover", "search", "mutex", "window"}
  /\ Init /\ (program # "buffer" => example = "condition")
  /\ HandoverInit /\ SearchInit /\ MutexInit /\ WindowInit

BufferRuns(A) ==
  program = "buffer" /\ A
    /\ UNCHANGED <<program, handoverVars, searchVars, mutexVars, windowVars>>
HandoverRuns(A) ==
  program = "handover" /\ A
    /\ UNCHANGED <<program, vars, searchVars, mutexVars, windowVars>>
SearchRuns(A) ==
  program = "search" /\ A
    /\ UNCHANGED <<program, vars, handoverVars, mutexVars, windowVars>>
MutexRuns(A) ==
  program = "mutex" /\ A
    /\ UNCHANGED <<program, vars, handoverVars, searchVars, windowVars>>
WindowRuns(A) ==
  program = "window" /\ A
    /\ UNCHANGED <<program, vars, handoverVars, searchVars, mutexVars>>

MCNext ==
  \/ BufferRuns(Next) \/ HandoverRuns(HandoverNext) \/ SearchRuns(SearchNext)
  \/ MutexRuns(MutexNext) \/ WindowRuns(WindowNext)

(* Threads that can go on are scheduled; a mutex that is free again and     *)
(* again goes to the one that waits for it.  A wakeup that nobody signalled,*)
(* a request and a cancel of a service thread need not happen.  A thread of *)
(* the search, whose numbers go round, finds its number some time.          *)
MCFairness ==
  /\ WF_MCVars(BufferRuns(ProducerStep)) /\ WF_MCVars(BufferRuns(ConsumerStep))
  /\ WF_MCVars(HandoverRuns(Reader)) /\ WF_MCVars(HandoverRuns(Writer))
  /\ WF_MCVars(SearchRuns(SearchMain))
  /\ \A t \in Searchers : WF_MCVars(SearchRuns(Searcher(t)))
  /\ WF_MCVars(MutexRuns(MutexNext))
  /\ \A t \in Threads : SF_MCVars(WindowRuns(Lock(t))) /\ WF_MCVars(WindowRuns(Leave(t)))
  /\ WF_MCVars(WindowRuns(Timer))

MCSpec == MCInit /\ [][MCNext]_MCVars /\ MCFairness

(* The variables of every program have their types: the positions stay in   *)
(* the ring, the loops in their arrays.                                     *)
ThreadsTypeOK ==
  TypeOK /\ HandoverTypeOK /\ SearchTypeOK /\ MutexTypeOK /\ WindowTypeOK

(* What has to end ends: both threads of a buffer, with all values received *)
(* (AllArrives), the hand-over, the search, and an inquiry in the window.   *)
ThreadsEnd ==
  /\ program = "buffer" => AllArrives
  /\ program = "handover" => HandoverEnds
  /\ program = "search" => SearchEnds
  /\ InquiryReturns
================================================================================
