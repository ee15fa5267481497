------------------------------- MODULE SearchRace -------------------------------
(***************************************************************************)
(* pthread/6ex_pthread_cleanup.c: threads search for a number; the first   *)
(* one that finds it takes `lock' with trylock, keeps it for ever, and     *)
(* cancels the others, whom nothing but the cancel will end.  Cancels are  *)
(* deferred: they take effect in pthread_testcancel.                       *)
(***************************************************************************)
EXTENDS Integers, FiniteSets

CONSTANT NUM_THREADS    \* 5 in the code

ASSUME NumThreadsAssumption == NUM_THREADS \in Nat \ {0}

Searchers == 1 .. NUM_THREADS
Nobody == 0

VARIABLES
  started, joined,   \* how many threads main created, and joined, in this order
  lockedBy,          \* who holds `lock'
  tries,             \* whose count of tries the global `tries' is
  search,            \* where each thread stands in search()
  j,                 \* the loop variable of the thread that cancels the others
  cancels            \* the threads that were sent a cancel

searchVars == <<started, joined, lockedBy, tries, search, j, cancels>>

SearchInit ==
  /\ started = 0 /\ joined = 0
  /\ lockedBy = Nobody /\ tries = Nobody
  /\ search = [t \in Searchers |-> "none"]
  /\ j = [t \in Searchers |-> 1]
  /\ cancels = {}

Step(t, from, to) == search[t] = from /\ search' = [search EXCEPT ![t] = to]
-------------------------------------------------------------------------------
(* main.                                                                    *)
CreateThread ==
  /\ started < NUM_THREADS
  /\ started' = started + 1
  /\ Step(started + 1, "none", "seed")
  /\ UNCHANGED <<joined, lockedBy, tries, j, cancels>>

Ended == {t \in Searchers : search[t] \in {"found", "cancelled"}}

JoinThread ==
  /\ started = NUM_THREADS
  /\ joined + 1 \in Ended
  /\ joined' = joined + 1
  /\ UNCHANGED <<started, lockedBy, tries, search, j, cancels>>
-------------------------------------------------------------------------------
(* A thread.  It spins with trylock until it may use the random generator,  *)
(* then waits for all others to be created.                                 *)
Seed(t) ==
  /\ lockedBy = Nobody
  /\ Step(t, "seed", "wait")
  /\ UNCHANGED <<started, joined, lockedBy, tries, j, cancels>>

BeginSearch(t) ==
  /\ started = NUM_THREADS
  /\ Step(t, "wait", "search")
  /\ UNCHANGED <<started, joined, lockedBy, tries, j, cancels>>

Find(t) ==
  /\ Step(t, "search", "trylock")
  /\ UNCHANGED <<started, joined, lockedBy, tries, j, cancels>>

MutantUnlocks(t) ==
  /\ lockedBy = Nobody
  /\ Step(t, "trylock", "cancel others")
  /\ tries' = t
  /\ UNCHANGED <<started, joined, lockedBy, j, cancels>>

TakeLock(t) ==
  /\ lockedBy = Nobody
  /\ Step(t, "trylock", "cancel others")
  /\ lockedBy' = t /\ tries' = t
  /\ UNCHANGED <<started, joined, j, cancels>>

CancelNext(t) ==
  /\ search[t] = "cancel others" /\ j[t] <= NUM_THREADS
  /\ cancels' = cancels \cup ({j[t]} \ {t})
  /\ j' = [j EXCEPT ![t] = @ + 1]
  /\ UNCHANGED <<started, joined, lockedBy, tries, search>>

Finish(t) ==
  /\ j[t] > NUM_THREADS
  /\ Step(t, "cancel others", "found")
  /\ UNCHANGED <<started, joined, lockedBy, tries, j, cancels>>

(* Every hundred tries, and after each trylock that found `lock' taken.     *)
TestCancel(t) ==
  /\ t \in cancels
  /\ search[t] = "search" \/ (search[t] \in {"seed", "trylock"} /\ lockedBy # Nobody)
  /\ search' = [search EXCEPT ![t] = "cancelled"]
  /\ UNCHANGED <<started, joined, lockedBy, tries, j, cancels>>

Searcher(t) ==
  \/ Seed(t) \/ BeginSearch(t) \/ Find(t) \/ TakeLock(t)
  \/ CancelNext(t) \/ Finish(t) \/ TestCancel(t)

SearchMain == CreateThread \/ JoinThread

SearchNext == SearchMain \/ \E t \in Searchers : Searcher(t)

SearchSpec == SearchInit /\ [][SearchNext]_searchVars
-------------------------------------------------------------------------------
SearchTypeOK ==
  /\ started \in 0 .. NUM_THREADS /\ joined \in 0 .. NUM_THREADS
  /\ lockedBy \in Searchers \cup {Nobody} /\ tries \in Searchers \cup {Nobody}
  /\ search \in [Searchers -> {"none", "seed", "wait", "search", "trylock",
                               "cancel others", "found", "cancelled"}]
  /\ j \in [Searchers -> 1 .. NUM_THREADS + 1] /\ cancels \subseteq Searchers

(* One thread wins, though several may find the number at once; it cancels  *)
(* no thread that main has joined already; and the count that main prints   *)
(* after the joins is the winner's.                                         *)
FoundOnce ==
  LET winners == {t \in Searchers : search[t] \in {"cancel others", "found"}} IN
  /\ Cardinality(winners) <= 1
  /\ \A t \in winners : j[t] # t => j[t] > joined
  /\ joined = NUM_THREADS => winners = {tries}

(* The search ends: the cancels reach also a thread that has not got its    *)
(* seed yet when the lock is taken for good, and one that found the number  *)
(* too late.                                                                *)
SearchEnds == <>(joined = NUM_THREADS)
================================================================================
