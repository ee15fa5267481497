------------------------------ MODULE HandlerMutex ------------------------------
(***************************************************************************)
(* pthread/dead_mutex.c: mutex_thread holds the mutex until                *)
(* signal_handler_exit is set; the handler of SIGUSR1, run by sleep_thread,*)
(* takes the mutex before it sets it.                                      *)
(***************************************************************************)
VARIABLES
  mutexThread,          \* where mutex_thread stands
  sleepThread,          \* where sleep_thread stands, in its handler or not
  signal_handler_exit,
  mainThread            \* where main stands

mutexVars == <<mutexThread, sleepThread, signal_handler_exit, mainThread>>

MutexInit ==
  /\ mutexThread = "start" /\ sleepThread = "asleep"
  /\ signal_handler_exit = FALSE
  /\ mainThread = "kill"

(* The callers of hold_mutex: 0 is mutex_thread, 1 is the handler.          *)
MutantBothWait(c) == ~signal_handler_exit

Sleeps(c) == ~signal_handler_exit /\ c # 1

MutexLocks ==
  /\ mutexThread = "start" /\ sleepThread # "in section"
  /\ mutexThread' = "in section"
  /\ UNCHANGED <<sleepThread, signal_handler_exit, mainThread>>

MutexUnlocks ==
  /\ mutexThread = "in section" /\ ~Sleeps(0)
  /\ mutexThread' = "ended"
  /\ UNCHANGED <<sleepThread, signal_handler_exit, mainThread>>

HandlerLocks ==
  /\ sleepThread = "handler" /\ mutexThread # "in section"
  /\ sleepThread' = "in section"
  /\ UNCHANGED <<mutexThread, signal_handler_exit, mainThread>>

HandlerUnlocks ==
  /\ sleepThread = "in section" /\ ~Sleeps(1)
  /\ sleepThread' = "unlocked"
  /\ UNCHANGED <<mutexThread, signal_handler_exit, mainThread>>

HandlerReturns ==
  /\ sleepThread = "unlocked"
  /\ signal_handler_exit' = TRUE
  /\ sleepThread' = "asleep"
  /\ UNCHANGED <<mutexThread, mainThread>>

SleepEnds ==
  /\ sleepThread = "asleep"
  /\ sleepThread' = "ended"
  /\ UNCHANGED <<mutexThread, signal_handler_exit, mainThread>>

(* pthread_kill: the signal reaches the thread unless it has ended.         *)
Kill ==
  /\ mainThread = "kill"
  /\ mainThread' = "join"
  /\ sleepThread' = IF sleepThread = "asleep" THEN "handler" ELSE sleepThread
  /\ UNCHANGED <<mutexThread, signal_handler_exit>>

JoinBoth ==
  /\ mainThread = "join" /\ mutexThread = "ended" /\ sleepThread = "ended"
  /\ mainThread' = "ended"
  /\ UNCHANGED <<mutexThread, sleepThread, signal_handler_exit>>

MutexNext ==
  \/ MutexLocks \/ MutexUnlocks
  \/ HandlerLocks \/ HandlerUnlocks \/ HandlerReturns \/ SleepEnds
  \/ Kill \/ JoinBoth

MutexSpec == MutexInit /\ [][MutexNext]_mutexVars
-------------------------------------------------------------------------------
MutexTypeOK ==
  /\ mutexThread \in {"start", "in section", "ended"}
  /\ sleepThread \in {"asleep", "handler", "in section", "unlocked", "ended"}
  /\ signal_handler_exit \in BOOLEAN /\ mainThread \in {"kill", "join", "ended"}

(* mutex_thread has the mutex, and the flag it waits for is neither set nor *)
(* about to be.                                                             *)
Stuck ==
  /\ mutexThread = "in section" /\ ~signal_handler_exit
  /\ sleepThread # "unlocked"

(* Who is first at the mutex decides.  When the handler is, everybody ends. *)
(* When mutex_thread is, before the handler has let go of the mutex, nobody *)
(* ever leaves: the holder waits for a flag behind its own mutex.           *)
FirstDecides ==
  /\ (sleepThread = "in section") ~> (mainThread = "ended")
  /\ [](Stuck => [](mainThread # "ended"))
================================================================================
