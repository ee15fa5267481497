------------------------------ MODULE WordPrinters ------------------------------
(***************************************************************************)
(* ipc/17ex_semaphore.c: any number of runs of the program print their     *)
(* words between a P and a V of one semaphore, letter by letter, with      *)
(* SEM_UNDO.  A run whose first argument is not "1" (a creator) sets the   *)
(* semaphore to 1 when it starts and removes it when it ends.  A step is a *)
(* system call, or the printing of a word.  Any run may be killed.         *)
(***************************************************************************)
EXTENDS Integers, FiniteSets

CONSTANTS
  Runs,        \* runs of the program
  Creators,    \* those with another argument than "1"
  WORDS        \* argc: how many words each prints

ASSUME WordsAssumption ==
  IsFiniteSet(Runs) /\ Creators \subseteq Runs /\ WORDS \in Nat \ {0}

VARIABLES
  semId,          \* the semaphore found under the key; 0: there is none
  made,           \* how many were made so far
  semval,         \* the value of each
  semadj,         \* what the end of a run adds to its semaphore
  sem_id,         \* the semaphore each run got
  i,              \* the words each run has printed
  run,            \* where each run stands
  setInside       \* history: was a semaphore set while another run was inside?

wordVars == <<semId, made, semval, semadj, sem_id, i, run, setInside>>

WordsInit ==
  /\ semId = 0 /\ made = 0
  /\ semval = [s \in 0 .. Cardinality(Runs) |-> 0]
  /\ semadj = [r \in Runs |-> 0] /\ sem_id = [r \in Runs |-> 0]
  /\ i = [r \in Runs |-> 0]
  /\ run = [r \in Runs |-> "semget"]
  /\ setInside = FALSE

Moves(r, from, to) == run[r] = from /\ run' = [run EXCEPT ![r] = to]
Exists(r) == sem_id[r] = semId
Inside == {r \in Runs : run[r] \in {"print", "V"}}

(* A new semaphore is 0.                                                    *)
Semget(r) ==
  /\ Moves(r, "semget", IF r \in Creators THEN "set" ELSE "P")
  /\ made' = IF semId = 0 THEN made + 1 ELSE made
  /\ semId' = IF semId = 0 THEN made + 1 ELSE semId
  /\ sem_id' = [sem_id EXCEPT ![r] = semId']
  /\ UNCHANGED <<semval, semadj, i, setInside>>

(* semctl(SETVAL) forgets the undos of all runs; its failure is ignored.    *)
SetVal(r) ==
  /\ Moves(r, "set", "P")
  /\ IF Exists(r)
       THEN /\ semval' = [semval EXCEPT ![semId] = 1]
            /\ semadj' = [q \in Runs |-> IF Exists(q) THEN 0 ELSE semadj[q]]
            /\ setInside' = (setInside \/ Inside # {})
       ELSE UNCHANGED <<semval, semadj, setInside>>
  /\ UNCHANGED <<semId, made, sem_id, i>>

(* The kernel adds the undo, but leaves no value below 0.                   *)
Undo(r) ==
  LET v == semval[sem_id[r]] + semadj[r] IN
  [semval EXCEPT ![sem_id[r]] = IF v < 0 THEN 0 ELSE v]

Ends(r) == semval' = Undo(r) /\ semadj' = [semadj EXCEPT ![r] = 0]

(* semop waits for a positive value, and fails when the semaphore is        *)
(* removed; the program then exits.                                         *)
P(r) ==
  /\ Exists(r) /\ semval[semId] > 0
  /\ Moves(r, "P", "print")
  /\ semval' = [semval EXCEPT ![semId] = @ - 1]
  /\ semadj' = [semadj EXCEPT ![r] = @ + 1]
  /\ UNCHANGED <<semId, made, sem_id, i, setInside>>

PrintWord(r) ==
  /\ Moves(r, "print", "V")
  /\ i' = [i EXCEPT ![r] = @ + 1]
  /\ UNCHANGED <<semId, made, semval, semadj, sem_id, setInside>>

MutantVWithoutUndo(r) == semadj

TakenBack(r) == [semadj EXCEPT ![r] = @ - 1]

V(r) ==
  /\ Exists(r)
  /\ Moves(r, "V", IF i[r] < WORDS THEN "P" ELSE "finished")
  /\ semval' = [semval EXCEPT ![semId] = @ + 1]
  /\ semadj' = TakenBack(r)
  /\ UNCHANGED <<semId, made, sem_id, i, setInside>>

SemopFails(r) ==
  /\ run[r] \in {"P", "V"} /\ ~Exists(r)
  /\ run' = [run EXCEPT ![r] = "ended"]
  /\ Ends(r)
  /\ UNCHANGED <<semId, made, sem_id, i, setInside>>

(* A creator removes its semaphore, which others may still be using.        *)
Finish17(r) ==
  /\ Moves(r, "finished", "ended")
  /\ semId' = IF r \in Creators /\ Exists(r) THEN 0 ELSE semId
  /\ Ends(r)
  /\ UNCHANGED <<made, sem_id, i, setInside>>

Killed(r) ==
  /\ run[r] \notin {"semget", "ended"}
  /\ run' = [run EXCEPT ![r] = "ended"]
  /\ Ends(r)
  /\ UNCHANGED <<semId, made, sem_id, i, setInside>>

Runs17(r) == Semget(r) \/ SetVal(r) \/ PrintWord(r) \/ V(r) \/ SemopFails(r) \/ Finish17(r)

WordsNext == \E r \in Runs : Runs17(r) \/ P(r) \/ Killed(r)

WordsSpec == WordsInit /\ [][WordsNext]_wordVars
-------------------------------------------------------------------------------
WordsTypeOK ==
  /\ semId \in 0 .. made /\ made \in 0 .. Cardinality(Runs)
  /\ semval \in [0 .. Cardinality(Runs) -> Nat]
  /\ semadj \in [Runs -> Int] /\ sem_id \in [Runs -> 0 .. made]
  /\ i \in [Runs -> 0 .. WORDS] /\ setInside \in BOOLEAN
  /\ run \in [Runs -> {"semget", "set", "P", "print", "V", "finished", "ended"}]

(* Words are not mixed, whoever starts, is killed or removes the semaphore, *)
(* unless a creator sets the semaphore while another run is inside.         *)
WordsWhole == ~setInside => Cardinality(Inside) <= 1

PastSet(r) == run[r] \in {"P", "print", "V", "finished"}

(* A run that waits on a semaphore that was set goes on: the kernel gives   *)
(* back what a killed run had taken, and a removal wakes the waiters.       *)
NobodyStuck ==
  \A r \in Runs :
    run[r] = "P" /\ Exists(r) /\ (\E q \in Creators : Exists(q) /\ PastSet(q))
      ~> run[r] # "P"
================================================================================
