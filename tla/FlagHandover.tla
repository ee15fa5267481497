------------------------------ MODULE FlagHandover ------------------------------
(***************************************************************************)
(* pthread/3ex_pthread_synchronization.c: writefun, on the main thread,    *)
(* hands lines to the thread readfun through one buffer.  A section of the *)
(* mutex is one action; a pass of a loop that finds nothing to do changes  *)
(* nothing.  The flag retflag is read and written outside the mutex.       *)
(***************************************************************************)
EXTENDS Integers, Sequences

CONSTANT HANDED     \* how many lines writefun writes (10 in the code)

ASSUME HandedAssumption == HANDED \in Nat \ {0}

VARIABLES
  text, hasItem,    \* buffer and buffer_has_item
  retflag,
  written,          \* writefun's i
  printed,          \* what readfun printed
  readfun, main     \* where the two threads stand

handoverVars == <<text, hasItem, retflag, written, printed, readfun, main>>

HandoverInit ==
  /\ text = 0 /\ hasItem = FALSE
  /\ retflag = FALSE
  /\ written = 0 /\ printed = << >>
  /\ readfun = "test" /\ main = "write"

TestFlag ==
  /\ readfun = "test"
  /\ readfun' = IF retflag THEN "returned" ELSE "section"
  /\ UNCHANGED <<text, hasItem, retflag, written, printed, main>>

ReadSection ==
  /\ readfun = "section"
  /\ readfun' = "test"
  /\ hasItem' = FALSE
  /\ printed' = IF hasItem THEN Append(printed, text) ELSE printed
  /\ UNCHANGED <<text, retflag, written, main>>

MutantOverwrites == main = "write"

MayWrite == main = "write" /\ ~hasItem

WriteSection ==
  /\ MayWrite /\ written < HANDED
  /\ text' = written /\ hasItem' = TRUE
  /\ written' = written + 1
  /\ UNCHANGED <<retflag, printed, readfun, main>>

SetFlag ==
  /\ main = "write" /\ written = HANDED
  /\ retflag' = TRUE
  /\ main' = "return"
  /\ UNCHANGED <<text, hasItem, written, printed, readfun>>

(* main returns without joining readfun, and takes it down with the process. *)
Return ==
  /\ main = "return"
  /\ main' = "ended" /\ readfun' = "returned"
  /\ UNCHANGED <<text, hasItem, retflag, written, printed>>

Reader == TestFlag \/ ReadSection
Writer == WriteSection \/ SetFlag \/ Return
HandoverNext == Reader \/ Writer

HandoverSpec == HandoverInit /\ [][HandoverNext]_handoverVars
-------------------------------------------------------------------------------
HandoverTypeOK ==
  /\ text \in 0 .. HANDED - 1 /\ written \in 0 .. HANDED
  /\ hasItem \in BOOLEAN /\ retflag \in BOOLEAN
  /\ printed \in Seq(0 .. HANDED - 1)
  /\ readfun \in {"test", "section", "returned"} /\ main \in {"write", "return", "ended"}

(* The lines are printed in order, each once, and at most the last one      *)
(* stays unread: readfun may see retflag, or go down with the process,      *)
(* while it is still in the buffer, but none before it.                     *)
OnlyLastUnread ==
  /\ printed = [k \in 1 .. Len(printed) |-> k - 1]
  /\ Len(printed) >= written - 1

(* The spinning threads let each other in until all is written.             *)
HandoverEnds == <>(main = "ended")
================================================================================
