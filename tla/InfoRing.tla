------------------------------- MODULE InfoRing -------------------------------
(***************************************************************************)
(* The ring of pending output lines of the ticket server: info[INFO_NUM]   *)
(* of gnome_ticket_buy/global.h, with the functions that use it.  Threads  *)
(* add a line in two critical sections of info_mutex (get_free_info, then  *)
(* the store of add_info); the GTK thread shows and frees every occupied   *)
(* slot in one critical section (info_print of server.c).  No section      *)
(* blocks or can be cancelled inside, so each one is one action, and the   *)
(* mutex itself needs no variable.                                         *)
(*                                                                         *)
(* The module holds the occupancy only; the modules that instantiate or    *)
(* extend it add the text of the lines or the threads around the calls.    *)
(***************************************************************************)
EXTENDS Integers

CONSTANTS Writers,     \* the threads that call add_info
          INFO_NUM     \* number of slots (10 in the code)

ASSUME InfoNumAssumption == INFO_NUM \in Nat \ {0}

VARIABLES status,      \* info[i].status
          claim        \* the local i of add_info in each writer

ringVars == <<status, claim>>

InfoSlots == 0 .. INFO_NUM - 1
NoSlot == -1           \* what get_free_info returns when the ring is full

Occupied == {i \in InfoSlots : status[i] = "INFO_OCCUPIED"}
Freed == {i \in InfoSlots : status[i] = "INFO_FREED"}

RingInit ==
  /\ status = [i \in InfoSlots |-> "INFO_FREED"]
  /\ claim = [w \in Writers |-> NoSlot]

(* get_free_info: the lowest free slot, which it does not mark.  When there *)
(* is none the caller sleeps a second and asks again: it waits here.        *)
MutantHighestFreed == {i \in Freed : \A j \in Freed : i >= j}
MutantIgnoresStatus == {i \in InfoSlots : \A j \in InfoSlots : i <= j}
MutantIndexPastEnd ==
  IF Freed = {} THEN {INFO_NUM} ELSE {i \in Freed : \A j \in Freed : i <= j}

LowestFreed == {i \in Freed : \A j \in Freed : i <= j}

GetFreeInfo(w) ==
  /\ claim[w] = NoSlot
  /\ \E i \in LowestFreed : claim' = [claim EXCEPT ![w] = i]
  /\ UNCHANGED status

(* The second critical section of add_info.                                 *)
StoreInfo(w) ==
  /\ claim[w] # NoSlot
  /\ status' = [status EXCEPT ![claim[w]] = "INFO_OCCUPIED"]
  /\ claim' = [claim EXCEPT ![w] = NoSlot]

(* info_print, run by the GTK main loop every 500 ms: the slots it shows,   *)
(* and the section that frees them.                                         *)
MutantSkipsSlotZero == Occupied \ {0}

Printed == Occupied

MutantShowsWithoutFreeing == UNCHANGED <<status, claim>>

InfoPrint ==
  /\ status' = [i \in InfoSlots |-> IF i \in Printed THEN "INFO_FREED"
                                                     ELSE status[i]]
  /\ UNCHANGED claim

RingTypeOK ==
  /\ status \in [InfoSlots -> {"INFO_FREED", "INFO_OCCUPIED"}]
  /\ claim \in [Writers -> InfoSlots \cup {NoSlot}]
===============================================================================
