------------------------------ MODULE ServerWindow ------------------------------
(***************************************************************************)
(* The window of the ticket server and the service threads compete for the *)
(* mutexes of ticket_list and for the info ring: button_inquireone of      *)
(* server.c locks one flight after the other on the GTK thread, which is   *)
(* the only one that empties the ring; the service threads do the same for *)
(* their requests, and add lines to the ring (servicethread.h).  The       *)
(* tickets themselves are in TicketSale.  inquireall of the window only    *)
(* reads, with no mutex, and is not a step.                                *)
(***************************************************************************)
EXTENDS InfoRing

CONSTANT FLIGHT_NUM     \* 10 in the code

ASSUME FlightNumAssumption == FLIGHT_NUM \in Nat \ {0}

GTK == "gtk"
Threads == Writers \cup {GTK}
All == 0                       \* INQUIRE_ALL
Unknown == FLIGHT_NUM + 1      \* a flight that is not in the list

VARIABLES
  owner,     \* who holds the mutex of each flight: at most one thread
  wanted,    \* what each thread's request, or the dialog, asks for
  flight,    \* its loop variable
  at         \* where it stands

windowVars == <<ringVars, owner, wanted, flight, at>>

WindowInit ==
  /\ RingInit
  /\ owner = [f \in 1 .. FLIGHT_NUM |-> {}]
  /\ wanted = [t \in Threads |-> All]
  /\ flight = [t \in Threads |-> 1]
  /\ at = [t \in Threads |-> "idle"]

Ask(t, what) ==
  /\ at[t] = "idle"
  /\ at' = [at EXCEPT ![t] = "lock"]
  /\ wanted' = [wanted EXCEPT ![t] = what]
  /\ flight' = [flight EXCEPT ![t] = 1]
  /\ UNCHANGED <<ringVars, owner>>

Lock(t) ==
  /\ at[t] = "lock" /\ owner[flight[t]] = {}
  /\ owner' = [owner EXCEPT ![flight[t]] = {t}]
  /\ at' = [at EXCEPT ![t] = "locked"]
  /\ UNCHANGED <<ringVars, wanted, flight>>

(* On to the next flight, or out of the loop at the end of the list.        *)
GoOn(t) ==
  /\ flight' = [flight EXCEPT ![t] = IF @ = FLIGHT_NUM THEN 1 ELSE @ + 1]
  /\ at' = [at EXCEPT ![t] = IF flight[t] = FLIGHT_NUM THEN "idle" ELSE "lock"]

Matches(t) == wanted[t] \in {flight[t], All}

MutantUnlocksOthersOnly(t) ==
  owner' = IF Matches(t) THEN owner ELSE [owner EXCEPT ![flight[t]] = {}]

Unlock(t) == owner' = [owner EXCEPT ![flight[t]] = {}]

(* The mutex is given back in every branch, before anything is logged.      *)
Leave(t) ==
  /\ at[t] = "locked"
  /\ Unlock(t)
  /\ \/ ~Matches(t) /\ GoOn(t)
     \/ Matches(t) /\ at' = [at EXCEPT ![t] = IF t = GTK THEN "idle" ELSE
                                               IF wanted[t] = All /\ flight[t] = 1
                                                 THEN "header" ELSE "line"]
                   /\ UNCHANGED flight
  /\ UNCHANGED <<ringVars, wanted>>

(* add_info: INQUIRE_ALL has one more line before its first flight.         *)
FindInfo(w) ==
  /\ at[w] \in {"header", "line"}
  /\ GetFreeInfo(w)
  /\ UNCHANGED <<owner, wanted, flight, at>>

AddInfo(w) ==
  /\ StoreInfo(w)
  /\ \/ at[w] = "header" /\ at' = [at EXCEPT ![w] = "line"] /\ UNCHANGED flight
     \/ at[w] = "line" /\ wanted[w] = All /\ GoOn(w)
     \/ at[w] = "line" /\ wanted[w] # All /\ at' = [at EXCEPT ![w] = "idle"]
                       /\ UNCHANGED flight
  /\ UNCHANGED <<owner, wanted>>

(* A cancel reaches a service thread in recv, send or the sleep of add_info. *)
Cancelled(w) ==
  /\ at[w] = "idle" \/ (at[w] \in {"header", "line"} /\ claim[w] = NoSlot /\ Freed = {})
  /\ at' = [at EXCEPT ![w] = "ended"]
  /\ UNCHANGED <<ringVars, owner, wanted, flight>>

(* The timer of info_print is served by the thread that runs the dialogs.   *)
Timer ==
  /\ at[GTK] = "idle"
  /\ InfoPrint
  /\ UNCHANGED <<owner, wanted, flight, at>>

Searching(t) == Lock(t) \/ Leave(t)

WindowNext ==
  \/ \E f \in 1 .. FLIGHT_NUM : Ask(GTK, f)
  \/ Timer
  \/ \E w \in Writers : \/ \E what \in All .. Unknown : Ask(w, what)
                        \/ FindInfo(w) \/ AddInfo(w) \/ Cancelled(w)
  \/ \E t \in Threads : Searching(t)

WindowSpec == WindowInit /\ [][WindowNext]_windowVars
-------------------------------------------------------------------------------
WindowTypeOK ==
  /\ RingTypeOK
  /\ owner \in [1 .. FLIGHT_NUM -> SUBSET Threads]
  /\ wanted \in [Threads -> All .. Unknown]
  /\ flight \in [Threads -> 1 .. FLIGHT_NUM]
  /\ at \in [Threads -> {"idle", "lock", "locked", "header", "line", "ended"}]

(* The window never freezes: an inquiry on the GTK thread ends also when    *)
(* the ring is full and only this thread could empty it, because nobody     *)
(* sleeps in add_info or is cancelled with a mutex of ticket_list in hand.  *)
InquiryReturns == at[GTK] = "lock" ~> at[GTK] = "idle"
================================================================================
