------------------------- MODULE ServerLifecycleProofs -------------------------
(***************************************************************************)
(* Theorems about ServerLifecycle, for any number of threads, connections, *)
(* addresses and slots.                                                    *)
(***************************************************************************)
EXTENDS ServerLifecycle, FiniteSets, WellFoundedInduction,
        NaturalsInduction, TLAPS

(* Where the listen thread has a connection in hand, and where it holds     *)
(* buff_mutex.                                                              *)
Busy == listener.pc \notin {"none", "accept", "exited"}
Section == {"scan", "logSame", "cancel", "join"}

TypeInv ==
  /\ TypeOK
  /\ Busy => listener.conn \in Conns

Addresses == {Nobody} \cup {Addr[c] : c \in Conns}
ThreadState == [pc : Places, slot : Slots, conn : Conns \cup {NoConn}]
SlotState == [st : {"BUFF_FREED", "BUFF_OCCUPIED"}, tid : Tids \cup {NoTid},
              addr : Addresses, conn : Conns \cup {NoConn}]

(* What is used of the sizes.                                               *)
LEMMA Sizes == THREAD_BUFF_NUM \in Nat /\ THREAD_BUFF_NUM >= 1 /\ 0 \in Slots /\ MaxStarts \in Nat
BY LifecycleAssumption DEF Slots

(* The order in which the loops over the table go.                          *)
Below == {ss \in Nat \X Nat : ss[1] < ss[2]}

(* The loops over the table take the lowest slot of a set.                  *)
LEMMA LowestIsMember ==
  ASSUME NEW S \in SUBSET Slots, S # {}
  PROVE  Lowest(S) \in S /\ \A j \in S : Lowest(S) <= j
<1>1. S \subseteq Nat
  BY Sizes DEF Slots
<1>2. IsWellFoundedOn(Below, Nat)
  BY NatLessThanWellFounded DEF OpToRel, Below
<1>3. PICK k \in S : \A j \in S : <<j, k>> \notin Below
  BY <1>1, <1>2, WFMin
<1>4. \A i, j \in Nat : i < j => <<i, j>> \in Below
  BY DEF Below
<1>5. ASSUME NEW j \in S PROVE k <= j
  <2>1. j \in Nat /\ k \in Nat /\ <<j, k>> \notin Below
    BY <1>1, <1>3
  <2>2. ~(j < k)
    BY <1>4, <2>1, Zenon
  <2> QED
    BY <2>1, <2>2
<1> QED
  BY <1>5 DEF Lowest

(* One service thread that goes to another place keeps the types.           *)
LEMMA ThreadTypes ==
  ASSUME TypeOK, NEW t \in Tids
  PROVE  /\ thr[t] \in ThreadState
         /\ \A p \in Places :
              [thr EXCEPT ![t].pc = p] \in [Tids -> ThreadState]
         /\ \A p \in Places, c \in Conns \cup {NoConn} :
              [thr EXCEPT ![t].conn = c, ![t].pc = p] \in [Tids -> ThreadState]
<1>1. thr \in [Tids -> ThreadState]
  BY DEF TypeOK, ThreadState
<1>2. thr[t] \in ThreadState
  BY <1>1
<1>3. ASSUME NEW p \in Places PROVE [thr EXCEPT ![t].pc = p] \in [Tids -> ThreadState]
  <2>1. [thr[t] EXCEPT !.pc = p] \in ThreadState
    BY <1>2 DEF ThreadState
  <2>2. [thr EXCEPT ![t].pc = p] = [thr EXCEPT ![t] = [thr[t] EXCEPT !.pc = p]]
    BY <1>1
  <2> QED
    BY <1>1, <2>1, <2>2
<1>4. ASSUME NEW p \in Places, NEW c \in Conns \cup {NoConn}
      PROVE  [thr EXCEPT ![t].conn = c, ![t].pc = p] \in [Tids -> ThreadState]
  BY <1>1, <1>2 DEF ThreadState
<1> QED
  BY <1>2, <1>3, <1>4

(* What is written to one slot keeps the types.                             *)
LEMMA SlotTypes ==
  ASSUME TypeOK, NEW k \in Slots
  PROVE  /\ slot \in [Slots -> SlotState] /\ slot[k] \in SlotState
         /\ \A t \in Tids : [slot EXCEPT ![k].tid = t] \in [Slots -> SlotState]
         /\ [slot EXCEPT ![k].st = "BUFF_FREED"] \in [Slots -> SlotState]
         /\ [slot EXCEPT ![k].tid = NoTid, ![k].st = "BUFF_FREED"] \in [Slots -> SlotState]
         /\ \A c \in Conns :
              [slot EXCEPT ![k].st = "BUFF_OCCUPIED", ![k].addr = Addr[c], ![k].conn = c]
                \in [Slots -> SlotState]
<1>1. slot \in [Slots -> SlotState]
  BY DEF TypeOK, SlotState, Addresses
<1>2. slot[k] \in SlotState
  BY <1>1
<1>3. ASSUME NEW t \in Tids PROVE [slot EXCEPT ![k].tid = t] \in [Slots -> SlotState]
  BY <1>1, <1>2 DEF SlotState
<1>4. [slot EXCEPT ![k].st = "BUFF_FREED"] \in [Slots -> SlotState]
  BY <1>1, <1>2 DEF SlotState
<1>5. [slot EXCEPT ![k].tid = NoTid, ![k].st = "BUFF_FREED"] \in [Slots -> SlotState]
  BY <1>1, <1>2 DEF SlotState
<1>6. ASSUME NEW c \in Conns
      PROVE  [slot EXCEPT ![k].st = "BUFF_OCCUPIED", ![k].addr = Addr[c], ![k].conn = c]
                \in [Slots -> SlotState]
  BY <1>1, <1>2 DEF SlotState, Addresses
<1> QED
  BY <1>1, <1>2, <1>3, <1>4, <1>5, <1>6

(* Calls of add_info touch the ring and the sleepers only.                  *)
LEMMA AddInfoTypes ==
  ASSUME TypeOK, NEW w \in Writers, FindSlot(w) \/ StoreLine(w)
  PROVE  Ring!RingTypeOK' /\ asleep' \subseteq Writers
<1>1. /\ status \in [Ring!InfoSlots -> {"INFO_FREED", "INFO_OCCUPIED"}]
      /\ claim \in [Writers -> Ring!InfoSlots \cup {Ring!NoSlot}]
      /\ asleep \subseteq Writers
  BY DEF TypeOK, Ring!RingTypeOK
<1>2. CASE Ring!GetFreeInfo(w) /\ asleep' = asleep \ {w}
  <2>1. PICK i \in Ring!InfoSlots : claim' = [claim EXCEPT ![w] = i]
    BY <1>2 DEF Ring!GetFreeInfo, Ring!LowestFreed, Ring!Freed
  <2> QED
    BY <1>1, <1>2, <2>1 DEF Ring!GetFreeInfo, Ring!RingTypeOK
<1>3. CASE asleep' = asleep \cup {w} /\ UNCHANGED <<status, claim>>
  BY <1>1, <1>3 DEF Ring!RingTypeOK
<1>4. CASE StoreLine(w)
  BY <1>1, <1>4 DEF StoreLine, Ring!StoreInfo, Ring!RingTypeOK
<1> QED
  BY <1>2, <1>3, <1>4 DEF FindSlot

(* The places of a service thread, with those of add_info spelled out.      *)
LEMMA PlacesAre ==
  Places = {"unused", "start", "recv", "send", "close", "freeBuff", "exited",
            "logNew", "logRequest", "logBye", "logWrong", "logFatal"}
<1>1. DOMAIN AfterLog = {"logNew", "logRequest", "logBye", "logWrong", "logFatal"}
  BY DEF AfterLog
<1> QED
  BY <1>1 DEF Places

(* Before the server was ever opened the types hold.                        *)
LEMMA InitTypeInv == Init => TypeInv
<1> SUFFICES ASSUME Init PROVE TypeInv
  OBVIOUS
<1>0. opened \in BOOLEAN /\ starts = 0 /\ listener.pc = "none"
  BY DEF Init
<1>1. starts \in 0 .. MaxStarts /\ ~Busy
  BY <1>0, Sizes DEF Busy
<1>2. thr \in [Tids -> [pc : Places, slot : Slots, conn : Conns \cup {NoConn}]]
  BY Sizes, PlacesAre DEF Init, Unused
<1>3. slot \in [Slots -> SlotState]
  BY DEF Init, FreedSlot, SlotState, Addresses
<1>4. Ring!RingTypeOK
  BY DEF Init, Ring!RingInit, Ring!RingTypeOK
<1>5. gtk \in [pc : {"loop", "stopLock"} \cup Closing, k : Slots]
  BY Sizes DEF Init, Closing
<1>6. listener \in [pc : {"none", "accept", "lock", "scan", "logSame", "cancel", "join",
                         "getBuff", "logFull", "refuse", "fill", "create", "exited"},
                   k : Slots, conn : Conns \cup {NoConn}]
  BY Sizes DEF Init
<1> QED
  BY <1>0, <1>1, <1>2, <1>3, <1>4, <1>5, <1>6 DEF Init, TypeInv, TypeOK, SlotState, Addresses

-------------------------------------------------------------------------------
(* The service threads keep the types.                                      *)
LEMMA ServiceTypes ==
  ASSUME TypeInv, NEW t \in Tids, ServiceThread(t)
  PROVE  TypeInv'
<1> USE DEF server, table, ring, history
<1>0. TypeOK /\ thr[t] \in ThreadState /\ thr \in [Tids -> ThreadState]
  BY ThreadTypes DEF TypeInv, TypeOK, ThreadState
<1>1. CASE Register(t)
  <2> DEFINE k == thr[t].slot  c == slot[k].conn
  <2>1. k \in Slots
    BY <1>0 DEF ThreadState
  <2>2. c \in Conns \cup {NoConn}
    BY <1>0, <2>1, SlotTypes DEF SlotState
  <2>3. PICK p \in {"logNew", "logFatal"} : thr' = [thr EXCEPT ![t].conn = c, ![t].pc = p]
    BY <1>1 DEF Register
  <2>4. thr' \in [Tids -> ThreadState]
    BY <1>0, <2>2, <2>3, ThreadTypes, PlacesAre
  <2>5. slot' = [slot EXCEPT ![k].tid = t]
    BY <1>1 DEF Register
  <2>6. slot' \in [Slots -> SlotState]
    BY <1>0, <2>1, <2>5, SlotTypes
  <2> QED
    BY <1>1, <2>4, <2>6
       DEF Register, TypeInv, TypeOK, Busy, ThreadState, SlotState, Addresses, Ring!RingTypeOK
<1>2. CASE Log(t)
  <2>1. t \in Writers /\ thr[t].pc \in DOMAIN AfterLog
    BY <1>2 DEF Writers, Log
  <2>2. thr' \in [Tids -> ThreadState]
    <3>1. CASE UNCHANGED thr
      BY <1>0, <3>1
    <3>2. CASE \E to \in AfterLog[thr[t].pc] : ThreadGoes(t, thr[t].pc, to)
      <4>1. \A p \in DOMAIN AfterLog : AfterLog[p] \subseteq Places
        BY PlacesAre DEF AfterLog
      <4>2. PICK to \in Places : thr' = [thr EXCEPT ![t].pc = to]
        BY <2>1, <3>2, <4>1 DEF ThreadGoes
      <4> QED
        BY <1>0, <4>2, ThreadTypes
    <3> QED
      BY <1>2, <3>1, <3>2 DEF Log
  <2>3. Ring!RingTypeOK' /\ asleep' \subseteq Writers
    BY <1>0, <1>2, <2>1, AddInfoTypes DEF Log
  <2> QED
    BY <1>2, <2>2, <2>3 DEF Log, TypeInv, TypeOK, Busy, ThreadState
<1>3. ASSUME NEW to \in Places, thr' = [thr EXCEPT ![t].pc = to],
             UNCHANGED <<server, listener, cancelled, buffMutex, status, claim, history>>,
             slot' \in [Slots -> SlotState],
             fd' \in [Conns -> {"none", "backlog", "open", "closed"}],
             asleep' \subseteq Writers
      PROVE  TypeInv'
  <2>1. thr' \in [Tids -> ThreadState]
    BY <1>0, <1>3, ThreadTypes
  <2> QED
    BY <1>3, <2>1
       DEF TypeInv, TypeOK, Busy, ThreadState, SlotState, Addresses, Ring!RingTypeOK
<1>4. slot \in [Slots -> SlotState] /\ fd \in [Conns -> {"none", "backlog", "open", "closed"}]
      /\ asleep \subseteq Writers
  BY <1>0 DEF TypeOK, SlotState, Addresses
<1>5. CASE Recv(t) \/ Send(t)
  <2>1. PICK to \in Places : thr' = [thr EXCEPT ![t].pc = to]
    BY <1>5, PlacesAre DEF Recv, Send, ThreadGoes
  <2> QED
    BY <1>3, <1>4, <1>5, <2>1 DEF Recv, Send
<1>6. CASE CloseConn(t)
  BY <1>3, <1>4, <1>6, PlacesAre DEF CloseConn, ThreadGoes
<1>7. CASE FreeBuff(t)
  <2>1. slot' \in [Slots -> SlotState]
    BY <1>0, <1>7, SlotTypes DEF FreeBuff, ThreadState
  <2> QED
    BY <1>3, <1>4, <1>7, <2>1, PlacesAre DEF FreeBuff, ThreadGoes
<1>8. CASE Cancelled(t)
  BY <1>3, <1>4, <1>8, PlacesAre DEF Cancelled
<1> QED
  BY <1>1, <1>2, <1>5, <1>6, <1>7, <1>8 DEF ServiceThread

FdType == [Conns -> {"none", "backlog", "open", "closed"}]
ListenerType ==
  [pc : {"none", "accept", "lock", "scan", "logSame", "cancel", "join",
         "getBuff", "logFull", "refuse", "fill", "create", "exited"},
   k : Slots, conn : Conns \cup {NoConn}]

(* pthread_cancel keeps the types.                                          *)
LEMMA CancelTypes ==
  ASSUME TypeOK, NEW k \in Slots, CancelSlot(k)
  PROVE  cancelled' \subseteq Writers /\ hasty' \in BOOLEAN
<1>1. slot[k].tid \in Tids \cup {NoTid}
  BY SlotTypes DEF SlotState
<1>2. hasty \in BOOLEAN /\ Starting(k) \in BOOLEAN
  BY DEF TypeOK, Starting
<1> QED
  BY <1>1, <1>2 DEF CancelSlot, Writers, TypeOK

(* So do pthread_join and what follows it.                                  *)
LEMMA JoinTypes ==
  ASSUME TypeOK, NEW k \in Slots, FreeJoined(k)
  PROVE  /\ thr' \in [Tids -> ThreadState] /\ slot' \in [Slots -> SlotState]
         /\ cancelled' \subseteq Writers
         /\ JoinAndFree(k) => fd' \in FdType
<1>1. Unused \in ThreadState
  BY Sizes, PlacesAre DEF Unused, ThreadState
<1>2. thr' \in [Tids -> ThreadState]
  BY <1>1 DEF FreeJoined, TypeOK, ThreadState
<1>3. slot' \in [Slots -> SlotState]
  BY SlotTypes DEF FreeJoined
<1> QED
  BY <1>2, <1>3 DEF JoinAndFree, FreeJoined, TypeOK, FdType

(* The listen thread keeps the types.                                       *)
LEMMA ListenerTypes ==
  ASSUME TypeInv, ListenThread
  PROVE  TypeInv'
<1> USE DEF server, table, ring, history
<1>0. /\ TypeOK /\ listener \in ListenerType /\ listener.k \in Slots
      /\ slot \in [Slots -> SlotState] /\ thr \in [Tids -> ThreadState] /\ fd \in FdType
      /\ asleep \subseteq Writers /\ cancelled \subseteq Writers
      /\ buffMutex \in {Nobody, Listener, Gtk} /\ Ring!RingTypeOK
      /\ late \subseteq Conns /\ unserved \subseteq Conns /\ hasty \in BOOLEAN
  BY DEF TypeInv, TypeOK, ListenerType, ThreadState, SlotState, Addresses, FdType
<1>s. ASSUME listener' \in ListenerType, Busy' => listener'.conn \in Conns,
             thr' \in [Tids -> ThreadState], slot' \in [Slots -> SlotState], fd' \in FdType,
             asleep' \subseteq Writers, cancelled' \subseteq Writers,
             buffMutex' \in {Nobody, Listener, Gtk}, Ring!RingTypeOK',
             UNCHANGED server, late' \subseteq Conns, unserved' \subseteq Conns, hasty' \in BOOLEAN
      PROVE  TypeInv'
  BY <1>0, <1>s DEF TypeInv, TypeOK, ListenerType, ThreadState, SlotState, Addresses, FdType
<1>u. UNCHANGED <<status, claim>> => Ring!RingTypeOK'
  BY <1>0 DEF Ring!RingTypeOK
<1>g. ASSUME NEW from, NEW to \in {"lock", "scan", "cancel", "join", "getBuff", "refuse",
                                   "create", "accept"},
             ListenerGoes(from, to), from \notin {"none", "accept", "exited"}
      PROVE  listener' \in ListenerType /\ (Busy' => listener'.conn \in Conns)
  BY <1>0, <1>g DEF ListenerGoes, TypeInv, Busy, ListenerType
<1>a. AtAccept \in ListenerType /\ AtAccept.pc = "accept"
  BY Sizes DEF AtAccept, ListenerType
<1>1. ASSUME NEW c \in Conns, Accept(c) PROVE TypeInv'
  <2>0. late' \subseteq Conns
    BY <1>0, <1>1 DEF Accept
  <2>1. listener' \in ListenerType /\ listener'.conn \in Conns
    BY <1>1, Sizes DEF Accept, ListenerType
  <2>2. fd' \in FdType
    BY <1>0, <1>1 DEF Accept, FdType
  <2> QED
    BY <1>0, <1>1, <1>s, <1>u, <2>0, <2>1, <2>2 DEF Accept
<1>2. CASE CheckLock
  BY <1>0, <1>2, <1>s, <1>u, <1>g DEF CheckLock
<1>3. CASE Scan
  <2>1. Same \subseteq Slots
    BY DEF Same, OccupiedFrom
  <2>2. Same # {} => Lowest(Same) \in Slots
    BY <2>1, LowestIsMember
  <2>3. listener' \in ListenerType /\ (Busy' => listener'.conn \in Conns)
    BY <1>0, <1>3, <2>2 DEF Scan, TypeInv, Busy, ListenerType
  <2> QED
    BY <1>0, <1>3, <1>s, <1>u, <2>3 DEF Scan
<1>4. ASSUME NEW from \in {"logSame", "logFull"}, NEW to \in {"cancel", "refuse"},
             ListenerLog(from, to)
      PROVE  TypeInv'
  <2>1. Listener \in Writers
    BY DEF Writers
  <2>2. Ring!RingTypeOK' /\ asleep' \subseteq Writers
    BY <1>0, <1>4, <2>1, AddInfoTypes DEF ListenerLog
  <2>3. listener' \in ListenerType /\ (Busy' => listener'.conn \in Conns)
    BY <1>0, <1>4, <1>g DEF ListenerLog, TypeInv, Busy
  <2> QED
    BY <1>0, <1>4, <1>s, <2>2, <2>3 DEF ListenerLog
<1>5. CASE CancelSame
  BY <1>0, <1>5, <1>s, <1>u, <1>g, CancelTypes DEF CancelSame
<1>6. CASE JoinSame
  BY <1>0, <1>6, <1>s, <1>u, <1>g, JoinTypes DEF JoinSame, JoinAndFree
<1>7. CASE GetFreeBuff
  <2>1. FreeSlots # {} => Lowest(FreeSlots) \in Slots
    BY LowestIsMember DEF FreeSlots
  <2>2. listener' \in ListenerType /\ (Busy' => listener'.conn \in Conns)
    BY <1>0, <1>7, <2>1 DEF GetFreeBuff, TypeInv, Busy, ListenerType
  <2> QED
    BY <1>0, <1>7, <1>s, <1>u, <2>2 DEF GetFreeBuff
<1>8. CASE Refuse
  <2>1. fd' \in FdType
    BY <1>0, <1>8 DEF Refuse, FdType
  <2> QED
    BY <1>0, <1>8, <1>a, <1>s, <1>u, <2>1 DEF Refuse, Busy
<1>9. CASE Fill
  <2>1. listener.conn \in Conns
    BY <1>9 DEF Fill, ListenerGoes, TypeInv, Busy
  <2>2. slot' \in [Slots -> SlotState]
    BY <1>0, <1>9, <2>1, SlotTypes DEF Fill
  <2> QED
    BY <1>0, <1>9, <1>s, <1>u, <1>g, <2>2 DEF Fill
<1>10. CASE Create
  <2>1. [pc |-> "start", slot |-> listener.k, conn |-> NoConn] \in ThreadState
    BY <1>0, PlacesAre DEF ThreadState
  <2>2. thr' \in [Tids -> ThreadState]
    BY <1>0, <1>10, <2>1 DEF Create, UnusedTids
  <2>3. unserved' \subseteq Conns
    BY <1>0, <1>10 DEF Create, TypeInv, Busy
  <2> QED
    BY <1>0, <1>10, <1>a, <1>s, <1>u, <2>2, <2>3 DEF Create, Busy
<1>11. CASE ListenerCancelled
  <2>1. listener' \in ListenerType /\ ~Busy'
    BY <1>0, <1>11 DEF ListenerCancelled, ListenerType, Busy
  <2>2. /\ thr' \in [Tids -> ThreadState] /\ slot' \in [Slots -> SlotState]
        /\ cancelled' \subseteq Writers
    BY <1>0, <1>11, JoinTypes DEF ListenerCancelled
  <2> QED
    BY <1>0, <1>11, <1>s, <1>u, <2>1, <2>2 DEF ListenerCancelled
<1> QED
  BY <1>1, <1>2, <1>3, <1>4, <1>5, <1>6, <1>7, <1>8, <1>9, <1>10, <1>11
     DEF ListenThread, LogSame, LogFull

GtkType == [pc : {"loop", "stopLock"} \cup Closing, k : Slots]

(* The GTK thread, the users and the clients keep the types.                *)
LEMMA GtkTypes ==
  ASSUME TypeInv, gtk.pc = "stopLock" => listener.pc = "accept" \/ Busy,
         Environment \/ GtkThread
  PROVE  TypeInv'
<1> USE DEF server, table, ring, history
<1>0. /\ TypeOK /\ gtk \in GtkType /\ gtk.k \in Slots
      /\ slot \in [Slots -> SlotState] /\ thr \in [Tids -> ThreadState] /\ fd \in FdType
      /\ listener \in ListenerType
      /\ late \subseteq Conns /\ unserved \subseteq Conns /\ hasty \in BOOLEAN
      /\ asleep \subseteq Writers /\ cancelled \subseteq Writers
      /\ buffMutex \in {Nobody, Listener, Gtk} /\ Ring!RingTypeOK
      /\ opened \in BOOLEAN /\ starts \in 0 .. MaxStarts
  BY DEF TypeInv, TypeOK, GtkType, ListenerType, ThreadState, SlotState, Addresses, FdType
<1>s. ASSUME opened' \in BOOLEAN, starts' \in 0 .. MaxStarts, gtk' \in GtkType,
             listener' \in ListenerType, Busy' => listener'.conn \in Conns,
             thr' \in [Tids -> ThreadState], slot' \in [Slots -> SlotState], fd' \in FdType,
             late' \subseteq Conns, unserved' \subseteq Conns, hasty' \in BOOLEAN,
             asleep' \subseteq Writers, cancelled' \subseteq Writers,
             buffMutex' \in {Nobody, Listener, Gtk}, Ring!RingTypeOK'
      PROVE  TypeInv'
  BY <1>s DEF TypeInv, TypeOK, GtkType, ListenerType, ThreadState, SlotState, Addresses, FdType
<1>l. UNCHANGED listener => listener' \in ListenerType /\ (Busy' => listener'.conn \in Conns)
  BY <1>0 DEF TypeInv, Busy
<1>u. UNCHANGED <<status, claim>> => Ring!RingTypeOK'
  BY <1>0 DEF Ring!RingTypeOK
<1>r. ResetTable => slot' \in [Slots -> SlotState]
  <2>1. ASSUME NEW k \in Slots
        PROVE  [slot[k] EXCEPT !.tid = NoTid, !.st = "BUFF_FREED"] \in SlotState
    BY <1>0 DEF SlotState
  <2> QED
    BY <2>1 DEF ResetTable
<1>1. ASSUME NEW c \in Conns, Connect(c) PROVE TypeInv'
  <2>1. fd' \in FdType
    BY <1>0, <1>1 DEF Connect, FdType
  <2> QED
    BY <1>0, <1>1, <1>s, <1>l, <1>u, <2>1 DEF Connect
<1>2. CASE StartServer
  <2>1. starts' \in 0 .. MaxStarts
    BY <1>0, <1>2, Sizes DEF StartServer
  <2>2. opened' \in BOOLEAN
    BY <1>2 DEF StartServer
  <2>3. listener' \in ListenerType /\ ~Busy'
    BY <1>2, Sizes DEF StartServer, AtAccept, ListenerType, Busy
  <2> QED
    BY <1>0, <1>2, <1>s, <1>u, <1>r, <2>1, <2>2, <2>3 DEF StartServer
<1>3. CASE StartFails
  BY <1>0, <1>3, <1>s, <1>l, <1>u, <1>r DEF StartFails
<1>g. ASSUME NEW from, NEW to \in {"loop", "stopLock"} \cup Closing,
             NEW k \in Slots, GtkGoes(from, to, k)
      PROVE  gtk' \in GtkType
  BY <1>g DEF GtkGoes, GtkType
<1>4. CASE StopServer
  BY <1>0, <1>4, <1>s, <1>l, <1>u, <1>g, Sizes DEF StopServer
<1>5. CASE StopLock
  <2>1. late' \subseteq Conns
    BY <1>0, <1>5 DEF StopLock, GtkGoes, TypeInv
  <2> QED
    BY <1>0, <1>5, <1>s, <1>l, <1>u, <1>g, <2>1, Sizes DEF StopLock, Closing
<1>6. CASE Sweep
  <2> DEFINE low == Lowest(OccupiedFrom(gtk.k))
  <2>1. CASE OccupiedFrom(gtk.k) # {} /\ GtkGoes("sweep", "join", low)
    <3>1. low \in Slots
      BY <2>1, LowestIsMember DEF OccupiedFrom
    <3>2. /\ CancelSlot(low)
          /\ UNCHANGED <<opened, starts, listener, thr, table, fd, ring, late, unserved>>
      BY <1>6, <2>1 DEF Sweep
    <3> QED
      BY <1>0, <1>s, <1>l, <1>u, <1>g, <2>1, <3>1, <3>2, CancelTypes DEF Closing
  <2>2. CASE GtkGoes("sweep", "cancelListener", 0)
    BY <1>0, <1>6, <1>s, <1>l, <1>u, <1>g, <2>2, Sizes DEF Sweep, GtkGoes, Closing
  <2> QED
    BY <1>6, <2>1, <2>2 DEF Sweep
<1>7. CASE JoinService
  BY <1>0, <1>7, <1>s, <1>l, <1>u, <1>g, JoinTypes DEF JoinService, JoinAndFree, Closing
<1>8. CASE Closed
  <2>1. listener' \in ListenerType /\ ~Busy'
    BY <1>0, <1>8 DEF Closed, ListenerType, Busy
  <2>2. fd' \in FdType
    BY <1>0, <1>8 DEF Closed, FdType
  <2>3. opened' \in BOOLEAN
    BY <1>8 DEF Closed
  <2> QED
    BY <1>0, <1>8, <1>s, <1>u, <1>g, <2>1, <2>2, <2>3, Sizes DEF Closed
<1>9. CASE InfoPrint
  <2>1. Ring!RingTypeOK'
    BY <1>0, <1>9 DEF InfoPrint, Ring!InfoPrint, Ring!RingTypeOK
  <2> QED
    BY <1>0, <1>9, <1>s, <1>l, <2>1 DEF InfoPrint
<1>10. CASE CancelListener
  BY <1>0, <1>10, <1>s, <1>l, <1>u, <1>g, Sizes DEF CancelListener, Closing, Writers
<1> QED
  BY <1>1, <1>2, <1>3, <1>4, <1>5, <1>6, <1>7, <1>8, <1>9, <1>10 DEF Environment, GtkThread

(* The types are kept by every step.                                        *)
LEMMA TypeInductive ==
  ASSUME TypeInv, gtk.pc = "stopLock" => listener.pc = "accept" \/ Busy, [Next]_vars
  PROVE  TypeInv'
<1>1. CASE UNCHANGED vars
  BY <1>1 DEF vars, TypeInv, TypeOK, Busy, Ring!RingTypeOK
<1> QED
  BY <1>1, ServiceTypes, ListenerTypes, GtkTypes DEF Next

-------------------------------------------------------------------------------
(* Who is where: the listen thread exists while the server is open, is      *)
(* cancelled last, and has a connection in hand while stopserver closes     *)
(* only if that is noted in late; who is inside a section of buff_mutex     *)
(* holds it.                                                                *)
ControlInv ==
  /\ TypeInv
  /\ ~opened => listener.pc = "none" /\ gtk.pc = "loop"
  /\ opened => listener.pc # "none"
  /\ listener.pc = "exited" \/ Listener \in cancelled => gtk.pc = "joinListener"
  /\ listener.pc \in Section => buffMutex = Listener
  /\ buffMutex = Gtk <=> gtk.pc \in {"sweep", "join"}
  /\ Busy /\ gtk.pc \in Closing => listener.conn \in late

(* What a service thread leaves alone.                                      *)
LEMMA ServiceFrame ==
  ASSUME NEW t \in Tids, ServiceThread(t)
  PROVE  UNCHANGED <<opened, gtk, listener, cancelled, buffMutex, history>>
BY DEF ServiceThread, Register, Log, Recv, Send, CloseConn, FreeBuff, Cancelled, server, table

(* Only its own handle is that of the listen thread.                        *)
LEMMA OnlyOthersCancelled ==
  ASSUME TypeOK, NEW k \in Slots, CancelSlot(k) \/ JoinAndFree(k)
  PROVE  Listener \in cancelled' <=> Listener \in cancelled
<1>1. slot[k].tid \in Tids \cup {NoTid} /\ Listener \notin Tids /\ Listener # NoTid
  BY SlotTypes, MarksAssumption DEF SlotState, Listener, NoTid
<1> QED
  BY <1>1 DEF CancelSlot, JoinAndFree, FreeJoined

(* At the start nobody is where ControlInv excludes it.                     *)
LEMMA InitControl == Init => ControlInv
BY InitTypeInv DEF Init, ControlInv, Section, Busy, Nobody, Listener, Gtk

(* Every step keeps the threads where ControlInv says.                      *)
LEMMA ControlInductive ==
  ASSUME ControlInv, [Next]_vars
  PROVE  ControlInv'
<1> USE DEF server, table, ring, history, Section, Closing, Busy, Nobody, Listener, Gtk, AtAccept
<1>0. /\ TypeInv /\ TypeInv' /\ TypeOK /\ late \subseteq late'
      /\ listener \in ListenerType /\ listener.k \in Slots /\ gtk \in GtkType /\ gtk.k \in Slots
  <2>1. gtk.pc = "stopLock" => listener.pc = "accept" \/ Busy
    BY DEF ControlInv
  <2>2. TypeInv /\ TypeInv' /\ TypeOK
    BY <2>1, TypeInductive DEF ControlInv, TypeInv
  <2>3. late \subseteq late'
    BY ServiceFrame
       DEF Next, Environment, Connect, StartServer, StartFails, StopServer, ListenThread,
       Accept, CheckLock, Scan, LogSame, LogFull, ListenerLog, CancelSame, JoinSame, GetFreeBuff,
       Refuse, Fill, Create, ListenerCancelled, GtkThread, InfoPrint, StopLock, Sweep, JoinService,
       CancelListener, Closed, vars
  <2> QED
    BY <2>2, <2>3 DEF TypeOK, ListenerType, GtkType
<1>1. ASSUME UNCHANGED <<opened, gtk, listener, cancelled, buffMutex>> PROVE ControlInv'
  BY <1>0, <1>1 DEF ControlInv
<1>2. ASSUME NEW t \in Tids, ServiceThread(t) PROVE ControlInv'
  BY <1>1, <1>2, ServiceFrame
<1>3. ASSUME NEW c \in Conns, Connect(c) PROVE ControlInv'
  BY <1>1, <1>3 DEF Connect
<1>4. CASE StartFails \/ InfoPrint
  BY <1>1, <1>4 DEF StartFails, InfoPrint
<1>5. CASE StartServer
  BY <1>0, <1>5 DEF StartServer, ControlInv
<1>6. ASSUME NEW c \in Conns, Accept(c) PROVE ControlInv'
  BY <1>0, <1>6 DEF Accept, ControlInv
<1>7. CASE CheckLock
  BY <1>0, <1>7 DEF CheckLock, ListenerGoes, ControlInv, ListenerType
<1>8. CASE Scan
  BY <1>0, <1>8 DEF Scan, ControlInv, ListenerType
<1>9. CASE LogSame \/ LogFull
  BY <1>0, <1>9 DEF LogSame, LogFull, ListenerLog, ListenerGoes, ControlInv, ListenerType
<1>10. CASE CancelSame
  BY <1>0, <1>10, OnlyOthersCancelled DEF CancelSame, ListenerGoes, ControlInv, ListenerType
<1>11. CASE JoinSame
  BY <1>0, <1>11, OnlyOthersCancelled DEF JoinSame, ListenerGoes, ControlInv, ListenerType
<1>12. CASE GetFreeBuff
  BY <1>0, <1>12 DEF GetFreeBuff, ControlInv, ListenerType
<1>13. CASE Refuse \/ Fill \/ Create
  BY <1>0, <1>13 DEF Refuse, Fill, Create, ListenerGoes, ControlInv, ListenerType
<1>14. CASE ListenerCancelled
  BY <1>0, <1>14 DEF ListenerCancelled, ControlInv, ListenerType
<1>15. CASE StopServer \/ StopLock
  BY <1>0, <1>15 DEF StopServer, StopLock, GtkGoes, ControlInv
<1>16. CASE Sweep
  <2> DEFINE low == Lowest(OccupiedFrom(gtk.k))
  <2>1. CASE OccupiedFrom(gtk.k) # {} /\ GtkGoes("sweep", "join", low)
    <3>1. low \in Slots
      BY <2>1, LowestIsMember DEF OccupiedFrom
    <3>2. CancelSlot(low) /\ UNCHANGED <<opened, listener, buffMutex, late>>
      BY <1>16, <2>1 DEF Sweep
    <3> QED
      BY <1>0, <2>1, <3>1, <3>2, OnlyOthersCancelled DEF GtkGoes, ControlInv
  <2>2. CASE OccupiedFrom(gtk.k) = {}
    BY <1>0, <1>16, <2>2 DEF Sweep, GtkGoes, ControlInv
  <2> QED
    BY <1>16, <2>1, <2>2 DEF Sweep
<1>17. CASE JoinService
  BY <1>0, <1>17, OnlyOthersCancelled DEF JoinService, GtkGoes, ControlInv
<1>18. CASE CancelListener
  BY <1>0, <1>18 DEF CancelListener, GtkGoes, ControlInv
<1>19. CASE Closed
  BY <1>0, <1>19 DEF Closed, GtkGoes, ControlInv, ListenerType
<1>20. CASE UNCHANGED vars
  BY <1>1, <1>20 DEF vars
<1> QED
  BY <1>2, <1>3, <1>4, <1>5, <1>6, <1>7, <1>8, <1>9, <1>10, <1>11, <1>12, <1>13, <1>14,
     <1>15, <1>16, <1>17, <1>18, <1>19, <1>20
     DEF Next, Environment, ListenThread, GtkThread

(* Every variable keeps its type, whatever the constants: also when the     *)
(* server is stopped while a client connects.                               *)
THEOREM TypeCorrect == Spec => []TypeOK
<1>1. ControlInv => TypeOK
  BY DEF ControlInv, TypeInv
<1> QED
  BY InitControl, ControlInductive, <1>1, PTL DEF Spec

-------------------------------------------------------------------------------
(* What service threads and joins do to threads and slots.                  *)
Taken(k) == slot[k].st = "BUFF_OCCUPIED"

(* A connection that the listen thread has accepted.                        *)
Met(c) == fd[c] \notin {"none", "backlog"}

(* What a service thread does to itself and to the table: it registers,     *)
(* goes on, leaves its slot to others, or is cancelled.                     *)
Registers(t) ==
  /\ thr[t].pc = "start" /\ thr'[t].pc \notin {"unused", "start", "exited"}
  /\ thr'[t].conn = slot[thr[t].slot].conn
  /\ slot' = [slot EXCEPT ![thr[t].slot].tid = t]
GoesOn(t) ==
  /\ thr[t].pc \notin {"unused", "start", "exited"}
  /\ thr'[t].pc \notin {"unused", "start", "exited"}
  /\ thr'[t].conn = thr[t].conn /\ slot' = slot
Leaves(t) ==
  /\ thr[t].pc = "freeBuff" /\ thr'[t].pc = "exited" /\ buffMutex = Nobody
  /\ slot' = [slot EXCEPT ![thr[t].slot].st = "BUFF_FREED"]
IsEnded(t) ==
  /\ thr[t].pc \notin {"unused", "start", "exited"} /\ thr'[t].pc = "exited"
  /\ t \in cancelled /\ slot' = slot

(* Each step of a service thread has one of these effects, on itself alone. *)
LEMMA ServiceEffect ==
  ASSUME TypeInv, NEW t \in Tids, ServiceThread(t)
  PROVE  /\ \A u \in Tids \ {t} : thr'[u] = thr[u]
         /\ thr[t].slot \in Slots /\ thr'[t].slot = thr[t].slot
         /\ Registers(t) \/ GoesOn(t) \/ Leaves(t) \/ IsEnded(t)
         /\ \A c \in Conns : Met(c) => Met(c)'
<1>0. thr \in [Tids -> ThreadState] /\ thr[t] \in ThreadState /\ fd \in FdType
  BY DEF TypeInv, TypeOK, ThreadState, FdType
<1>1. CASE Register(t)
  BY <1>0, <1>1 DEF Register, Registers, ThreadState, Met
<1>2. CASE Log(t)
  <2>1. CASE UNCHANGED thr
    BY <1>0, <1>2, <2>1 DEF Log, GoesOn, AfterLog, table, ThreadState, Met
  <2>2. CASE \E to \in AfterLog[thr[t].pc] : ThreadGoes(t, thr[t].pc, to)
    <3>1. thr[t].pc \in DOMAIN AfterLog /\ slot' = slot /\ fd' = fd
      BY <1>2 DEF Log, table
    <3>2. \A p \in DOMAIN AfterLog : /\ p \notin {"unused", "start", "exited"}
                                     /\ AfterLog[p] \cap {"unused", "start", "exited"} = {}
      BY DEF AfterLog
    <3>3. PICK to : to \notin {"unused", "start", "exited"} /\ thr' = [thr EXCEPT ![t].pc = to]
      BY <2>2, <3>1, <3>2 DEF ThreadGoes
    <3> QED
      BY <1>0, <3>1, <3>2, <3>3 DEF GoesOn, ThreadState, Met
  <2> QED
    BY <1>2, <2>1, <2>2 DEF Log
<1>3. CASE Recv(t) \/ Send(t)
  BY <1>0, <1>3 DEF Recv, Send, ThreadGoes, GoesOn, ThreadState, table, Met
<1>4. CASE CloseConn(t)
  BY <1>0, <1>4 DEF CloseConn, ThreadGoes, GoesOn, ThreadState, table, Met, FdType
<1>5. CASE FreeBuff(t)
  BY <1>0, <1>5 DEF FreeBuff, ThreadGoes, Leaves, ThreadState, Met
<1>6. CASE Cancelled(t)
  BY <1>0, <1>6 DEF Cancelled, AtCancellationPoint, AfterLog, IsEnded, ThreadState, table, Met
<1> QED
  BY <1>1, <1>2, <1>3, <1>4, <1>5, <1>6 DEF ServiceThread

(* pthread_join and what follows it touch one thread and one slot.          *)
LEMMA JoinEffect ==
  ASSUME TypeInv, NEW k \in Slots, slot[k].tid \in Tids, FreeJoined(k)
  PROVE  LET t == slot[k].tid IN
         /\ thr[t].pc = "exited" /\ thr'[t].pc = "unused"
         /\ \A u \in Tids : u # t => thr'[u] = thr[u]
         /\ \A u \in Tids : Live(u)' <=> Live(u)
         /\ cancelled' = cancelled \ {t}
         /\ \A j \in Slots : j # k => slot'[j] = slot[j]
         /\ slot'[k].tid = NoTid /\ slot'[k].addr = slot[k].addr /\ slot'[k].conn = slot[k].conn
         /\ \A j \in Slots : Taken(j)' <=> Taken(j) /\ j # k
<1> DEFINE t == slot[k].tid
<1>0. thr \in [Tids -> ThreadState] /\ slot \in [Slots -> SlotState] /\ fd \in FdType
  BY DEF TypeInv, TypeOK, ThreadState, SlotState, Addresses, FdType
<1>1. /\ thr[t].pc = "exited" /\ thr' = [thr EXCEPT ![t] = Unused]
      /\ cancelled' = cancelled \ {t}
      /\ slot' = [slot EXCEPT ![k].tid = NoTid, ![k].st = "BUFF_FREED"]
  BY DEF FreeJoined
<1>2. /\ \A u \in Tids : u # t => thr'[u] = thr[u]
      /\ thr'[t].pc = "unused"
      /\ \A u \in Tids : Live(u)' <=> Live(u)
  BY <1>0, <1>1 DEF Live, Unused
<1>3. /\ \A j \in Slots : j # k => slot'[j] = slot[j]
      /\ slot'[k].addr = slot[k].addr /\ slot'[k].conn = slot[k].conn
      /\ slot'[k].tid = NoTid
      /\ \A j \in Slots : Taken(j)' <=> Taken(j) /\ j # k
  BY <1>0, <1>1 DEF SlotState, Taken
<1> QED
  BY <1>1, <1>2, <1>3

(* What holds of the slots is kept by a step that changes none.             *)
LEMMA SlotsKept ==
  ASSUME UNCHANGED slot
  PROVE  \A j \in Slots : (Taken(j)' <=> Taken(j)) /\ slot'[j] = slot[j]
BY DEF Taken

(* startserver frees every slot.                                            *)
LEMMA ResetEffect ==
  ASSUME TypeInv, ResetTable
  PROVE  \A k \in Slots : ~Taken(k)' /\ slot'[k].tid = NoTid
<1>1. slot \in [Slots -> SlotState]
  BY DEF TypeInv, TypeOK, SlotState, Addresses
<1> QED
  BY <1>1 DEF ResetTable, Taken, SlotState

-------------------------------------------------------------------------------
(* Connections.  A taken slot has a connection, and its address, that the   *)
(* listen thread was handed before the one it has now.                      *)
SlotsServeMet ==
  \A k \in Slots : Taken(k) =>
    slot[k].conn \in Conns /\ Met(slot[k].conn) /\ slot[k].addr = Addr[slot[k].conn]

ListenerServes ==
  /\ Busy => Met(listener.conn)
  /\ Busy /\ listener.pc # "create" =>
       \A k \in Slots : Taken(k) => slot[k].conn # listener.conn
  /\ listener.pc = "create" => slot[listener.k].conn = listener.conn
  /\ listener.pc \in {"logSame", "cancel", "join"} =>
       Taken(listener.k) /\ slot[listener.k].addr = Addr[listener.conn]

(* What stopserver has left behind itself came in after it.                 *)
SweptAreLate ==
  /\ gtk.pc \in {"sweep", "join"} =>
       \A k \in Slots : k < gtk.k /\ Taken(k) => slot[k].conn \in late
  /\ gtk.pc \in {"cancelListener", "joinListener"} \/ ~opened =>
       \A k \in Slots : Taken(k) => slot[k].conn \in late

HandInv ==
  /\ ControlInv
  /\ SlotsServeMet /\ ListenerServes /\ SweptAreLate /\ MutexLostToTwo

(* The first three are kept by a step that takes no slot, if the threads    *)
(* that know something of a slot stay where they are.                       *)
LEMMA HandKept ==
  ASSUME HandInv,
         \A k \in Slots : slot'[k].conn = slot[k].conn /\ slot'[k].addr = slot[k].addr,
         \A k \in Slots : Taken(k)' => Taken(k),
         listener.pc \in Section => \A k \in Slots : Taken(k)' <=> Taken(k),
         \A c \in Conns : Met(c) => Met(c)',
         UNCHANGED <<opened, gtk, listener, late>>
  PROVE  SlotsServeMet' /\ ListenerServes' /\ SweptAreLate'
<1>0. listener.k \in Slots /\ (Busy => listener.conn \in Conns) /\ (Busy' <=> Busy)
  BY DEF HandInv, ControlInv, TypeInv, TypeOK, Busy
<1>1. SlotsServeMet'
  BY DEF HandInv, SlotsServeMet
<1>2. ListenerServes'
  BY <1>0 DEF HandInv, ListenerServes, Section
<1>3. SweptAreLate'
  BY DEF HandInv, SweptAreLate
<1> QED
  BY <1>1, <1>2, <1>3

(* Every step keeps connections, slots and late together.                   *)
LEMMA HandInductive ==
  ASSUME HandInv, [Next]_vars
  PROVE  HandInv'
<1> USE DEF server, table, ring, history
<1>0. /\ ControlInv /\ ControlInv' /\ TypeInv
      /\ thr \in [Tids -> ThreadState] /\ slot \in [Slots -> SlotState] /\ fd \in FdType
      /\ listener \in ListenerType /\ listener.k \in Slots /\ gtk \in GtkType /\ gtk.k \in Slots
      /\ Busy => listener.conn \in Conns
  BY ControlInductive
     DEF HandInv, ControlInv, TypeInv, TypeOK, ThreadState, SlotState, Addresses, ListenerType,
         GtkType, FdType
<1>k. ASSUME UNCHANGED <<opened, gtk, listener, late, buffMutex>>,
             \A k \in Slots : slot'[k].conn = slot[k].conn /\ slot'[k].addr = slot[k].addr,
             \A k \in Slots : Taken(k)' => Taken(k),
             listener.pc \in Section => \A k \in Slots : Taken(k)' <=> Taken(k),
             \A c \in Conns : Met(c) => Met(c)'
      PROVE  HandInv'
  <2>1. MutexLostToTwo'
    BY <1>k DEF HandInv, MutexLostToTwo, MutexLost
  <2> QED
    BY <1>0, <1>k, <2>1, HandKept DEF HandInv
<1>t. ASSUME MutexLost, late \subseteq late' PROVE MutexLostToTwo'
  <2>1. PICK c, d \in late : c # d /\ Addr[c] = Addr[d]
    BY <1>t DEF HandInv, MutexLostToTwo
  <2>2. c \in late' /\ d \in late'
    BY <1>t, <2>1
  <2> QED
    BY <2>1, <2>2 DEF MutexLostToTwo
<1>f. UNCHANGED fd => \A c \in Conns : Met(c) => Met(c)'
  BY DEF Met
<1>l. ASSUME UNCHANGED <<opened, gtk, slot, late, fd>>, ListenerServes', MutexLost' => MutexLost
      PROVE  HandInv'
  <2>1. SlotsServeMet' /\ SweptAreLate'
    BY <1>l, <1>f, SlotsKept DEF HandInv, SlotsServeMet, SweptAreLate
  <2>2. MutexLostToTwo'
    BY <1>l DEF HandInv, MutexLostToTwo
  <2> QED
    BY <1>0, <1>l, <2>1, <2>2 DEF HandInv
<1>1. ASSUME NEW t \in Tids, ServiceThread(t) PROVE HandInv'
  <2>1. /\ Registers(t) \/ GoesOn(t) \/ Leaves(t) \/ IsEnded(t)
        /\ thr[t].slot \in Slots
        /\ UNCHANGED <<opened, gtk, listener, late, buffMutex>>
        /\ \A c \in Conns : Met(c) => Met(c)'
    BY <1>0, <1>1, ServiceEffect, ServiceFrame
  <2>2. \A j \in Slots : /\ slot'[j].conn = slot[j].conn /\ slot'[j].addr = slot[j].addr
                         /\ Taken(j)' => Taken(j)
    BY <1>0, <2>1 DEF Registers, GoesOn, Leaves, IsEnded, SlotState, Taken
  <2>3. listener.pc \in Section => ~Leaves(t)
    BY <1>0 DEF Leaves, ControlInv, Nobody, Listener
  <2>4. ~Leaves(t) => \A k \in Slots : Taken(k)' <=> Taken(k)
    BY <1>0, <2>1 DEF Registers, GoesOn, IsEnded, SlotState, Taken
  <2> QED
    BY <1>k, <2>1, <2>2, <2>3, <2>4
<1>2. ASSUME NEW c \in Conns, Connect(c) PROVE HandInv'
  <2>1. \A d \in Conns : Met(d) => Met(d)'
    BY <1>0, <1>2 DEF Connect, Met, FdType
  <2> QED
    BY <1>2, <1>k, <2>1, SlotsKept DEF Connect
<1>3. CASE InfoPrint \/ UNCHANGED vars
  BY <1>3, <1>k, <1>f, SlotsKept DEF InfoPrint, vars
<1>4. CASE StartServer \/ StartFails
  <2>1. /\ ResetTable /\ gtk' = gtk /\ gtk.pc = "loop" /\ UNCHANGED <<late, buffMutex, fd>>
        /\ listener'.pc \in {"none", "accept"} /\ listener.pc = "none"
    BY <1>4, <1>0 DEF StartServer, StartFails, AtAccept, ControlInv
  <2>2. \A k \in Slots : ~Taken(k)'
    BY <1>0, <2>1, ResetEffect
  <2>3. SlotsServeMet' /\ ListenerServes' /\ SweptAreLate'
    BY <2>1, <2>2 DEF SlotsServeMet, ListenerServes, SweptAreLate, Busy
  <2>4. MutexLostToTwo'
    BY <2>1 DEF HandInv, MutexLostToTwo, MutexLost
  <2> QED
    BY <1>0, <2>3, <2>4 DEF HandInv
<1>5. ASSUME NEW c \in Conns, Accept(c) PROVE HandInv'
  <2>1. /\ UNCHANGED <<opened, gtk, slot, buffMutex>> /\ late \subseteq late'
        /\ fd[c] = "backlog" /\ fd' = [fd EXCEPT ![c] = "open"]
        /\ listener.pc = "accept" /\ listener'.conn = c /\ listener'.pc = "lock"
    BY <1>5 DEF Accept
  <2>2. Met(c)' /\ ~Met(c) /\ \A d \in Conns : Met(d) => Met(d)'
    BY <1>0, <2>1 DEF Met, FdType
  <2>3. SlotsServeMet' /\ SweptAreLate'
    BY <2>1, <2>2, SlotsKept DEF HandInv, SlotsServeMet, SweptAreLate
  <2>4. ListenerServes'
    BY <2>1, <2>2, SlotsKept DEF HandInv, SlotsServeMet, ListenerServes
  <2>5. MutexLostToTwo'
    BY <2>1 DEF HandInv, MutexLostToTwo, MutexLost, Section
  <2> QED
    BY <1>0, <2>3, <2>4, <2>5 DEF HandInv
<1>6. CASE CheckLock \/ Scan \/ LogSame \/ LogFull \/ CancelSame \/ GetFreeBuff
  <2>1. UNCHANGED <<opened, gtk, slot, late, fd>>
    BY <1>6 DEF CheckLock, Scan, LogSame, LogFull, ListenerLog, CancelSame, GetFreeBuff
  <2>2. Busy /\ listener.pc # "create" /\ listener'.conn = listener.conn /\ listener'.pc # "create"
    BY <1>0, <1>6
       DEF CheckLock, Scan, LogSame, LogFull, ListenerLog, ListenerGoes, CancelSame, GetFreeBuff,
           Busy, ListenerType
  <2>3. listener'.pc \in {"logSame", "cancel", "join"} =>
          Taken(listener'.k) /\ slot[listener'.k].addr = Addr[listener.conn]
    <3>1. CASE Scan /\ Same # {}
      <4>1. Same \subseteq Slots
        BY DEF Same, OccupiedFrom
      <4>2. Lowest(Same) \in Same
        BY <3>1, <4>1, LowestIsMember
      <4> QED
        BY <1>0, <3>1, <4>2 DEF Scan, Same, OccupiedFrom, Taken, ListenerType
    <3>2. CASE ~(Scan /\ Same # {})
      BY <1>0, <1>6, <3>2
         DEF CheckLock, Scan, LogSame, LogFull, ListenerLog, ListenerGoes, CancelSame, GetFreeBuff,
             ListenerType, HandInv, ListenerServes
    <3> QED
      BY <3>1, <3>2
  <2>4. listener'.k \in Slots
    BY <1>0 DEF ControlInv, TypeInv, TypeOK
  <2>5. ListenerServes'
    BY <1>0, <1>f, <2>1, <2>2, <2>3, <2>4, SlotsKept DEF HandInv, ListenerServes
  <2>6. MutexLost' => MutexLost
    BY <1>0, <1>6
       DEF CheckLock, Scan, LogSame, LogFull, ListenerLog, ListenerGoes, CancelSame, GetFreeBuff,
           MutexLost, Nobody, Listener, ListenerType
  <2> QED
    BY <1>l, <2>1, <2>5, <2>6
<1>7. CASE JoinSame
  <2>1. /\ UNCHANGED <<opened, gtk, late, buffMutex>> /\ JoinAndFree(listener.k)
        /\ listener.pc = "join" /\ listener'.pc = "scan" /\ listener'.conn = listener.conn
    BY <1>0, <1>7 DEF JoinSame, ListenerGoes, ListenerType
  <2>2. \A j \in Slots : /\ slot'[j].conn = slot[j].conn /\ slot'[j].addr = slot[j].addr
                         /\ Taken(j)' => Taken(j)
    BY <1>0, <2>1 DEF JoinAndFree, FreeJoined, SlotState, Taken
  <2>3. \A c \in Conns : Met(c) => Met(c)'
    BY <1>0, <2>1 DEF JoinAndFree, FreeJoined, Met, FdType
  <2>4. SlotsServeMet' /\ SweptAreLate'
    BY <2>1, <2>2, <2>3 DEF HandInv, SlotsServeMet, SweptAreLate
  <2>5. ListenerServes'
    BY <1>0, <2>1, <2>2, <2>3 DEF HandInv, ListenerServes, Busy
  <2>6. MutexLostToTwo'
    BY <2>1 DEF MutexLostToTwo, MutexLost
  <2> QED
    BY <1>0, <2>4, <2>5, <2>6 DEF HandInv
<1>8. CASE Refuse \/ ListenerCancelled
  <2>1. /\ UNCHANGED <<opened, gtk, late, buffMutex>> /\ listener'.pc \in {"accept", "exited"}
        /\ \A c \in Conns : Met(c) => Met(c)'
    BY <1>0, <1>8 DEF Refuse, ListenerCancelled, AtAccept, ListenerType, FdType, Met
  <2>0. \A j \in Slots : /\ slot'[j].conn = slot[j].conn /\ slot'[j].addr = slot[j].addr
                         /\ Taken(j)' => Taken(j)
    <3>1. CASE UNCHANGED slot
      BY <3>1, SlotsKept
    <3>2. CASE FreeJoined(listener.k)
      BY <1>0, <3>2 DEF FreeJoined, SlotState, Taken
    <3> QED
      BY <1>8, <3>1, <3>2 DEF Refuse, ListenerCancelled
  <2>2. SlotsServeMet' /\ SweptAreLate'
    BY <2>0, <2>1 DEF HandInv, SlotsServeMet, SweptAreLate
  <2>3. ListenerServes'
    BY <2>1 DEF ListenerServes, Busy
  <2>4. CASE listener.pc \notin Section
    <3>1. MutexLost' => MutexLost
      BY <2>1, <2>4 DEF MutexLost, Section
    <3>2. ~MutexLost' => MutexLostToTwo'
      BY DEF MutexLostToTwo
    <3> QED
      BY <1>0, <1>t, <2>1, <2>2, <2>3, <3>1, <3>2 DEF HandInv
  <2>5. CASE listener.pc \in Section
    <3>1. ListenerCancelled
      BY <1>8, <2>5 DEF Refuse, Section
    <3>2. gtk.pc = "joinListener" /\ listener.pc \in {"logSame", "join"}
      BY <1>0, <2>5, <3>1
         DEF ListenerCancelled, ListenerAtCancellationPoint, ControlInv, Section
    <3> DEFINE c == listener.conn  d == slot[listener.k].conn
    <3>3. c \in late
      BY <1>0, <3>2 DEF ControlInv, Busy, Closing
    <3>4. Taken(listener.k) /\ slot[listener.k].addr = Addr[c] /\ d # c
      BY <1>0, <3>2 DEF HandInv, ListenerServes, Busy
    <3>5. d \in late /\ Addr[d] = Addr[c]
      BY <1>0, <3>2, <3>4 DEF HandInv, SweptAreLate, SlotsServeMet
    <3>6. c \in late' /\ d \in late'
      BY <2>1, <3>3, <3>5
    <3>7. MutexLostToTwo'
      <4> HIDE DEF c, d
      <4> QED
        BY <3>4, <3>5, <3>6, Zenon DEF MutexLostToTwo
    <3> QED
      BY <1>0, <2>2, <2>3, <3>7 DEF HandInv
  <2> QED
    BY <1>0, <2>2, <2>3, <2>4, <2>5 DEF HandInv
<1>9. CASE Fill
  <2> DEFINE k == listener.k  c == listener.conn
  <2>1. /\ listener.pc = "fill" /\ listener'.pc = "create" /\ listener'.k = k /\ listener'.conn = c
        /\ UNCHANGED <<opened, gtk, late, buffMutex, fd>> /\ buffMutex = Nobody
        /\ slot' = [slot EXCEPT ![k].st = "BUFF_OCCUPIED", ![k].addr = Addr[c], ![k].conn = c]
        /\ Busy /\ c \in Conns
    BY <1>0, <1>9 DEF Fill, ListenerGoes, ListenerType, Busy
  <2>2. /\ \A j \in Slots : j # k => slot'[j] = slot[j] /\ (Taken(j)' <=> Taken(j))
        /\ slot'[k].conn = c /\ slot'[k].addr = Addr[c]
    BY <1>0, <2>1 DEF SlotState, Taken
  <2>3. Met(c) /\ \A d \in Conns : Met(d)' <=> Met(d)
    BY <2>1 DEF HandInv, ListenerServes, Met
  <2>4. SlotsServeMet'
    BY <2>1, <2>2, <2>3 DEF HandInv, SlotsServeMet
  <2>5. ListenerServes'
    BY <2>1, <2>2, <2>3 DEF ListenerServes
  <2>6. gtk.pc \in Closing => c \in late
    BY <1>0, <2>1 DEF ControlInv
  <2>7. SweptAreLate'
    <3>1. gtk.pc \notin {"sweep", "join"} /\ opened
      BY <1>0, <2>1 DEF ControlInv, Nobody, Gtk
    <3>2. gtk.pc \in {"cancelListener", "joinListener"} =>
            \A j \in Slots : Taken(j)' => slot'[j].conn \in late
      BY <2>2, <2>6 DEF HandInv, SweptAreLate, Closing
    <3> QED
      BY <2>1, <3>1, <3>2 DEF SweptAreLate
  <2>8. MutexLostToTwo'
    BY <2>1 DEF MutexLostToTwo, MutexLost, Nobody, Listener
  <2> QED
    BY <1>0, <2>4, <2>5, <2>7, <2>8 DEF HandInv
<1>10. CASE Create
  <2>1. /\ UNCHANGED <<opened, gtk, slot, late, fd, buffMutex>> /\ listener.pc = "create"
        /\ listener'.pc = "accept"
    BY <1>10 DEF Create, AtAccept
  <2>2. ListenerServes'
    BY <2>1 DEF ListenerServes, Busy
  <2> QED
    BY <1>l, <2>1, <2>2 DEF MutexLost
<1>11. CASE StopServer \/ StopLock
  <2>1. /\ UNCHANGED <<opened, slot, listener, fd>> /\ opened /\ late \subseteq late'
        /\ \/ gtk'.pc = "stopLock" /\ buffMutex' = buffMutex
           \/ gtk'.pc = "sweep" /\ gtk'.k = 0 /\ buffMutex' = Gtk
    <3>1. CASE StopServer
      BY <3>1 DEF StopServer, GtkGoes
    <3>2. CASE StopLock
      BY <1>0, <3>2 DEF StopLock, GtkGoes, ControlInv
    <3> QED
      BY <1>11, <3>1, <3>2
  <2>2. \A j \in Slots : ~(j < 0)
    BY DEF Slots
  <2>3. SweptAreLate'
    BY <2>1, <2>2 DEF SweptAreLate
  <2>4. SlotsServeMet' /\ ListenerServes'
    BY <1>0, <1>f, <2>1, SlotsKept DEF HandInv, SlotsServeMet, ListenerServes, Busy
  <2>5. MutexLostToTwo'
    BY <1>t, <2>1 DEF MutexLostToTwo, MutexLost, Gtk, Listener
  <2> QED
    BY <1>0, <2>3, <2>4, <2>5 DEF HandInv
<1>g. ASSUME UNCHANGED <<slot, listener, late, fd>>, SweptAreLate', MutexLost' => MutexLost
      PROVE  HandInv'
  <2>1. SlotsServeMet' /\ ListenerServes'
    BY <1>0, <1>g, <1>f, SlotsKept DEF HandInv, SlotsServeMet, ListenerServes, Busy
  <2> QED
    BY <1>0, <1>g, <2>1 DEF HandInv, MutexLostToTwo
<1>12. CASE Sweep
  <2>1. UNCHANGED <<opened, slot, listener, late, fd>> /\ gtk.pc = "sweep"
    BY <1>12 DEF Sweep, GtkGoes
  <2>2. \A j \in Slots : j < gtk.k /\ Taken(j) => slot[j].conn \in late
    BY <2>1 DEF HandInv, SweptAreLate
  <2>3. \A j \in Slots : Taken(j) /\ ~(j < gtk.k) => j \in OccupiedFrom(gtk.k)
    BY <1>0 DEF OccupiedFrom, Taken, Slots
  <2>4. MutexLost' => MutexLost
    BY <1>12 DEF Sweep, MutexLost, Nobody, Listener
  <2>5. CASE OccupiedFrom(gtk.k) = {}
    <3>1. gtk'.pc = "cancelListener" /\ \A j \in Slots : Taken(j) => slot[j].conn \in late
      BY <1>12, <2>2, <2>3, <2>5 DEF Sweep, GtkGoes
    <3>2. SweptAreLate'
      BY <2>1, <3>1, SlotsKept DEF SweptAreLate
    <3> QED
      BY <1>g, <2>1, <2>4, <3>2
  <2>6. CASE OccupiedFrom(gtk.k) # {}
    <3> DEFINE low == Lowest(OccupiedFrom(gtk.k))
    <3>1. OccupiedFrom(gtk.k) \subseteq Slots
      BY DEF OccupiedFrom
    <3>2. low \in Slots /\ \A j \in OccupiedFrom(gtk.k) : low <= j
      BY <2>6, <3>1, LowestIsMember
    <3>3. gtk'.pc = "join" /\ gtk'.k = low
      BY <1>12, <2>6 DEF Sweep, GtkGoes
    <3> HIDE DEF low
    <3>4. \A j \in Slots : j < low => j \notin OccupiedFrom(gtk.k)
      BY <3>2 DEF Slots
    <3>5. \A j \in Slots : j < low /\ Taken(j) => slot[j].conn \in late
      BY <2>2, <2>3, <3>4
    <3>6. opened
      BY <1>0, <2>1 DEF ControlInv
    <3>7. SweptAreLate'
      BY <2>1, <3>3, <3>5, <3>6, SlotsKept DEF SweptAreLate
    <3> QED
      BY <1>g, <2>1, <2>4, <3>7
  <2> QED
    BY <2>5, <2>6
<1>13. CASE JoinService
  <2>1. /\ UNCHANGED <<opened, listener, late, buffMutex>> /\ JoinAndFree(gtk.k)
        /\ gtk.pc = "join" /\ gtk'.pc = "sweep" /\ gtk'.k = gtk.k
    BY <1>13 DEF JoinService, GtkGoes
  <2>2. \A j \in Slots : /\ slot'[j].conn = slot[j].conn /\ slot'[j].addr = slot[j].addr
                         /\ Taken(j)' => Taken(j)
    BY <1>0, <2>1 DEF JoinAndFree, FreeJoined, SlotState, Taken
  <2>3. \A c \in Conns : Met(c) => Met(c)'
    BY <1>0, <2>1 DEF JoinAndFree, FreeJoined, Met, FdType
  <2>4. opened /\ listener.pc \notin Section
    BY <1>0, <2>1 DEF ControlInv, Gtk, Listener
  <2>5. SlotsServeMet' /\ SweptAreLate'
    BY <2>1, <2>2, <2>3, <2>4 DEF HandInv, SlotsServeMet, SweptAreLate
  <2>6. ListenerServes'
    BY <1>0, <2>1, <2>2, <2>3, <2>4 DEF HandInv, ListenerServes, Busy, Section
  <2>7. MutexLostToTwo'
    BY <2>1 DEF HandInv, MutexLostToTwo, MutexLost
  <2> QED
    BY <1>0, <2>5, <2>6, <2>7 DEF HandInv
<1>14. CASE CancelListener
  <2>1. /\ UNCHANGED <<opened, slot, listener, late, fd, buffMutex>> /\ gtk.pc = "cancelListener"
        /\ gtk'.pc = "joinListener" /\ opened
    BY <1>0, <1>14 DEF CancelListener, GtkGoes, ControlInv
  <2>2. SweptAreLate'
    BY <2>1, SlotsKept DEF HandInv, SweptAreLate
  <2> QED
    BY <1>g, <2>1, <2>2 DEF MutexLost
<1>15. CASE Closed
  <2>1. /\ UNCHANGED <<slot, late, buffMutex>> /\ gtk.pc = "joinListener" /\ gtk'.pc = "loop"
        /\ listener.pc = "exited" /\ listener'.pc = "none"
        /\ \A c \in Conns : Met(c) => Met(c)'
    BY <1>0, <1>15 DEF Closed, GtkGoes, ListenerType, Met
  <2>2. SlotsServeMet' /\ SweptAreLate'
    BY <2>1, SlotsKept DEF HandInv, SlotsServeMet, SweptAreLate
  <2>3. ListenerServes'
    BY <2>1 DEF ListenerServes, Busy
  <2>4. MutexLostToTwo'
    BY <2>1 DEF HandInv, MutexLostToTwo, MutexLost
  <2> QED
    BY <1>0, <2>2, <2>3, <2>4 DEF HandInv
<1> QED
  BY <1>1, <1>2, <1>3, <1>4, <1>5, <1>6, <1>7, <1>8, <1>9, <1>10, <1>11, <1>12, <1>13, <1>14, <1>15
     DEF Next, Environment, ListenThread, GtkThread

(* At the start no connection is known to anybody.                          *)
LEMMA InitHand == Init => HandInv
<1> SUFFICES ASSUME Init PROVE HandInv
  OBVIOUS
<1>1. /\ ControlInv /\ listener.pc = "none" /\ gtk.pc = "loop" /\ buffMutex = Nobody
      /\ \A k \in Slots : ~Taken(k)
  BY InitControl DEF Init, Taken, FreedSlot
<1> QED
  BY <1>1 DEF HandInv, SlotsServeMet, ListenerServes, SweptAreLate, Busy, MutexLostToTwo,
              MutexLost, Nobody, Listener

(* Connections, slots and late belong together in every state.              *)
LEMMA HandAlways == Spec => []HandInv
BY InitHand, HandInductive, PTL DEF Spec

(* buff_mutex is lost to the cancellation between server.c:212 and 213 only *)
(* if two connections of one address come in while stopserver runs, however *)
(* many come in, of however many addresses.                                 *)
THEOREM LostToTwo == Spec => []MutexLostToTwo
<1>1. HandInv => MutexLostToTwo
  BY DEF HandInv
<1> QED
  BY HandAlways, <1>1, PTL

-------------------------------------------------------------------------------
(* Handles.  A slot with a handle is the slot of that thread.               *)
HandleOwned ==
  \A k \in Slots : slot[k].tid \in Tids =>
    /\ thr[slot[k].tid].slot = k
    /\ thr[slot[k].tid].pc \notin {"unused", "start"}

(* Whose thread is waited for in pthread_join, and that the wait is for a   *)
(* thread.                                                                  *)
AtJoin(k) ==
  \/ listener.pc = "join" /\ listener.k = k
  \/ gtk.pc = "join" /\ gtk.k = k

JoinsHandle == \A k \in Slots : AtJoin(k) => slot[k].tid \in Tids

(* A thread that was cancelled had stored its handle; while it still lives  *)
(* somebody waits at its slot, and cannot go on before it has ended: the    *)
(* handle in the slot is its own, or one that was stored over it.           *)
CancelledRan == \A t \in Tids \cap cancelled : thr[t].pc \notin {"unused", "start"}

AwaitsEnd(t) ==
  LET u == slot[thr[t].slot].tid IN
  AtJoin(thr[t].slot) /\ (u = t \/ (u \in Tids \ cancelled /\ Live(u)))

CancelledAwaited == MutexLost \/ \A t \in Tids \cap cancelled : Live(t) => AwaitsEnd(t)

(* What is known of the thread of a taken slot.                             *)
Settled(k) ==
  \/ OwnHandle(k) \/ Starting(k) \/ slot[k].conn \in unserved
  \/ listener.pc = "create" /\ listener.k = k
  \/ AtJoin(k) \/ MutexLost

TakenSettled == \A k \in Slots : Taken(k) => Settled(k)

HandleInv ==
  /\ HandInv
  /\ HandleOwned /\ JoinsHandle /\ CancelledRan /\ CancelledAwaited /\ TakenSettled

(* Nobody waits in pthread_join without buff_mutex.                         *)
LEMMA OneJoins ==
  ASSUME HandleInv
  PROVE  /\ listener.pc \in Section => \A k \in Slots : AtJoin(k) => listener.pc = "join"
                                                                     /\ listener.k = k
         /\ gtk.pc \in {"sweep", "join"} =>
              \A k \in Slots : AtJoin(k) => gtk.pc = "join" /\ gtk.k = k
         /\ buffMutex = Nobody => \A k \in Slots : ~AtJoin(k)
         /\ listener.pc \in Section \/ gtk.pc \in {"sweep", "join"} \/ buffMutex = Nobody =>
              ~MutexLost
BY DEF HandleInv, HandInv, ControlInv, AtJoin, MutexLost, Section, Nobody, Listener, Gtk

(* Once buff_mutex is lost it stays lost.                                   *)
LEMMA LostForEver ==
  ASSUME ControlInv, MutexLost, [Next]_vars
  PROVE  MutexLost'
<1> USE DEF server, table, Nobody, Listener, Gtk
<1>0. buffMutex = "listener" /\ listener.pc \notin {"scan", "logSame", "cancel", "join"}
      /\ gtk.pc \notin {"sweep", "join"} /\ listener \in ListenerType
  BY DEF MutexLost, ControlInv, TypeInv, TypeOK, ListenerType
<1>1. buffMutex' = buffMutex
  BY <1>0, ServiceFrame
     DEF Next, Environment, Connect, StartServer, StartFails, StopServer, ListenThread, Accept,
         CheckLock, Scan, LogSame, LogFull, ListenerLog, ListenerGoes, CancelSame, JoinSame,
         GetFreeBuff, Refuse, Fill, Create, ListenerCancelled, GtkThread, InfoPrint, StopLock,
         Sweep, JoinService, CancelListener, Closed, GtkGoes, vars
<1>2. listener'.pc \notin {"scan", "logSame", "cancel", "join"}
  <2>1. CASE UNCHANGED listener
    BY <1>0, <2>1
  <2>2. CASE StartServer \/ Closed \/ \E c \in Conns : Accept(c)
    BY <1>0, <2>2 DEF StartServer, Closed, Accept, AtAccept, ListenerType
  <2>3. CASE ListenThread /\ ~\E c \in Conns : Accept(c)
    BY <1>0, <2>3
       DEF ListenThread, CheckLock, Scan, LogSame, LogFull, ListenerLog, ListenerGoes, CancelSame,
           JoinSame, GetFreeBuff, Refuse, Fill, Create, ListenerCancelled, AtAccept, ListenerType
  <2> QED
    BY <2>1, <2>2, <2>3, ServiceFrame
       DEF Next, Environment, Connect, StartFails, StopServer, ListenThread, GtkThread, InfoPrint,
           StopLock, Sweep, JoinService, CancelListener, vars
<1> QED
  BY <1>0, <1>1, <1>2 DEF MutexLost

(* A step that leaves threads and slots alone keeps what is known of them,  *)
(* if those who wait stay and nobody is cancelled.                          *)
LEMMA HandlesKept ==
  ASSUME HandleInv, UNCHANGED <<thr, slot>>, unserved \subseteq unserved',
         cancelled' \cap Tids = cancelled \cap Tids,
         listener.pc = "create" => listener'.pc = "create" /\ listener'.k = listener.k,
         MutexLost => MutexLost',
         \A k \in Slots : AtJoin(k)' => slot[k].tid \in Tids,
         \A k \in Slots : AtJoin(k) => AtJoin(k)' \/ MutexLost'
  PROVE  /\ HandleOwned' /\ JoinsHandle' /\ CancelledRan' /\ CancelledAwaited' /\ TakenSettled'
<1>0. /\ \A t \in Tids : (Live(t)' <=> Live(t)) /\ thr[t].slot \in Slots
      /\ \A k \in Slots : Taken(k)' <=> Taken(k)
  BY DEF Live, Taken, HandleInv, HandInv, ControlInv, TypeInv, TypeOK
<1>1. HandleOwned' /\ JoinsHandle' /\ CancelledRan'
  BY DEF HandleInv, HandleOwned, JoinsHandle, CancelledRan
<1>2. CancelledAwaited'
  BY <1>0 DEF HandleInv, CancelledAwaited, AwaitsEnd
<1>3. \A k \in Slots : Settled(k) => Settled(k)'
  BY <1>0 DEF Settled, OwnHandle, Starting
<1>4. TakenSettled'
  BY <1>0, <1>3 DEF HandleInv, TakenSettled
<1> QED
  BY <1>1, <1>2, <1>4

(* pthread_cancel on the handle of a slot, followed by the wait.            *)
LEMMA HandlesCancelled ==
  ASSUME HandleInv, HandInv', NEW k \in Slots, CancelSlot(k), UNCHANGED <<thr, slot, unserved>>,
         \A j \in Slots : ~AtJoin(j), \A j \in Slots : AtJoin(j)' <=> j = k,
         ~MutexLost,
         listener.pc = "create" => listener'.pc = "create" /\ listener'.k = listener.k
  PROVE  HandleInv'
<1>0. /\ \A t \in Tids : (Live(t)' <=> Live(t)) /\ thr[t].slot \in Slots
      /\ \A j \in Slots : Taken(j)' <=> Taken(j)
      /\ slot[k].tid \in Tids
  BY SlotTypes
     DEF Live, Taken, HandleInv, HandInv, ControlInv, TypeInv, TypeOK, CancelSlot, SlotState
<1>1. HandleOwned' /\ JoinsHandle'
  BY <1>0 DEF HandleInv, HandleOwned, JoinsHandle
<1>2. CancelledRan'
  BY <1>0 DEF HandleInv, CancelledRan, HandleOwned, CancelSlot
<1>3. \A t \in Tids \cap cancelled : ~Live(t)
  BY <1>0 DEF HandleInv, CancelledAwaited, AwaitsEnd
<1>4. ASSUME NEW t \in Tids, t \in cancelled', Live(t)' PROVE AwaitsEnd(t)'
  <2>1. t = slot[k].tid
    BY <1>0, <1>3, <1>4 DEF CancelSlot
  <2>2. thr[t].slot = k
    BY <2>1, <1>0 DEF HandleInv, HandleOwned
  <2> QED
    BY <2>1, <2>2, <1>0 DEF AwaitsEnd
<1>5. \A j \in Slots : Settled(j) => Settled(j)'
  BY <1>0 DEF Settled, OwnHandle, Starting
<1>6. TakenSettled'
  BY <1>0, <1>5 DEF HandleInv, TakenSettled
<1> QED
  BY <1>1, <1>2, <1>4, <1>6 DEF HandleInv, CancelledAwaited

(* The wait ends, and with it the last thread that was cancelled.           *)
LEMMA HandlesJoined ==
  ASSUME HandleInv, HandInv', NEW k \in Slots, FreeJoined(k), UNCHANGED unserved,
         \A j \in Slots : AtJoin(j) <=> j = k, \A j \in Slots : ~AtJoin(j)', ~MutexLost,
         listener.pc = "create" => listener'.pc = "create" /\ listener'.k = listener.k
  PROVE  HandleInv'
<1> DEFINE t == slot[k].tid
<1>0. /\ TypeInv /\ t \in Tids /\ NoTid \notin Tids
      /\ \A u \in Tids : thr[u].slot \in Slots
  BY MarksAssumption
     DEF HandleInv, JoinsHandle, HandInv, ControlInv, TypeInv, TypeOK
<1>1. /\ thr[t].pc = "exited" /\ thr'[t].pc = "unused"
      /\ \A u \in Tids : u # t => thr'[u] = thr[u]
      /\ \A u \in Tids : Live(u)' <=> Live(u)
      /\ cancelled' = cancelled \ {t}
      /\ \A j \in Slots : j # k => slot'[j] = slot[j]
      /\ slot'[k].tid = NoTid /\ slot'[k].conn = slot[k].conn
      /\ \A j \in Slots : Taken(j)' <=> Taken(j) /\ j # k
  BY <1>0, JoinEffect
<1> HIDE DEF t
<1>2. \A j \in Slots : slot'[j].tid \in Tids => j # k /\ slot[j].tid # t
  BY <1>0, <1>1 DEF HandleInv, HandleOwned, t
<1>3. HandleOwned' /\ JoinsHandle'
  BY <1>1, <1>2 DEF HandleInv, HandleOwned, JoinsHandle
<1>4. CancelledRan'
  BY <1>1 DEF HandleInv, CancelledRan
<1>5. \A u \in Tids \cap cancelled : ~Live(u)
  <2> SUFFICES ASSUME NEW u \in Tids \cap cancelled, Live(u) PROVE FALSE
    OBVIOUS
  <2>1. AwaitsEnd(u)
    BY DEF HandleInv, CancelledAwaited
  <2>2. thr[u].slot = k
    BY <1>0, <2>1 DEF AwaitsEnd
  <2>3. t = u \/ Live(t)
    BY <2>1, <2>2 DEF AwaitsEnd, t
  <2> QED
    BY <1>1, <2>3 DEF Live
<1>6. CancelledAwaited'
  BY <1>1, <1>5 DEF CancelledAwaited
<1>7. ASSUME NEW j \in Slots, Taken(j)' PROVE Settled(j)'
  <2>1. j # k /\ Settled(j) /\ ~AtJoin(j) /\ ~MutexLost
    BY <1>1, <1>7 DEF HandleInv, TakenSettled
  <2>2. CASE OwnHandle(j)
    <3>1. PICK u \in Tids : Live(u) /\ thr[u].slot = j /\ thr[u].pc # "start" /\ slot[j].tid = u
      BY <2>2 DEF OwnHandle
    <3>2. u # t
      BY <1>1, <3>1 DEF Live
    <3>3. OwnHandle(j)'
      BY <1>1, <2>1, <3>1, <3>2 DEF OwnHandle
    <3> QED
      BY <3>3 DEF Settled
  <2>3. CASE Starting(j)
    <3>1. Starting(j)'
      BY <1>1, <2>3 DEF Starting
    <3> QED
      BY <3>1 DEF Settled
  <2> QED
    BY <1>1, <2>1, <2>2, <2>3 DEF Settled
<1> QED
  BY <1>3, <1>4, <1>6, <1>7 DEF HandleInv, TakenSettled

(* A service thread keeps what is known of the handles.                     *)
LEMMA HandlesService ==
  ASSUME HandleInv, HandInv', NEW t \in Tids, ServiceThread(t)
  PROVE  HandleInv'
<1>0. /\ TypeInv /\ NoTid \notin Tids
      /\ thr \in [Tids -> ThreadState] /\ slot \in [Slots -> SlotState]
      /\ \A u \in Tids : thr[u].slot \in Slots
  BY MarksAssumption
     DEF HandleInv, HandInv, ControlInv, TypeInv, TypeOK, ThreadState, SlotState, Addresses
<1>k. PICK k \in Slots : k = thr[t].slot
  BY <1>0
<1>1. /\ \A u \in Tids \ {t} : thr'[u] = thr[u]
      /\ thr[t].slot = k /\ thr'[t].slot = k
      /\ Registers(t) \/ GoesOn(t) \/ Leaves(t) \/ IsEnded(t)
      /\ UNCHANGED <<gtk, listener, cancelled, buffMutex, unserved>>
  BY <1>0, <1>k, ServiceEffect, ServiceFrame DEF history
<1>2. /\ \A j \in Slots : AtJoin(j)' <=> AtJoin(j)
      /\ MutexLost' <=> MutexLost
  BY <1>1 DEF AtJoin, MutexLost
<1>3. \A u \in Tids \ {t} : Live(u)' <=> Live(u)
  BY <1>1 DEF Live
<1>4. /\ \A j \in Slots : j # k => slot'[j] = slot[j]
      /\ slot'[k].conn = slot[k].conn
      /\ ~Registers(t) => slot'[k].tid = slot[k].tid
      /\ Registers(t) => slot'[k].tid = t
      /\ \A j \in Slots : Taken(j)' => Taken(j)
  BY <1>0, <1>1 DEF Registers, GoesOn, Leaves, IsEnded, SlotState, Taken
<1>5. thr[t].pc \notin {"unused", "exited"} /\ thr'[t].pc \notin {"unused", "start"}
  BY <1>1 DEF Registers, GoesOn, Leaves, IsEnded
<1>6. HandleOwned'
  BY <1>1, <1>4, <1>5 DEF HandleInv, HandleOwned
<1>7. JoinsHandle' /\ CancelledRan'
  BY <1>1, <1>2, <1>4, <1>5 DEF HandleInv, JoinsHandle, CancelledRan
<1>8. CASE MutexLost
  BY <1>2, <1>6, <1>7, <1>8 DEF HandleInv, CancelledAwaited, TakenSettled, Settled
<1>9. CASE ~MutexLost
  <2>0. \A u \in Tids \cap cancelled : Live(u) => AwaitsEnd(u)
    BY <1>9 DEF HandleInv, CancelledAwaited
  <2>1. \A j \in Slots : Taken(j) => Settled(j)
    BY DEF HandleInv, TakenSettled
  <2>2. \A j \in Slots : j # k /\ Settled(j) => Settled(j)'
    <3>1. \A j \in Slots : j # k /\ OwnHandle(j) => OwnHandle(j)'
      BY <1>1, <1>3, <1>4 DEF OwnHandle
    <3>2. \A j \in Slots : j # k /\ Starting(j) => Starting(j)'
      BY <1>1, <1>3, <1>4 DEF Starting
    <3> QED
      BY <1>1, <1>2, <1>4, <3>1, <3>2 DEF Settled
  <2>3. CASE Registers(t)
    <3>1. ASSUME NEW u \in Tids \cap cancelled, Live(u)' PROVE AwaitsEnd(u)'
      <4>1. u # t /\ t \notin cancelled
        BY <2>3 DEF HandleInv, CancelledRan, Registers
      <4>2. AwaitsEnd(u) /\ thr'[u] = thr[u]
        BY <1>1, <1>3, <2>0, <3>1, <4>1
      <4>3. Live(t)'
        BY <2>3 DEF Registers, Live
      <4>4. \A v \in Tids : Live(v) => Live(v)'
        BY <1>3, <4>3
      <4> QED
        BY <1>0, <1>1, <1>2, <1>4, <2>3, <4>1, <4>2, <4>3, <4>4 DEF AwaitsEnd
    <3>2. OwnHandle(k)'
      BY <1>1, <1>4, <2>3 DEF OwnHandle, Registers, Live
    <3>3. TakenSettled'
      BY <1>4, <2>1, <2>2, <3>2 DEF TakenSettled, Settled
    <3> QED
      BY <1>1, <1>6, <1>7, <3>1, <3>3 DEF HandleInv, CancelledAwaited
  <2>4. CASE GoesOn(t)
    <3>1. \A u \in Tids : Live(u)' <=> Live(u)
      BY <1>3, <2>4 DEF GoesOn, Live
    <3>2. \A u \in Tids : thr'[u].slot = thr[u].slot
      BY <1>1
    <3>3. CancelledAwaited'
      BY <1>0, <1>1, <1>2, <2>0, <2>4, <3>1, <3>2 DEF CancelledAwaited, AwaitsEnd, GoesOn
    <3>4. Settled(k) => Settled(k)'
      <4>1. OwnHandle(k) => OwnHandle(k)'
        BY <1>1, <2>4, <3>1, <3>2 DEF OwnHandle, GoesOn
      <4>2. Starting(k) => Starting(k)'
        BY <1>1, <2>4 DEF Starting, GoesOn
      <4> QED
        BY <1>1, <1>2, <1>4, <4>1, <4>2 DEF Settled
    <3>5. TakenSettled'
      BY <1>4, <2>1, <2>2, <3>4 DEF TakenSettled
    <3> QED
      BY <1>6, <1>7, <3>3, <3>5 DEF HandleInv
  <2>5. CASE Leaves(t)
    <3>1. \A j \in Slots : ~AtJoin(j)
      BY <2>5, OneJoins DEF Leaves
    <3>2. \A u \in Tids \cap cancelled : ~Live(u)
      BY <1>0, <2>0, <3>1 DEF AwaitsEnd
    <3>3. ~Live(t)' /\ ~Taken(k)'
      BY <1>0, <1>1, <2>5 DEF Leaves, Live, Taken, SlotState
    <3>4. CancelledAwaited'
      BY <1>1, <1>3, <3>2, <3>3 DEF CancelledAwaited
    <3>5. TakenSettled'
      BY <1>4, <2>1, <2>2, <3>3 DEF TakenSettled
    <3> QED
      BY <1>6, <1>7, <3>4, <3>5 DEF HandleInv
  <2>6. CASE IsEnded(t)
    <3>1. Live(t) /\ t \in cancelled /\ ~Live(t)' /\ slot' = slot
      BY <2>6 DEF IsEnded, Live
    <3>2. AtJoin(k)
      BY <1>1, <2>0, <3>1 DEF AwaitsEnd
    <3>3. ASSUME NEW u \in Tids \cap cancelled, Live(u)' PROVE AwaitsEnd(u)'
      <4>1. u # t /\ AwaitsEnd(u) /\ thr'[u] = thr[u]
        BY <1>1, <1>3, <2>0, <3>1, <3>3
      <4>2. \A v \in Tids \ cancelled : Live(v) => Live(v)'
        BY <1>3, <3>1
      <4> QED
        BY <1>0, <1>1, <1>2, <3>1, <4>1, <4>2 DEF AwaitsEnd
    <3>4. CancelledAwaited'
      BY <1>1, <3>3 DEF CancelledAwaited
    <3>5. TakenSettled'
      BY <1>1, <1>2, <1>4, <2>1, <2>2, <3>2 DEF TakenSettled, Settled
    <3> QED
      BY <1>6, <1>7, <3>4, <3>5 DEF HandleInv
  <2> QED
    BY <1>1, <2>3, <2>4, <2>5, <2>6
<1> QED
  BY <1>8, <1>9

(* Every step keeps what is known of the handles.                           *)
LEMMA HandleInductive ==
  ASSUME HandleInv, [Next]_vars
  PROVE  HandleInv'
<1> USE DEF server, table, ring, history
<1>0. /\ HandInv /\ HandInv' /\ ControlInv /\ ControlInv' /\ TypeInv
      /\ thr \in [Tids -> ThreadState] /\ slot \in [Slots -> SlotState]
      /\ listener \in ListenerType /\ listener.k \in Slots /\ gtk \in GtkType /\ gtk.k \in Slots
      /\ MutexLost => MutexLost'
  BY HandInductive, LostForEver
     DEF HandleInv, HandInv, ControlInv, TypeInv, TypeOK, ThreadState, SlotState, Addresses,
         ListenerType, GtkType
<1>m. Listener \notin Tids
  BY MarksAssumption DEF Listener, NoTid
<1>k. ASSUME UNCHANGED <<thr, slot>>, unserved \subseteq unserved',
             cancelled' \cap Tids = cancelled \cap Tids,
             listener.pc = "create" => listener'.pc = "create" /\ listener'.k = listener.k,
             \A j \in Slots : AtJoin(j)' => AtJoin(j),
             \A j \in Slots : AtJoin(j) => AtJoin(j)' \/ MutexLost'
      PROVE  HandleInv'
  <2>1. \A j \in Slots : AtJoin(j)' => slot[j].tid \in Tids
    BY <1>k DEF HandleInv, JoinsHandle
  <2> QED
    BY <1>0, <1>k, <2>1, HandlesKept DEF HandleInv
<1>1. ASSUME NEW t \in Tids, ServiceThread(t) PROVE HandleInv'
  BY <1>0, <1>1, HandlesService
<1>2. ASSUME UNCHANGED <<thr, slot, cancelled, gtk, unserved>>,
             listener' = listener \/ (listener.pc # "create" /\ listener.pc # "join"
                                       /\ listener'.pc # "join")
      PROVE  HandleInv'
  BY <1>2, <1>k DEF AtJoin
<1>3. ASSUME NEW c \in Conns, Connect(c) \/ Accept(c) PROVE HandleInv'
  BY <1>2, <1>3 DEF Connect, Accept
<1>4. CASE InfoPrint \/ UNCHANGED vars
  BY <1>2, <1>4 DEF InfoPrint, vars
<1>5. CASE CheckLock \/ Scan \/ LogSame \/ LogFull \/ GetFreeBuff \/ Refuse
  <2>1. UNCHANGED <<thr, slot, cancelled, gtk, unserved>>
    BY <1>5 DEF CheckLock, Scan, LogSame, LogFull, ListenerLog, GetFreeBuff, Refuse
  <2>2. listener' = listener \/ (listener.pc \notin {"create", "join"} /\ listener'.pc # "join")
    <3>1. CASE CheckLock \/ Scan
      BY <1>0, <3>1 DEF CheckLock, Scan, ListenerGoes, ListenerType
    <3>2. CASE LogSame \/ LogFull
      <4>1. \/ listener' = listener
            \/ ListenerGoes("logSame", "cancel") \/ ListenerGoes("logFull", "refuse")
        BY <3>2 DEF LogSame, LogFull, ListenerLog
      <4> QED
        BY <1>0, <4>1 DEF ListenerGoes, ListenerType
    <3>3. CASE GetFreeBuff
      <4>1. listener'.pc \in {"logFull", "fill"} /\ listener.pc = "getBuff"
        BY <1>0, <3>3 DEF GetFreeBuff, ListenerType
      <4> QED
        BY <4>1
    <3>4. CASE Refuse
      BY <3>4 DEF Refuse, AtAccept
    <3> QED
      BY <1>5, <3>1, <3>2, <3>3, <3>4
  <2> QED
    BY <1>2, <2>1, <2>2
<1>6. CASE ListenerCancelled
  <2>1. /\ UNCHANGED <<gtk, unserved, buffMutex>>
        /\ listener'.pc = "exited" /\ listener.pc # "create"
    BY <1>0, <1>6 DEF ListenerCancelled, ListenerAtCancellationPoint, ListenerType
  <2>2. listener.pc = "join" => MutexLost'
    BY <1>0, <2>1 DEF ControlInv, MutexLost, Section
  <2>3. CASE UNCHANGED <<thr, cancelled, slot>>
    BY <1>k, <2>1, <2>2, <2>3 DEF AtJoin
  <2>4. CASE listener.pc = "join" /\ FreeJoined(listener.k)
    <3>1. ~MutexLost /\ \A j \in Slots : AtJoin(j) <=> j = listener.k
      BY <1>0, <2>4, OneJoins DEF Section, AtJoin
    <3>2. gtk.pc # "join"
      BY <1>0, <2>4 DEF ControlInv, Section, Gtk, Listener
    <3>3. \A j \in Slots : ~AtJoin(j)'
      BY <2>1, <3>2 DEF AtJoin
    <3> QED
      BY <1>0, <2>1, <2>4, <3>1, <3>3, HandlesJoined
  <2> QED
    BY <1>6, <2>3, <2>4 DEF ListenerCancelled
<1>7. CASE CancelSame
  <2>1. /\ UNCHANGED <<thr, slot, gtk, unserved>> /\ listener.pc = "cancel"
        /\ listener'.pc = "join" /\ listener'.k = listener.k /\ CancelSlot(listener.k)
    BY <1>0, <1>7 DEF CancelSame, ListenerGoes, ListenerType
  <2>2. ~MutexLost /\ \A j \in Slots : ~AtJoin(j)
    BY <2>1, OneJoins DEF Section
  <2>3. \A j \in Slots : AtJoin(j)' <=> j = listener.k
    BY <1>0, <2>1, <2>2 DEF AtJoin
  <2> QED
    BY <1>0, <2>1, <2>2, <2>3, HandlesCancelled
<1>8. CASE JoinSame
  <2>1. /\ UNCHANGED <<gtk, unserved>> /\ listener.pc = "join" /\ listener'.pc = "scan"
        /\ JoinAndFree(listener.k)
    BY <1>0, <1>8 DEF JoinSame, ListenerGoes, ListenerType
  <2>2. ~MutexLost /\ \A j \in Slots : AtJoin(j) <=> j = listener.k
    BY <1>0, <2>1, OneJoins DEF Section, AtJoin
  <2>3. gtk.pc # "join"
    BY <1>0, <2>1 DEF ControlInv, Section, Gtk, Listener
  <2>4. \A j \in Slots : ~AtJoin(j)'
    BY <2>1, <2>3 DEF AtJoin
  <2> QED
    BY <1>0, <2>1, <2>2, <2>4, HandlesJoined DEF JoinAndFree
<1>9. CASE Fill
  <2>1. PICK k \in Slots : k = listener.k
    BY <1>0
  <2>2. /\ UNCHANGED <<thr, gtk, cancelled, unserved>> /\ listener.pc = "fill"
        /\ listener'.pc = "create" /\ listener'.k = k
        /\ \A j \in Slots : slot'[j].tid = slot[j].tid
        /\ \A j \in Slots : j # k => slot'[j] = slot[j]
    BY <1>0, <1>9, <2>1 DEF Fill, ListenerGoes, ListenerType, SlotState
  <2>3. /\ \A j \in Slots : AtJoin(j)' <=> AtJoin(j)
        /\ \A t \in Tids : (Live(t)' <=> Live(t)) /\ thr[t].slot \in Slots
    BY <1>0, <2>2 DEF AtJoin, Live, ThreadState
  <2>4. HandleOwned' /\ JoinsHandle' /\ CancelledRan'
    BY <2>2, <2>3 DEF HandleInv, HandleOwned, JoinsHandle, CancelledRan
  <2>5. CancelledAwaited'
    BY <1>0, <2>2, <2>3 DEF HandleInv, CancelledAwaited, AwaitsEnd
  <2>6. \A j \in Slots : j # k /\ Settled(j) => Settled(j)'
    BY <1>0, <2>2, <2>3 DEF Settled, OwnHandle, Starting
  <2>7. Settled(k)'
    BY <2>2 DEF Settled
  <2>8. TakenSettled'
    BY <2>2, <2>6, <2>7 DEF HandleInv, TakenSettled, Taken
  <2> QED
    BY <1>0, <2>4, <2>5, <2>8 DEF HandleInv
<1>10. CASE Create
  <2>1. PICK k \in Slots : k = listener.k
    BY <1>0
  <2>2. /\ UNCHANGED <<slot, gtk, cancelled>> /\ listener.pc = "create" /\ listener'.pc = "accept"
        /\ unserved \subseteq unserved' /\ slot[k].conn = listener.conn
    BY <1>10, <2>1, <1>0 DEF Create, AtAccept, HandInv, ListenerServes
  <2>3. \A j \in Slots : (AtJoin(j)' <=> AtJoin(j)) /\ (Taken(j)' <=> Taken(j))
    BY <2>2 DEF AtJoin, Taken
  <2>4. CASE thr' = thr /\ unserved' = unserved \cup {listener.conn}
    <3>1. \A t \in Tids : (Live(t)' <=> Live(t)) /\ thr[t].slot \in Slots
      BY <1>0, <2>4 DEF Live, ThreadState
    <3>2. HandleOwned' /\ JoinsHandle' /\ CancelledRan'
      BY <2>2, <2>3, <2>4 DEF HandleInv, HandleOwned, JoinsHandle, CancelledRan
    <3>3. CancelledAwaited'
      BY <1>0, <2>2, <2>3, <2>4, <3>1 DEF HandleInv, CancelledAwaited, AwaitsEnd
    <3>4. \A j \in Slots : Settled(j) => Settled(j)'
      BY <1>0, <2>1, <2>2, <2>3, <2>4, <3>1 DEF Settled, OwnHandle, Starting
    <3> QED
      BY <1>0, <2>3, <3>2, <3>3, <3>4 DEF HandleInv, TakenSettled
  <2>5. ASSUME NEW t \in UnusedTids, unserved' = unserved,
               thr' = [thr EXCEPT ![t] = [pc |-> "start", slot |-> k, conn |-> NoConn]]
        PROVE  HandleInv'
    <3>1. /\ t \in Tids /\ thr[t].pc = "unused" /\ ~Live(t)
          /\ \A u \in Tids : u # t => thr'[u] = thr[u]
          /\ thr'[t].pc = "start" /\ thr'[t].slot = k
      BY <1>0, <2>5 DEF UnusedTids, Live
    <3>2. /\ \A u \in Tids : u # t => (Live(u)' <=> Live(u))
          /\ \A u \in Tids : thr[u].slot \in Slots
          /\ t \notin cancelled
      BY <1>0, <3>1 DEF Live, ThreadState, HandleInv, CancelledRan
    <3>3. HandleOwned' /\ JoinsHandle' /\ CancelledRan'
      BY <2>2, <2>3, <3>1, <3>2 DEF HandleInv, HandleOwned, JoinsHandle, CancelledRan
    <3>4. CancelledAwaited'
      <4>1. CASE MutexLost
        BY <1>0, <4>1 DEF CancelledAwaited
      <4>2. ASSUME ~MutexLost, NEW u \in Tids \cap cancelled, Live(u)' PROVE AwaitsEnd(u)'
        <5>1. u # t /\ AwaitsEnd(u) /\ thr'[u] = thr[u]
          BY <3>1, <3>2, <4>2 DEF HandleInv, CancelledAwaited
        <5>2. \A v \in Tids : Live(v) => Live(v)'
          BY <3>1, <3>2
        <5> QED
          BY <2>2, <2>3, <3>2, <5>1, <5>2 DEF AwaitsEnd
      <4> QED
        BY <2>2, <4>1, <4>2 DEF CancelledAwaited
    <3>5. \A j \in Slots : OwnHandle(j) => OwnHandle(j)'
      BY <2>2, <3>1, <3>2 DEF OwnHandle
    <3>6. Starting(k)' /\ \A j \in Slots : Starting(j) => Starting(j)'
      BY <3>1 DEF Starting
    <3>7. \A j \in Slots : Settled(j) => Settled(j)'
      BY <1>0, <2>1, <2>2, <2>3, <2>5, <3>5, <3>6 DEF Settled
    <3> QED
      BY <1>0, <2>3, <3>3, <3>4, <3>7 DEF HandleInv, TakenSettled
  <2> QED
    BY <1>10, <2>1, <2>4, <2>5 DEF Create
<1>11. CASE StartServer \/ StartFails
  <2>1. /\ ResetTable /\ UNCHANGED <<thr, gtk, cancelled>> /\ gtk.pc = "loop"
        /\ listener.pc = "none" /\ listener'.pc # "join"
    BY <1>0, <1>11 DEF StartServer, StartFails, AtAccept, ControlInv
  <2>2. /\ \A j \in Slots : ~Taken(j)' /\ slot'[j].tid \notin Tids /\ ~AtJoin(j) /\ ~AtJoin(j)'
        /\ \A t \in Tids : (Live(t)' <=> Live(t)) /\ thr[t].slot \in Slots
    BY <1>0, <2>1, ResetEffect, MarksAssumption DEF AtJoin, Live, ThreadState
  <2>3. HandleOwned' /\ JoinsHandle' /\ CancelledRan' /\ TakenSettled'
    BY <2>1, <2>2 DEF HandleInv, HandleOwned, JoinsHandle, CancelledRan, TakenSettled
  <2>4. CancelledAwaited'
    BY <1>0, <2>1, <2>2 DEF HandleInv, CancelledAwaited, AwaitsEnd
  <2> QED
    BY <1>0, <2>3, <2>4 DEF HandleInv
<1>12. CASE StopServer \/ StopLock
  BY <1>12, <1>k DEF StopServer, StopLock, GtkGoes, AtJoin
<1>13. CASE Sweep
  <2>1. gtk.pc = "sweep" /\ UNCHANGED <<thr, slot, listener, unserved>>
    BY <1>13 DEF Sweep, GtkGoes
  <2>2. CASE OccupiedFrom(gtk.k) = {}
    BY <1>13, <1>k, <2>1, <2>2 DEF Sweep, GtkGoes, AtJoin
  <2>3. CASE OccupiedFrom(gtk.k) # {}
    <3>1. PICK low \in Slots : low = Lowest(OccupiedFrom(gtk.k))
      BY <2>3, LowestIsMember DEF OccupiedFrom
    <3>2. CancelSlot(low) /\ gtk'.pc = "join" /\ gtk'.k = low
      BY <1>13, <2>3, <3>1 DEF Sweep, GtkGoes
    <3>3. ~MutexLost /\ \A j \in Slots : ~AtJoin(j)
      BY <2>1, OneJoins
    <3>4. \A j \in Slots : AtJoin(j)' <=> j = low
      BY <2>1, <3>2, <3>3 DEF AtJoin
    <3> QED
      BY <1>0, <2>1, <3>2, <3>3, <3>4, HandlesCancelled
  <2> QED
    BY <2>2, <2>3
<1>14. CASE JoinService
  <2>1. /\ UNCHANGED <<listener, unserved>> /\ gtk.pc = "join" /\ gtk'.pc = "sweep"
        /\ JoinAndFree(gtk.k)
    BY <1>14 DEF JoinService, GtkGoes
  <2>2. ~MutexLost /\ \A j \in Slots : AtJoin(j) <=> j = gtk.k
    BY <1>0, <2>1, OneJoins DEF AtJoin
  <2>3. listener.pc # "join"
    BY <1>0, <2>1 DEF ControlInv, Section, Gtk, Listener
  <2>4. \A j \in Slots : ~AtJoin(j)'
    BY <2>1, <2>3 DEF AtJoin
  <2> QED
    BY <1>0, <2>1, <2>2, <2>4, HandlesJoined DEF JoinAndFree
<1>15. CASE CancelListener
  <2>1. cancelled' \cap Tids = cancelled \cap Tids
    BY <1>15, <1>m DEF CancelListener
  <2> QED
    BY <1>15, <1>k, <2>1 DEF CancelListener, GtkGoes, AtJoin
<1>16. CASE Closed
  <2>1. /\ UNCHANGED <<thr, slot, unserved>> /\ gtk.pc = "joinListener" /\ gtk'.pc = "loop"
        /\ listener.pc = "exited" /\ listener'.pc = "none"
        /\ cancelled' \cap Tids = cancelled \cap Tids
    BY <1>0, <1>16, <1>m DEF Closed, GtkGoes, ListenerType
  <2> QED
    BY <1>k, <2>1 DEF AtJoin
<1> QED
  BY <1>1, <1>3, <1>4, <1>5, <1>6, <1>7, <1>8, <1>9, <1>10, <1>11, <1>12, <1>13, <1>14, <1>15,
     <1>16
     DEF Next, Environment, ListenThread, GtkThread

(* At the start there are no handles.                                       *)
LEMMA InitHandle == Init => HandleInv
<1> SUFFICES ASSUME Init PROVE HandleInv
  OBVIOUS
<1>1. /\ HandInv /\ listener.pc = "none" /\ gtk.pc = "loop" /\ cancelled = {}
      /\ \A k \in Slots : ~Taken(k) /\ slot[k].tid \notin Tids
  BY InitHand, MarksAssumption DEF Init, Taken, FreedSlot
<1> QED
  BY <1>1 DEF HandleInv, HandleOwned, JoinsHandle, CancelledRan, CancelledAwaited, TakenSettled,
              AtJoin

(* What is known of the handles is true in every state.                     *)
LEMMA HandleAlways == Spec => []HandleInv
BY InitHandle, HandleInductive, PTL DEF Spec

(* Whatever is cancelled, joined, refused or stopped, and however often: a  *)
(* slot that check_connection or stopserver is about to cancel holds the    *)
(* handle of its own live thread, or its thread has not run yet, or was     *)
(* never created (servicethread.h:41, server.c:55).                         *)
THEOREM SlotsHandles == Spec => []HandlesOwn
<1>1. ASSUME HandleInv PROVE HandlesOwn
  <2>1. listener.k \in Slots /\ OccupiedFrom(gtk.k) \subseteq Slots
    BY <1>1 DEF HandleInv, HandInv, ControlInv, TypeInv, TypeOK, OccupiedFrom
  <2>2. \A k \in Slots : Taken(k) => Settled(k)
    BY <1>1 DEF HandleInv, TakenSettled
  <2>3. ASSUME listener.pc = "cancel"
        PROVE  Taken(listener.k) /\ ~MutexLost /\ ~AtJoin(listener.k)
    BY <1>1, <2>1, <2>3, OneJoins DEF HandleInv, HandInv, ListenerServes, Section
  <2>4. ASSUME gtk.pc = "sweep", NEW k \in OccupiedFrom(gtk.k)
        PROVE  Taken(k) /\ ~MutexLost /\ ~AtJoin(k)
    BY <1>1, <2>1, <2>4, OneJoins DEF OccupiedFrom, Taken
  <2>5. listener.pc = "cancel" =>
          OwnHandle(listener.k) \/ Starting(listener.k) \/ slot[listener.k].conn \in unserved
    BY <2>1, <2>2, <2>3 DEF Settled
  <2>6. gtk.pc = "sweep" => \A k \in OccupiedFrom(gtk.k) :
          OwnHandle(k) \/ Starting(k) \/ slot[k].conn \in unserved
            \/ (listener.pc = "create" /\ listener.k = k)
    BY <2>1, <2>2, <2>4 DEF Settled
  <2> QED
    BY <2>5, <2>6 DEF HandlesOwn
<1>2. HandleInv => HandlesOwn
  BY <1>1
<1> QED
  BY HandleAlways, <1>2, PTL

-------------------------------------------------------------------------------
(* The table, as long as no handle was used too early and no connection met *)
(* a stopserver.  No two taken slots serve the same address.                *)
OneSlotPerAddress ==
  \A k, j \in Slots : Taken(k) /\ Taken(j) /\ slot[k].addr = slot[j].addr => k = j

(* What the listen thread found out is still true when it uses it.          *)
ListenerKnows ==
  /\ listener.pc = "lock" => listener.k = 0
  /\ listener.pc = "fill" => ~Taken(listener.k)
  /\ listener.pc = "create" =>
       Taken(listener.k) /\ \A t \in Tids : Live(t) => thr[t].slot # listener.k
  /\ listener.pc \in {"getBuff", "fill"} =>
       \A k \in Slots : Taken(k) => slot[k].addr # Addr[listener.conn]
  /\ listener.pc \in Section =>
       \A k \in Slots : Taken(k) /\ k < listener.k => slot[k].addr # Addr[listener.conn]

(* Where a thread is waited for, none is about to store its handle.         *)
JoinsRegistered == \A k \in Slots : AtJoin(k) => ~Starting(k)

Tidy == SlotFollowsThread /\ OneSlotPerAddress /\ ListenerKnows /\ JoinsRegistered

TableInv == HandleInv /\ (Orderly => Tidy)

(* What goes wrong once is remembered, so that what is in order now was in  *)
(* order before.                                                            *)
LEMMA OrderlyBefore ==
  ASSUME [Next]_vars, Orderly'
  PROVE  Orderly
<1>1. late \subseteq late'
  BY ServiceFrame DEF Next, Environment, Connect, StartServer, StartFails, StopServer, ListenThread,
     Accept, CheckLock, Scan, LogSame, LogFull, ListenerLog, CancelSame, JoinSame, GetFreeBuff,
     Refuse, Fill, Create, ListenerCancelled, GtkThread, InfoPrint, StopLock, Sweep, JoinService,
     CancelListener, Closed, vars, history
<1>2. CASE UNCHANGED hasty
  BY <1>1, <1>2 DEF Orderly
<1>3. ASSUME NEW k, CancelSlot(k) PROVE Orderly
  BY <1>1, <1>3 DEF Orderly, CancelSlot
<1> QED
  BY <1>2, <1>3, ServiceFrame
     DEF Next, Environment, Connect, StartServer, StartFails, StopServer, ListenThread, Accept,
         CheckLock, Scan, LogSame, LogFull, ListenerLog, CancelSame, JoinSame, GetFreeBuff, Refuse,
         Fill, Create, ListenerCancelled, GtkThread, InfoPrint, StopLock, Sweep, JoinService,
         CancelListener, Closed, vars, history

(* While the server is being closed nothing is in the listen thread's hands.*)
LEMMA NothingLate ==
  ASSUME HandleInv, Orderly
  PROVE  /\ Busy => gtk.pc \notin Closing
         /\ gtk.pc \in {"cancelListener", "joinListener"} \/ ~opened =>
              \A k \in Slots : ~Taken(k)
BY DEF HandleInv, HandInv, ControlInv, SweptAreLate, Orderly

(* What holds of threads and slots is kept by a step that changes neither.  *)
LEMMA TableKept ==
  ASSUME Tidy, Orderly, UNCHANGED <<thr, slot>>
  PROVE  /\ SlotFollowsThread' /\ OneSlotPerAddress'
         /\ \A j \in Slots : (Taken(j)' <=> Taken(j)) /\ (Starting(j)' <=> Starting(j))
         /\ \A t \in Tids : Live(t)' <=> Live(t)
<1>1. /\ \A j \in Slots : (Taken(j)' <=> Taken(j)) /\ (Starting(j)' <=> Starting(j))
      /\ \A t \in Tids : Live(t)' <=> Live(t)
  BY DEF Taken, Live, Starting
<1>2. SlotFollowsThread'
  BY <1>1 DEF Tidy, SlotFollowsThread
<1>3. OneSlotPerAddress'
  BY <1>1 DEF Tidy, OneSlotPerAddress
<1> QED
  BY <1>1, <1>2, <1>3

(* The service threads keep the table right.                                *)
LEMMA TableService ==
  ASSUME HandleInv, Tidy, Orderly, NEW t \in Tids, ServiceThread(t)
  PROVE  Tidy'
<1>0. /\ TypeInv /\ ControlInv
      /\ thr \in [Tids -> ThreadState] /\ slot \in [Slots -> SlotState]
      /\ listener.k \in Slots
  BY DEF HandleInv, HandInv, ControlInv, TypeInv, TypeOK, ThreadState, SlotState, Addresses
<1>k. PICK k \in Slots : k = thr[t].slot
  BY <1>0 DEF ThreadState
<1>1. UNCHANGED <<gtk, listener, buffMutex>>
  BY ServiceFrame
<1>2. /\ \A u \in Tids \ {t} : thr'[u] = thr[u]
      /\ thr[t].slot = k /\ thr'[t].slot = k
      /\ Registers(t) \/ GoesOn(t) \/ Leaves(t) \/ IsEnded(t)
  BY <1>0, <1>k, ServiceEffect
<1>3. thr'[t].pc # "start" /\ thr[t].pc \notin {"unused", "exited"}
  BY <1>2 DEF Registers, GoesOn, Leaves, IsEnded
<1>4. JoinsRegistered'
  BY <1>1, <1>2, <1>3 DEF Tidy, JoinsRegistered, Starting, AtJoin
<1>5. Live(t) /\ Taken(k) /\ (thr[t].pc # "start" => slot[k].tid = t /\ slot[k].conn = thr[t].conn)
      /\ \A u \in Tids : Live(u) /\ thr[u].slot = k => u = t
  BY <1>2, <1>3 DEF Tidy, SlotFollowsThread, Live, Taken
<1>6. CASE Registers(t)
  <2>1. /\ \A j \in Slots : j # k => slot'[j] = slot[j]
        /\ slot'[k].tid = t /\ slot'[k].st = slot[k].st /\ slot'[k].conn = slot[k].conn
        /\ slot'[k].addr = slot[k].addr
        /\ \A u \in Tids : Live(u)' <=> Live(u)
        /\ \A j \in Slots : Taken(j)' <=> Taken(j)
    BY <1>0, <1>2, <1>3, <1>6 DEF Registers, SlotState, Live, Taken
  <2>2. SlotFollowsThread'
    <3>1. \A u \in Tids : Live(u) /\ u # t =>
            /\ thr'[u] = thr[u] /\ thr[u].slot \in Slots /\ thr[u].slot # k
            /\ slot'[thr[u].slot] = slot[thr[u].slot]
      BY <1>0, <1>2, <1>5, <2>1 DEF ThreadState
    <3>2. slot'[k].st = "BUFF_OCCUPIED" /\ slot'[k].conn = thr'[t].conn
      BY <1>2, <1>5, <1>6, <2>1 DEF Registers, Taken
    <3> QED
      BY <1>2, <1>5, <2>1, <3>1, <3>2 DEF Tidy, SlotFollowsThread
  <2>3. OneSlotPerAddress' /\ ListenerKnows'
    BY <1>0, <1>1, <1>2, <2>1 DEF Tidy, OneSlotPerAddress, ListenerKnows
  <2> QED
    BY <1>4, <2>2, <2>3 DEF Tidy
<1>7. CASE GoesOn(t)
  <2>1. /\ slot' = slot /\ \A u \in Tids : Live(u)' <=> Live(u)
        /\ \A j \in Slots : Taken(j)' <=> Taken(j)
    BY <1>2, <1>7 DEF GoesOn, Live, Taken
  <2>2. SlotFollowsThread'
    BY <1>0, <1>2, <1>5, <1>7, <2>1 DEF Tidy, SlotFollowsThread, GoesOn, Taken, ThreadState
  <2>3. OneSlotPerAddress' /\ ListenerKnows'
    BY <1>0, <1>1, <1>2, <2>1 DEF Tidy, OneSlotPerAddress, ListenerKnows
  <2> QED
    BY <1>4, <2>2, <2>3 DEF Tidy
<1>8. CASE Leaves(t)
  <2>1. /\ \A j \in Slots : j # k => slot'[j] = slot[j]
        /\ slot'[k].tid = slot[k].tid /\ ~Taken(k)'
        /\ slot'[k].addr = slot[k].addr /\ slot'[k].conn = slot[k].conn
        /\ \A u \in Tids : Live(u)' <=> Live(u) /\ u # t
        /\ \A j \in Slots : Taken(j)' <=> Taken(j) /\ j # k
    BY <1>0, <1>2, <1>8 DEF Leaves, SlotState, Live, Taken
  <2>2. SlotFollowsThread'
    BY <1>0, <1>2, <1>5, <1>8, <2>1 DEF Tidy, SlotFollowsThread, Taken, ThreadState
  <2>3. OneSlotPerAddress'
    BY <1>0, <2>1 DEF Tidy, OneSlotPerAddress
  <2>4. listener.pc \notin Section
    BY <1>0, <1>8 DEF Leaves, ControlInv, Nobody, Listener
  <2>5. ListenerKnows'
    BY <1>0, <1>1, <1>2, <1>5, <2>1, <2>4 DEF Tidy, ListenerKnows, Section
  <2> QED
    BY <1>4, <2>2, <2>3, <2>5 DEF Tidy
<1>9. CASE IsEnded(t)
  <2>1. /\ slot' = slot /\ \A u \in Tids : Live(u)' <=> Live(u) /\ u # t
        /\ \A j \in Slots : Taken(j)' <=> Taken(j)
    BY <1>2, <1>9 DEF IsEnded, Live, Taken
  <2>2. SlotFollowsThread'
    BY <1>0, <1>2, <1>5, <1>9, <2>1 DEF Tidy, SlotFollowsThread, Taken, ThreadState
  <2>3. OneSlotPerAddress' /\ ListenerKnows'
    BY <1>0, <1>1, <1>2, <2>1 DEF Tidy, OneSlotPerAddress, ListenerKnows
  <2> QED
    BY <1>4, <2>2, <2>3 DEF Tidy
<1> QED
  BY <1>2, <1>6, <1>7, <1>8, <1>9

(* Where every thread of a slot has stored its handle, whoever joins it     *)
(* frees no slot that a live thread works in.                               *)
LEMMA TableJoin ==
  ASSUME HandleInv, Tidy, Orderly, NEW k \in Slots, AtJoin(k), JoinAndFree(k)
  PROVE  /\ SlotFollowsThread' /\ OneSlotPerAddress'
         /\ \A j \in Slots : /\ Taken(j)' <=> Taken(j) /\ j # k
                             /\ slot'[j].addr = slot[j].addr
<1>t. PICK t \in Tids : t = slot[k].tid
  BY DEF HandleInv, JoinsHandle
<1>0. TypeInv /\ \A u \in Tids : thr[u].slot \in Slots
  BY DEF HandleInv, HandInv, ControlInv, TypeInv, TypeOK
<1>1. /\ thr[t].pc = "exited" /\ thr'[t].pc = "unused"
      /\ \A u \in Tids : u # t => thr'[u] = thr[u]
      /\ \A u \in Tids : Live(u)' <=> Live(u)
      /\ \A j \in Slots : j # k => slot'[j] = slot[j]
      /\ slot'[k].addr = slot[k].addr
      /\ \A j \in Slots : Taken(j)' <=> Taken(j) /\ j # k
  BY <1>0, <1>t, JoinEffect DEF JoinAndFree
<1>2. \A u \in Tids : Live(u) => thr[u].slot # k /\ u # t
  <2>1. ~Starting(k)
    BY DEF Tidy, JoinsRegistered
  <2> QED
    BY <1>t, <1>1, <2>1 DEF Tidy, SlotFollowsThread, Starting, Live
<1>3. SlotFollowsThread'
  BY <1>0, <1>1, <1>2 DEF Tidy, SlotFollowsThread, Taken
<1>4. OneSlotPerAddress'
  BY <1>1 DEF Tidy, OneSlotPerAddress
<1> QED
  BY <1>1, <1>3, <1>4

(* The listen thread keeps the table right.                                 *)
LEMMA TableListener ==
  ASSUME HandleInv, Tidy, Orderly, Orderly', ListenThread
  PROVE  Tidy'
<1> USE DEF server, table, ring, history, Section
<1>0. /\ TypeInv /\ ControlInv /\ HandInv
      /\ thr \in [Tids -> ThreadState] /\ slot \in [Slots -> SlotState]
      /\ listener \in ListenerType /\ listener.k \in Slots
  BY DEF HandleInv, HandInv, ControlInv, TypeInv, TypeOK, ThreadState, SlotState, Addresses,
         ListenerType
<1>1. gtk' = gtk /\ (Busy => gtk.pc # "join")
  BY NothingLate
     DEF ListenThread, Accept, CheckLock, Scan, LogSame, LogFull, ListenerLog, CancelSame, JoinSame,
         GetFreeBuff, Refuse, Fill, Create, ListenerCancelled, Closing
<1>k. ASSUME UNCHANGED <<thr, slot>>, ListenerKnows', listener'.pc # "join" PROVE Tidy'
  <2>1. JoinsRegistered'
    BY <1>1, <1>k, TableKept DEF Tidy, JoinsRegistered, AtJoin
  <2> QED
    BY <1>k, <2>1, TableKept DEF Tidy
<1>2. ASSUME NEW c \in Conns, Accept(c) PROVE Tidy'
  <2>1. ListenerKnows' /\ listener'.pc # "join"
    BY <1>2 DEF Accept, ListenerKnows
  <2> QED
    BY <1>2, <1>k, <2>1 DEF Accept
<1>3. CASE CheckLock
  <2>1. listener'.pc = "scan" /\ listener'.k = 0
    BY <1>0, <1>3 DEF CheckLock, ListenerGoes, ListenerType, Tidy, ListenerKnows
  <2>2. \A j \in Slots : ~(j < 0)
    BY DEF Slots
  <2>3. ListenerKnows'
    BY <2>1, <2>2 DEF ListenerKnows
  <2> QED
    BY <1>3, <1>k, <2>1, <2>3 DEF CheckLock
<1>4. CASE Scan
  <2>1. UNCHANGED <<thr, slot>>
    BY <1>4 DEF Scan
  <2>2. \A j \in Slots : Taken(j) /\ slot[j].addr = Addr[listener.conn] => j \in Same
    BY <1>0, <1>4 DEF Same, OccupiedFrom, Taken, Scan, Tidy, ListenerKnows, Slots
  <2>3. \A j \in Slots : Taken(j)' <=> Taken(j)
    BY <2>1 DEF Taken
  <2>4. CASE Same = {}
    <3>1. listener'.pc = "getBuff" /\ listener'.conn = listener.conn
      BY <1>0, <1>4, <2>4 DEF Scan, ListenerType
    <3>2. ListenerKnows'
      BY <2>1, <2>2, <2>3, <2>4, <3>1 DEF ListenerKnows
    <3> QED
      BY <1>k, <2>1, <3>1, <3>2
  <2>5. CASE Same # {}
    <3> DEFINE low == Lowest(Same)
    <3>1. Same \subseteq Slots
      BY DEF Same, OccupiedFrom
    <3>2. low \in Slots /\ \A j \in Same : low <= j
      BY <2>5, <3>1, LowestIsMember
    <3>3. listener'.pc = "logSame" /\ listener'.conn = listener.conn /\ listener'.k = low
      BY <1>0, <1>4, <2>5 DEF Scan, ListenerType
    <3>4. \A j \in Slots : j < low => ~(low <= j)
      <4> HIDE DEF low
      <4> QED
        BY <3>2 DEF Slots
    <3>5. ListenerKnows'
      BY <2>1, <2>2, <2>3, <3>1, <3>2, <3>3, <3>4 DEF ListenerKnows
    <3> QED
      BY <1>k, <2>1, <3>3, <3>5
  <2> QED
    BY <2>4, <2>5
<1>5. CASE LogSame \/ LogFull
  <2>1. UNCHANGED <<thr, slot>>
    BY <1>5 DEF LogSame, LogFull, ListenerLog
  <2>2. /\ listener'.k = listener.k /\ listener'.conn = listener.conn
        /\ \/ listener'.pc = listener.pc
           \/ listener.pc = "logSame" /\ listener'.pc = "cancel"
           \/ listener'.pc = "refuse"
        /\ listener.pc \in {"logSame", "logFull"}
    BY <1>0, <1>5 DEF LogSame, LogFull, ListenerLog, ListenerGoes, ListenerType
  <2>3. ListenerKnows'
    BY <1>0, <2>1, <2>2 DEF Tidy, ListenerKnows, Taken
  <2> QED
    BY <1>k, <2>1, <2>2, <2>3
<1>6. CASE CancelSame
  <2>1. /\ UNCHANGED <<thr, slot>> /\ listener.pc = "cancel" /\ listener'.pc = "join"
        /\ listener'.k = listener.k /\ listener'.conn = listener.conn /\ CancelSlot(listener.k)
        /\ Busy
    BY <1>0, <1>6 DEF CancelSame, ListenerGoes, ListenerType, Busy
  <2>2. ~Starting(listener.k)
    BY <2>1 DEF CancelSlot, Orderly
  <2>3. ListenerKnows'
    BY <1>0, <2>1 DEF Tidy, ListenerKnows, Taken
  <2>4. JoinsRegistered'
    BY <1>0, <1>1, <2>1, <2>2, TableKept DEF JoinsRegistered, AtJoin
  <2> QED
    BY <2>1, <2>3, <2>4, TableKept DEF Tidy
<1>7. CASE JoinSame
  <2>1. /\ JoinAndFree(listener.k) /\ listener.pc = "join" /\ listener'.pc = "scan" /\ Busy
        /\ listener'.k = listener.k /\ listener'.conn = listener.conn /\ AtJoin(listener.k)
    BY <1>0, <1>7 DEF JoinSame, ListenerGoes, ListenerType, Busy, AtJoin
  <2>2. /\ SlotFollowsThread' /\ OneSlotPerAddress'
        /\ \A j \in Slots : /\ Taken(j)' <=> Taken(j) /\ j # listener.k
                            /\ slot'[j].addr = slot[j].addr
    BY <1>0, <2>1, TableJoin
  <2>3. ListenerKnows'
    BY <2>1, <2>2 DEF Tidy, ListenerKnows
  <2>4. JoinsRegistered'
    BY <1>1, <2>1 DEF JoinsRegistered, AtJoin
  <2> QED
    BY <2>2, <2>3, <2>4 DEF Tidy
<1>8. CASE GetFreeBuff
  <2>1. UNCHANGED <<thr, slot>> /\ listener.pc = "getBuff"
    BY <1>8 DEF GetFreeBuff
  <2>2. FreeSlots # {} => Lowest(FreeSlots) \in Slots /\ ~Taken(Lowest(FreeSlots))
    BY LowestIsMember DEF FreeSlots, Taken
  <2>3. /\ listener'.conn = listener.conn
        /\ \/ listener'.pc = "logFull"
           \/ listener'.pc = "fill" /\ listener'.k \in Slots /\ ~Taken(listener'.k)
    BY <1>0, <1>8, <2>2 DEF GetFreeBuff, ListenerType
  <2>4. ListenerKnows'
    BY <2>1, <2>3, TableKept DEF Tidy, ListenerKnows
  <2> QED
    BY <1>k, <2>1, <2>3, <2>4
<1>9. CASE Refuse \/ ListenerCancelled
  <2>0. ListenerCancelled => listener.pc # "join"
    BY <1>0, NothingLate DEF ListenerCancelled, ControlInv, Busy, Closing
  <2>1. UNCHANGED <<thr, slot>> /\ listener'.pc \in {"accept", "exited"}
    BY <1>0, <1>9, <2>0 DEF Refuse, ListenerCancelled, AtAccept, ListenerType
  <2>2. ListenerKnows'
    BY <2>1 DEF ListenerKnows
  <2> QED
    BY <1>k, <2>1, <2>2
<1>10. CASE Fill
  <2>c. PICK k \in Slots : k = listener.k
    BY <1>0
  <2>d. PICK c \in Conns : c = listener.conn
    BY <1>10 DEF Fill, ListenerGoes, HandleInv, HandInv, ControlInv, TypeInv, Busy
  <2>1. /\ listener.pc = "fill" /\ listener'.pc = "create" /\ listener'.k = k /\ thr' = thr
        /\ slot' = [slot EXCEPT ![k].st = "BUFF_OCCUPIED", ![k].addr = Addr[c], ![k].conn = c]
        /\ Busy
    BY <1>0, <1>10, <2>c, <2>d DEF Fill, ListenerGoes, ListenerType, Busy
  <2>2. /\ \A j \in Slots : j # k => slot'[j] = slot[j]
        /\ slot'[k].addr = Addr[c]
        /\ Taken(k)'
        /\ \A j \in Slots : j # k => (Taken(j)' <=> Taken(j))
    BY <1>0, <2>1 DEF SlotState, Taken
  <2>3. /\ ~Taken(k)
        /\ \A j \in Slots : Taken(j) => slot[j].addr # Addr[c]
    BY <2>c, <2>d, <2>1 DEF Tidy, ListenerKnows
  <2>4. \A t \in Tids : /\ Live(t)' <=> Live(t)
                        /\ Live(t) => thr[t].slot # k
    BY <2>1, <2>3 DEF Live, Tidy, SlotFollowsThread, Taken
  <2>5. SlotFollowsThread'
    BY <1>0, <2>1, <2>2, <2>4 DEF Tidy, SlotFollowsThread, ThreadState
  <2>6. OneSlotPerAddress'
    BY <1>0, <2>1, <2>2, <2>3 DEF Tidy, OneSlotPerAddress
  <2>7. ListenerKnows'
    BY <2>1, <2>2, <2>4 DEF ListenerKnows
  <2>8. JoinsRegistered'
    BY <1>1, <2>1 DEF JoinsRegistered, AtJoin
  <2> QED
    BY <2>5, <2>6, <2>7, <2>8 DEF Tidy
<1>11. CASE Create
  <2>c. PICK k \in Slots : k = listener.k
    BY <1>0
  <2>1. listener.pc = "create" /\ listener'.pc = "accept" /\ slot' = slot /\ Busy
    BY <1>11 DEF Create, AtAccept, Busy
  <2>2. ListenerKnows' /\ JoinsRegistered'
    BY <1>1, <2>1 DEF ListenerKnows, JoinsRegistered, AtJoin
  <2>3. CASE thr' = thr
    BY <2>1, <2>2, <2>3, TableKept DEF Tidy
  <2>4. ASSUME NEW t \in UnusedTids,
               thr' = [thr EXCEPT ![t] = [pc |-> "start", slot |-> k, conn |-> NoConn]]
        PROVE  Tidy'
    <3>1. /\ t \in Tids /\ thr[t].pc = "unused"
          /\ \A u \in Tids : u # t => thr'[u] = thr[u]
          /\ thr'[t].pc = "start" /\ thr'[t].slot = k
      BY <1>0, <2>4 DEF UnusedTids
    <3>2. /\ \A u \in Tids : Live(u)' <=> Live(u) \/ u = t
          /\ Taken(k) /\ \A u \in Tids : Live(u) => thr[u].slot # k
      BY <2>c, <2>1, <3>1 DEF Live, Tidy, ListenerKnows
    <3>3. SlotFollowsThread'
      BY <1>0, <2>1, <3>1, <3>2 DEF Tidy, SlotFollowsThread, Taken, Live
    <3>4. OneSlotPerAddress'
      BY <2>1 DEF Tidy, OneSlotPerAddress, Taken
    <3> QED
      BY <2>2, <3>3, <3>4 DEF Tidy
  <2> QED
    BY <1>11, <2>c, <2>3, <2>4 DEF Create
<1> QED
  BY <1>2, <1>3, <1>4, <1>5, <1>6, <1>7, <1>8, <1>9, <1>10, <1>11 DEF ListenThread

(* The GTK thread, the users and the clients keep the table right.          *)
LEMMA TableGtk ==
  ASSUME HandleInv, Tidy, Orderly, Orderly', Environment \/ GtkThread
  PROVE  Tidy'
<1> USE DEF server, table, ring, history
<1>0. /\ TypeInv /\ ControlInv
      /\ thr \in [Tids -> ThreadState] /\ slot \in [Slots -> SlotState]
      /\ gtk \in GtkType /\ gtk.k \in Slots /\ listener.k \in Slots
  BY DEF HandleInv, HandInv, ControlInv, TypeInv, TypeOK, ThreadState, SlotState, Addresses,
         GtkType
<1>k. ASSUME UNCHANGED <<thr, slot, listener>>, \A k \in Slots : AtJoin(k)' => ~Starting(k)
      PROVE  Tidy'
  <2>1. ListenerKnows'
    BY <1>0, <1>k, TableKept DEF Tidy, ListenerKnows
  <2>2. JoinsRegistered'
    BY <1>k, TableKept DEF JoinsRegistered
  <2> QED
    BY <1>k, <2>1, <2>2, TableKept DEF Tidy
<1>1. ASSUME UNCHANGED <<thr, slot, listener>>, gtk'.pc # "join" \/ gtk' = gtk PROVE Tidy'
  <2>1. \A k \in Slots : AtJoin(k)' => ~Starting(k)
    BY <1>1 DEF AtJoin, Tidy, JoinsRegistered
  <2> QED
    BY <1>1, <1>k, <2>1
<1>2. ASSUME NEW c \in Conns, Connect(c) PROVE Tidy'
  BY <1>1, <1>2 DEF Connect
<1>3. CASE InfoPrint \/ StopServer \/ StopLock \/ CancelListener
  BY <1>1, <1>3 DEF InfoPrint, StopServer, StopLock, CancelListener, GtkGoes
<1>4. CASE StartServer \/ StartFails
  <2>1. /\ ResetTable /\ thr' = thr /\ gtk' = gtk /\ gtk.pc = "loop" /\ ~opened
        /\ listener'.pc \in {"none", "accept"}
    BY <1>0, <1>4 DEF StartServer, StartFails, AtAccept, ControlInv
  <2>2. \A t \in Tids : ~Live(t)' /\ ~Live(t)
    BY <1>0, <2>1, NothingLate DEF Tidy, SlotFollowsThread, Live, ThreadState, Taken
  <2>3. \A k \in Slots : ~Taken(k)'
    BY <1>0, <2>1, ResetEffect
  <2>4. SlotFollowsThread' /\ OneSlotPerAddress'
    BY <2>2, <2>3 DEF SlotFollowsThread, OneSlotPerAddress
  <2>5. ListenerKnows' /\ JoinsRegistered'
    BY <2>1 DEF ListenerKnows, Section, JoinsRegistered, AtJoin
  <2> QED
    BY <2>4, <2>5 DEF Tidy
<1>5. CASE Sweep
  <2>1. UNCHANGED <<thr, slot, listener>> /\ gtk.pc = "sweep"
    BY <1>5 DEF Sweep, GtkGoes
  <2>2. CASE OccupiedFrom(gtk.k) = {}
    BY <1>1, <1>5, <2>1, <2>2 DEF Sweep, GtkGoes
  <2>3. CASE OccupiedFrom(gtk.k) # {}
    <3>1. PICK low \in Slots : low = Lowest(OccupiedFrom(gtk.k))
      BY <2>3, LowestIsMember DEF OccupiedFrom
    <3>2. CancelSlot(low) /\ gtk'.pc = "join" /\ gtk'.k = low
      BY <1>5, <2>3, <3>1 DEF Sweep, GtkGoes
    <3>3. ~Starting(low)
      BY <3>2 DEF CancelSlot, Orderly
    <3>4. \A k \in Slots : AtJoin(k)' => ~Starting(k)
      BY <2>1, <3>2, <3>3 DEF AtJoin, Tidy, JoinsRegistered
    <3> QED
      BY <1>k, <2>1, <3>4
  <2> QED
    BY <2>2, <2>3
<1>6. CASE JoinService
  <2>1. /\ listener' = listener /\ gtk.pc = "join" /\ gtk'.pc = "sweep"
        /\ JoinAndFree(gtk.k) /\ AtJoin(gtk.k)
    BY <1>6 DEF JoinService, GtkGoes, AtJoin
  <2>2. SlotFollowsThread' /\ OneSlotPerAddress'
    BY <1>0, <2>1, TableJoin
  <2>3. ~Busy
    BY <2>1, NothingLate DEF Closing
  <2>4. ListenerKnows' /\ JoinsRegistered'
    BY <2>1, <2>3 DEF ListenerKnows, Section, JoinsRegistered, AtJoin, Busy
  <2> QED
    BY <2>2, <2>4 DEF Tidy
<1>7. CASE Closed
  <2>1. /\ UNCHANGED <<thr, slot>> /\ gtk'.pc = "loop" /\ listener'.pc = "none"
    BY <1>0, <1>7, TypeInductive DEF Closed, GtkGoes, TypeInv, TypeOK
  <2>2. ListenerKnows' /\ JoinsRegistered'
    BY <2>1 DEF ListenerKnows, Section, JoinsRegistered, AtJoin
  <2> QED
    BY <2>1, <2>2, TableKept DEF Tidy
<1> QED
  BY <1>2, <1>3, <1>4, <1>5, <1>6, <1>7 DEF Environment, GtkThread

(* An empty table is right.                                                 *)
LEMMA InitTable == Init => TableInv
<1> SUFFICES ASSUME Init PROVE TableInv
  OBVIOUS
<1>1. /\ HandleInv /\ listener.pc = "none" /\ gtk.pc = "loop"
      /\ \A t \in Tids : ~Live(t)
      /\ \A k \in Slots : ~Taken(k)
  BY InitHandle DEF Init, Live, Unused, Taken, FreedSlot
<1>2. Tidy
  BY <1>1 DEF Tidy, SlotFollowsThread, OneSlotPerAddress, ListenerKnows, Section,
              JoinsRegistered, AtJoin
<1> QED
  BY <1>1, <1>2 DEF TableInv

(* The table stays right in every step.                                     *)
LEMMA TableInductive ==
  ASSUME TableInv, [Next]_vars
  PROVE  TableInv'
<1>1. HandleInv'
  BY HandleInductive DEF TableInv
<1>2. ASSUME Orderly' PROVE Tidy'
  <2>1. Orderly /\ Tidy /\ HandleInv
    BY <1>2, OrderlyBefore DEF TableInv
  <2>2. CASE UNCHANGED vars
    <3>1. UNCHANGED <<thr, slot, listener, gtk>> /\ listener.k \in Slots
      BY <2>1, <2>2 DEF vars, HandleInv, HandInv, ControlInv, TypeInv, TypeOK
    <3>2. ListenerKnows' /\ JoinsRegistered'
      BY <2>1, <3>1, TableKept DEF Tidy, ListenerKnows, JoinsRegistered, AtJoin
    <3> QED
      BY <2>1, <3>1, <3>2, TableKept DEF Tidy
  <2> QED
    BY <1>2, <2>1, <2>2, TableService, TableListener, TableGtk DEF Next
<1> QED
  BY <1>1, <1>2 DEF TableInv

(* So it is right in every state.                                           *)
LEMMA TableAlways == Spec => []TableInv
BY InitTable, TableInductive, PTL DEF Spec

(* Whoever frees a slot, a thread on its way out, the listen thread for a   *)
(* client that connected again or the GTK thread on closing, never frees    *)
(* the slot of another thread, however many there are, as long as no handle *)
(* was used before it was stored and no connection met a stopserver.        *)
THEOREM OwnSlots == Spec => []SlotFollowsThread
<1>1. TableInv => SlotFollowsThread
  BY DEF TableInv, Tidy, SlotFollowsThread
<1> QED
  BY TableAlways, <1>1, PTL

(* However connections follow each other, two live threads never serve the  *)
(* same client address, under the same condition.                           *)
THEOREM OneServes == Spec => []OneThreadPerAddress
<1>1. ASSUME TableInv PROVE OneThreadPerAddress
  <2> SUFFICES ASSUME Orderly, NEW t \in Tids, NEW u \in Tids, Live(t), Live(u),
                      Addr[Serves(t)] = Addr[Serves(u)]
               PROVE  t = u
    BY DEF OneThreadPerAddress
  <2>0. Tidy /\ HandInv
    BY <1>1 DEF TableInv, HandleInv
  <2> DEFINE k == thr[t].slot  j == thr[u].slot
  <2>1. k \in Slots /\ j \in Slots
    BY <2>0 DEF HandInv, ControlInv, TypeInv, TypeOK
  <2>2. Taken(k) /\ Taken(j) /\ Serves(t) = slot[k].conn /\ Serves(u) = slot[j].conn
    BY <2>0 DEF Tidy, SlotFollowsThread, Taken, Serves
  <2>3. slot[k].addr = slot[j].addr
    BY <2>0, <2>1, <2>2 DEF HandInv, SlotsServeMet
  <2>4. k = j
    BY <2>0, <2>1, <2>2, <2>3 DEF Tidy, OneSlotPerAddress
  <2> QED
    BY <2>0, <2>4 DEF Tidy, SlotFollowsThread
<1>2. TableInv => OneThreadPerAddress
  BY <1>1
<1> QED
  BY TableAlways, <1>2, PTL

(* When the server is reported closed no service thread is left, every slot *)
(* is free for the next start and nobody holds buff_mutex, under the same   *)
(* condition.                                                               *)
THEOREM NobodyLeft == Spec => []QuietCloseEnds
<1>1. ASSUME TableInv PROVE QuietCloseEnds
  <2> SUFFICES ASSUME Orderly, gtk.pc = "loop", ~opened
               PROVE  /\ \A t \in Tids : ~Live(t)
                      /\ \A k \in Slots : slot[k].st = "BUFF_FREED"
                      /\ buffMutex = Nobody
    BY DEF QuietCloseEnds, ClosedMeansEnded
  <2>0. Tidy /\ HandleInv /\ HandInv /\ ControlInv
    BY <1>1 DEF TableInv, HandleInv, HandInv
  <2>1. /\ \A k \in Slots : slot[k].st \in {"BUFF_FREED", "BUFF_OCCUPIED"}
        /\ \A t \in Tids : thr[t].slot \in Slots
        /\ buffMutex \in {Nobody, Listener, Gtk}
    BY <2>0 DEF ControlInv, TypeInv, TypeOK
  <2>2. \A k \in Slots : ~Taken(k)
    BY <2>0, NothingLate
  <2>3. \A k \in Slots : slot[k].st = "BUFF_FREED"
    BY <2>1, <2>2 DEF Taken
  <2>4. \A t \in Tids : ~Live(t)
    BY <2>0, <2>1, <2>2 DEF Tidy, SlotFollowsThread, Taken
  <2>5. ~MutexLost
    BY <2>0 DEF HandInv, MutexLostToTwo, Orderly
  <2>6. buffMutex # Gtk /\ listener.pc = "none"
    BY <2>0 DEF ControlInv
  <2>7. buffMutex = Nobody
    BY <2>1, <2>5, <2>6 DEF MutexLost
  <2> QED
    BY <2>3, <2>4, <2>7
<1>2. TableInv => QuietCloseEnds
  BY <1>1
<1> QED
  BY TableAlways, <1>2, PTL
===============================================================================
